---------------------------- MODULE ChallengeProofs ----------------------------
(***************************************************************************)
(* Proofs about the terms of a payment: for any destination with any       *)
(* number of sources, any price and charges, and whatever is supported,    *)
(* remembered or forgotten between the challenge and the settlement.       *)
(***************************************************************************)
EXTENDS Challenge, SequenceTheorems, WellFoundedInduction, NaturalsInduction, TLAPS

(***************************************************************************)
(* Numbers.                                                                *)
(***************************************************************************)

\* A nonempty set of places has a first one.
LEMMA FirstPlace ==
  ASSUME NEW S \in SUBSET Nat, S # {}
  PROVE  First(S) \in S /\ \A n \in S : First(S) <= n
  <1>1. PICK n \in S : \A m \in S : ~(<<m, n>> \in OpToRel(<, Nat))
    BY NatLessThanWellFounded, WFMin
  <1>2. \A m \in S : ~(m < n)
    BY <1>1 DEF OpToRel
  <1>3. \A m \in S : n <= m
    BY <1>2
  <1> QED
    BY <1>3 DEF First

\* What MicroString writes AmountFromMicroString reads.
LEMMA ReadsBack ==
  ASSUME ChallengeAssumption, NEW n \in Nat
  PROVE  /\ AmountFromMicroString(MicroString(n)) = n
         /\ MicroString(n) \in Nat
  <1> DEFINE w == n * Scale
  <1>1. Scale \in Nat /\ Scale > 0 /\ w \in Nat
    BY DEF ChallengeAssumption
  <1>2. w % Scale = 0 /\ w \div Scale = n
    BY <1>1
  <1> QED
    BY <1>1, <1>2 DEF AmountFromMicroString, MicroString
-------------------------------------------------------------------------------
(***************************************************************************)
(* The sources of a destination, and the accepts made of them.             *)
(***************************************************************************)
Source == [chain : STRING, address : STRING]
Destinations == [primary : Primaries, fetched : BoundedSeq(Pool, MaxFetched)]

\* The primary account is the first source, and the only one if the lookup of the
\* others fails.
LEMMA SourcesOK ==
  ASSUME ChallengeAssumption, destination \in Destinations, NEW answered \in BOOLEAN
  PROVE  /\ FetchAllSources(answered) \in Seq(Source)
         /\ 1 \in DOMAIN FetchAllSources(answered)
         /\ FetchAllSources(answered)[1] = destination.primary
         /\ ~answered => DOMAIN FetchAllSources(answered) = {1}
  <1> DEFINE fetched == destination.fetched
  <1>1. destination.primary \in Source /\ destination.fetched \in Seq(Source)
    <2>1. Primaries \subseteq Source /\ Pool \subseteq Source
      BY DEF ChallengeAssumption, Source
    <2>2. destination.primary \in Primaries /\ fetched \in BoundedSeq(Pool, MaxFetched)
      BY DEF Destinations
    <2>3. PICK n \in 0..MaxFetched : fetched \in [1..n -> Pool]
      BY <2>2, Zenon DEF BoundedSeq, SeqOf
    <2>4. n \in Nat /\ fetched \in [1..n -> Source]
      BY <2>1, <2>3 DEF ChallengeAssumption
    <2>5. fetched \in Seq(Source)
      BY <2>4, SeqDef
    <2> QED
      BY <2>1, <2>2, <2>5
  <1>2. <<destination.primary>> \in Seq(Source) /\ Len(<<destination.primary>>) = 1
    BY <1>1
  <1> QED
    BY <1>1, <1>2 DEF FetchAllSources

Usable(source) == PaidOnEVM(source) \/ PaidOnSVM(source)

\* Of the usable sources on a chain, this one is the first.
Leads(sources, i) ==
    /\ i \in DOMAIN sources /\ Usable(sources[i])
    /\ \A j \in DOMAIN sources :
          Usable(sources[j]) /\ sources[j].chain = sources[i].chain => i <= j

\* Every accept is for the amount and for the first usable source on its chain.
LEMMA AcceptsLead ==
  ASSUME NEW sources \in Seq(Source), NEW amount, NEW upto,
         NEW e \in BuildX402Requirements(sources, amount, upto)
  PROVE  /\ e.place \in Nat
         /\ \E i \in DOMAIN sources, scheme \in {"exact", "upto"} :
               /\ e.accept = Accept(scheme, sources[i], amount)
               /\ Leads(sources, i)
  <1> DEFINE all == EVMOffers(sources, amount, upto) \cup SVMOffers(sources, amount)
  <1>1. DOMAIN sources = 1..Len(sources) /\ Len(sources) \in Nat
    OBVIOUS
  <1>2. e \in all /\ \A f \in all : SameOffer(e.accept, f.accept) => e.place <= f.place
    BY DEF BuildX402Requirements, Dedupe
  <1>3. CASE e \in ExactOffers(sources, amount)
    <2>1. PICK i \in DOMAIN sources : /\ PaidOnEVM(sources[i])
                                      /\ e = Entry(2*i, Accept("exact", sources[i], amount))
      BY <1>3 DEF ExactOffers
    <2>2. ASSUME NEW j \in DOMAIN sources, Usable(sources[j]),
                 sources[j].chain = sources[i].chain
          PROVE  i <= j
      <3>1. PaidOnEVM(sources[j])
        BY <2>1, <2>2 DEF Usable, PaidOnEVM, PaidOnSVM, X402EVM, X402SVM
      <3>2. Entry(2*j, Accept("exact", sources[j], amount)) \in all
        BY <3>1 DEF EVMOffers, ExactOffers
      <3>3. 2*i <= 2*j
        BY <1>2, <2>1, <2>2, <3>2 DEF SameOffer, Entry, Accept
      <3> QED
        BY <1>1, <3>3
    <2>3. e.place \in Nat
      BY <1>1, <2>1 DEF Entry
    <2> QED
      BY <2>1, <2>2, <2>3 DEF Leads, Usable, Entry
  <1>4. CASE e \in UptoOffers(sources, amount, upto)
    <2>1. PICK i \in DOMAIN sources : /\ PaidOnEVM(sources[i]) /\ sources[i].chain \in upto
                                      /\ e = Entry(2*i + 1, Accept("upto", sources[i], amount))
      BY <1>4 DEF UptoOffers
    <2>2. ASSUME NEW j \in DOMAIN sources, Usable(sources[j]),
                 sources[j].chain = sources[i].chain
          PROVE  i <= j
      <3>1. PaidOnEVM(sources[j])
        BY <2>1, <2>2 DEF Usable, PaidOnEVM, PaidOnSVM, X402EVM, X402SVM
      <3>2. Entry(2*j + 1, Accept("upto", sources[j], amount)) \in all
        BY <2>1, <2>2, <3>1 DEF EVMOffers, UptoOffers
      <3>3. 2*i + 1 <= 2*j + 1
        BY <1>2, <2>1, <2>2, <3>2 DEF SameOffer, Entry, Accept
      <3> QED
        BY <1>1, <3>3
    <2>3. e.place \in Nat
      BY <1>1, <2>1 DEF Entry
    <2> QED
      BY <2>1, <2>2, <2>3 DEF Leads, Usable, Entry
  <1>5. CASE e \in SVMOffers(sources, amount)
    <2> DEFINE base == 2*Len(sources) + 1
    <2>1. PICK i \in DOMAIN sources :
              /\ PaidOnSVM(sources[i])
              /\ e = Entry(base + i, Accept("exact", sources[i], amount))
      BY <1>5 DEF SVMOffers
    <2>2. ASSUME NEW j \in DOMAIN sources, Usable(sources[j]),
                 sources[j].chain = sources[i].chain
          PROVE  i <= j
      <3>1. PaidOnSVM(sources[j])
        BY <2>1, <2>2 DEF Usable, PaidOnEVM, PaidOnSVM, X402EVM, X402SVM
      <3>2. Entry(base + j, Accept("exact", sources[j], amount)) \in all
        BY <3>1 DEF SVMOffers
      <3>3. base + i <= base + j
        BY <1>2, <2>1, <2>2, <3>2 DEF SameOffer, Entry, Accept
      <3> QED
        BY <1>1, <3>3
    <2>3. e.place \in Nat
      BY <1>1, <2>1 DEF Entry
    <2> QED
      BY <2>1, <2>2, <2>3 DEF Leads, Usable, Entry
  <1> QED
    BY <1>2, <1>3, <1>4, <1>5 DEF EVMOffers

\* The accept of a scheme and a network is the same in every challenge for a price
\* of the destination, whatever else it lists.
LEMMA SameAccept ==
  ASSUME ChallengeAssumption, destination \in Destinations, NEW amount,
         NEW first \in BOOLEAN, NEW second \in BOOLEAN, NEW upto1, NEW upto2,
         NEW e \in BuildX402Requirements(FetchAllSources(first), amount, upto1),
         NEW f \in BuildX402Requirements(FetchAllSources(second), amount, upto2),
         SameOffer(e.accept, f.accept)
  PROVE  e.accept = f.accept
  <1>1. PICK i \in DOMAIN FetchAllSources(first), s \in {"exact", "upto"} :
            /\ e.accept = Accept(s, FetchAllSources(first)[i], amount)
            /\ Leads(FetchAllSources(first), i)
    BY SourcesOK, AcceptsLead
  <1>2. PICK j \in DOMAIN FetchAllSources(second), r \in {"exact", "upto"} :
            /\ f.accept = Accept(r, FetchAllSources(second)[j], amount)
            /\ Leads(FetchAllSources(second), j)
    BY SourcesOK, AcceptsLead
  <1>3. /\ s = r
        /\ FetchAllSources(first)[i].chain = FetchAllSources(second)[j].chain
    BY <1>1, <1>2 DEF SameOffer, Accept
  <1>4. i \in Nat /\ j \in Nat /\ i >= 1 /\ j >= 1
    BY <1>1, <1>2, SourcesOK
  <1>5. FetchAllSources(first)[i] = FetchAllSources(second)[j]
    <2>1. CASE first = second
      BY <1>1, <1>2, <1>3, <1>4, <2>1 DEF Leads
    <2>2. CASE first /\ ~second
      <3>1. j = 1 /\ FetchAllSources(second)[1] = FetchAllSources(first)[1]
        BY <2>2, SourcesOK
      <3>2. i <= 1
        BY <1>1, <1>2, <1>3, <3>1, SourcesOK DEF Leads
      <3> QED
        BY <1>4, <3>1, <3>2
    <2>3. CASE ~first /\ second
      <3>1. i = 1 /\ FetchAllSources(second)[1] = FetchAllSources(first)[1]
        BY <2>3, SourcesOK
      <3>2. j <= 1
        BY <1>1, <1>2, <1>3, <3>1, SourcesOK DEF Leads
      <3> QED
        BY <1>4, <3>1, <3>2
    <2> QED
      BY <2>1, <2>2, <2>3
  <1> QED
    BY <1>1, <1>2, <1>3, <1>5

\* The first accept of a list that is not empty is one of its accepts.
LEMMA FirstAcceptIn ==
  ASSUME NEW list, list # {}, \A e \in list : e.place \in Nat
  PROVE  \E e \in list : FirstAccept(list) = e.accept
  <1> DEFINE places == {f.place : f \in list}
  <1>1. places \in SUBSET Nat /\ places # {}
    OBVIOUS
  <1>2. First(places) \in places
    BY <1>1, FirstPlace
  <1> QED
    BY <1>2 DEF FirstAccept
-------------------------------------------------------------------------------
(***************************************************************************)
(* The challenges of a price and what the readers make of them.            *)
(***************************************************************************)
Offers(list) ==
    \E answered \in BOOLEAN, support \in Supports :
        list = BuildX402Requirements(FetchAllSources(answered), price, support.upto)
Issued(c) ==
    \E answered \in BOOLEAN, support \in Supports :
        c = OmniChallenge(FetchAllSources(answered), price, support)

\* The constants and variables every challenge is built from.
Terms == ChallengeAssumption /\ destination \in Destinations /\ price \in Prices

\* An accept of a list is for the price, and goes to a source of the merchant.
LEMMA OfferTerms ==
  ASSUME Terms, NEW list, Offers(list), NEW e \in list
  PROVE  /\ e.place \in Nat
         /\ e.accept.scheme \in {"exact", "upto"}
         /\ e.accept.amount = MicroString(price)
         /\ [chain |-> e.accept.network, address |-> e.accept.payTo]
               \in ToSet(FetchAllSources(TRUE))
  <1>1. PICK answered \in BOOLEAN, support \in Supports :
            list = BuildX402Requirements(FetchAllSources(answered), price, support.upto)
    BY DEF Offers
  <1> DEFINE sources == FetchAllSources(answered)
  <1>2. sources \in Seq(Source)
    BY SourcesOK DEF Terms
  <1>3. PICK i \in DOMAIN sources, scheme \in {"exact", "upto"} :
            e.accept = Accept(scheme, sources[i], price)
    BY <1>1, <1>2, AcceptsLead
  <1>4. sources[i] \in Source
    BY <1>2
  <1>5. [chain |-> e.accept.network, address |-> e.accept.payTo] = sources[i]
    BY <1>3, <1>4 DEF Accept, Source
  <1>6. sources[i] \in ToSet(FetchAllSources(TRUE))
    <2>1. CASE answered
      BY <2>1 DEF ToSet
    <2>2. CASE ~answered
      <3>1. i = 1 /\ 1 \in DOMAIN FetchAllSources(TRUE)
            /\ sources[1] = FetchAllSources(TRUE)[1]
        BY <2>2, SourcesOK DEF Terms
      <3> QED
        BY <3>1 DEF ToSet
    <2> QED
      BY <2>1, <2>2
  <1>7. e.place \in Nat
    BY <1>1, <1>2, AcceptsLead
  <1>8. e.accept.scheme \in {"exact", "upto"} /\ e.accept.amount = MicroString(price)
    BY <1>3 DEF Accept
  <1> HIDE DEF sources
  <1> QED
    BY <1>5, <1>6, <1>7, <1>8

\* The price is read back from the accepts of a list.
LEMMA PriceReadsBack ==
  ASSUME Terms
  PROVE  /\ price \in Nat /\ price # Blank
         /\ AmountFromMicroString(MicroString(price)) = price
         /\ MicroString(price) \in Nat
  <1>1. price \in Nat
    BY DEF Terms, ChallengeAssumption
  <1> QED
    BY <1>1, ReadsBack DEF Terms, Blank

\* The requirement of a settlement is an accept of the list, unless that is empty.
LEMMA SelectsOffer ==
  ASSUME Terms, NEW list, Offers(list), list # {},
         NEW c, c.named \in {"offer", "network", "nothing"}
  PROVE  \E e \in list : SelectX402Accept(c, list) = e.accept
  <1> DEFINE offer == {e \in list : SameOffer(e.accept, c.accept)}
             chain == {e \in list : e.accept.network = c.accept.network}
             evm == {e \in list : e.accept.network \in X402EVM}
             wanted == CASE c.named = "offer" -> IF offer # {} THEN offer ELSE chain
                         [] c.named = "network" -> chain
                         [] c.named = "nothing" -> evm
             chosen == IF wanted # {} THEN wanted ELSE list
  <1>1. SelectX402Accept(c, list) = FirstAccept(chosen)
    BY DEF SelectX402Accept
  <1>2. wanted \in {offer, chain, evm}
    <2> HIDE DEF offer, chain, evm
    <2> QED
      OBVIOUS
  <1>3. chosen \subseteq list /\ chosen # {}
    <2>1. offer \subseteq list /\ chain \subseteq list /\ evm \subseteq list
      OBVIOUS
    <2> HIDE DEF offer, chain, evm, wanted
    <2> QED
      BY <1>2, <2>1
  <1>4. \A e \in chosen : e.place \in Nat
    <2> HIDE DEF chosen
    <2> QED
      BY <1>3, OfferTerms
  <1> HIDE DEF chosen
  <1>5. \E e \in chosen : FirstAccept(chosen) = e.accept
    BY <1>3, <1>4, FirstAcceptIn
  <1> QED
    BY <1>1, <1>3, <1>5

\* What the x402 signer signs is an accept of the challenge.
LEMMA SignsOffer ==
  ASSUME Terms, NEW list, Offers(list)
  PROVE  \/ SelectExactAccept(list) = NoAccept
         \/ \E e \in list : SelectExactAccept(list) = e.accept
  <1> DEFINE exact == {e \in list : /\ e.accept.scheme = "exact"
                                    /\ e.accept.network \in X402EVM
                                    /\ Pinned \in {AnyNetwork, e.accept.network}}
  <1>1. exact \subseteq list /\ \A e \in exact : e.place \in Nat
    BY OfferTerms
  <1>2. SelectExactAccept(list) = IF exact = {} THEN NoAccept ELSE FirstAccept(exact)
    BY DEF SelectExactAccept
  <1>3. exact # {} => \E e \in exact : FirstAccept(exact) = e.accept
    <2> HIDE DEF exact
    <2> QED
      BY <1>1, FirstAcceptIn
  <1> HIDE DEF exact
  <1> QED
    BY <1>1, <1>2, <1>3
-------------------------------------------------------------------------------
(***************************************************************************)
(* What a credential is made of, and the amounts it is read for.           *)
(***************************************************************************)

\* The signer answers as an account may.
LEMMA SignerIsAnAccount ==
  ASSUME Terms, NEW c, Offers(c.x402)
  PROVE  SignerAnswers(c) \subseteq AccountsAnswers(c)
  <1> SUFFICES ASSUME NEW a \in {SelectExactAccept(c.x402)} \ {NoAccept}
               PROVE  [protocol |-> "x402", accept |-> a, named |-> "offer"]
                          \in AccountsAnswers(c)
    BY DEF SignerAnswers
  <1>1. PICK e \in c.x402 : a = e.accept
    BY SignsOffer
  <1> QED
    BY <1>1 DEF AccountsAnswers

\* The parts of a challenge.
LEMMA IssuedParts ==
  ASSUME NEW c, Issued(c)
  PROVE  /\ Offers(c.x402)
         /\ c.chargeAmount = IF OmitsChargeAmount THEN Blank ELSE price
         /\ c.request.amount = price
         /\ \E sources, support : c.mpp = BuildMppChallenges(sources, price, support)
  BY DEF Issued, Offers, OmniChallenge, Decimal

\* An MPP challenge has its price in the unit of its method.
LEMMA MppUnits ==
  ASSUME NEW sources, NEW support, NEW o \in BuildMppChallenges(sources, price, support)
  PROVE  \/ o.method = "solana" /\ o.amount = MicroString(price)
         \/ o.method = "tempo" /\ o.amount = Decimal(price)
  <1>1. \A method, chains, amount, channels :
            \A p \in MppOf(method, chains, sources, amount, channels) :
                p.method = method /\ p.amount = amount
    <2> SUFFICES ASSUME NEW method, NEW chains, NEW amount, NEW channels,
                        NEW p \in MppOf(method, chains, sources, amount, channels)
                 PROVE  p.method = method /\ p.amount = amount
      OBVIOUS
    <2> DEFINE on == {i \in DOMAIN sources : sources[i].chain \in chains}
               intents == IF on = {} THEN {}
                          ELSE IF channels THEN {"charge", "session"} ELSE {"charge"}
    <2>1. PICK intent \in intents :
              p = [method |-> method, intent |-> intent,
                   recipient |-> sources[First(on)].address, amount |-> amount]
      BY Zenon DEF MppOf
    <2> QED
      BY <2>1
  <1> QED
    BY <1>1 DEF BuildMppChallenges

\* What an account is asked to authorize is an amount, and the price if the
\* challenge says it.
LEMMA AuthorizesAmount ==
  ASSUME Terms, NEW c, Issued(c)
  PROVE  /\ AuthorizeAmount(c) \in Nat
         /\ OmitsChargeAmount = FALSE => AuthorizeAmount(c) = price
  <1>1. CASE c.chargeAmount # Blank
    BY <1>1, IssuedParts, PriceReadsBack DEF AuthorizeAmount
  <1>2. CASE c.chargeAmount = Blank
    <2> DEFINE others == {e \in c.x402 : e.accept.network # "atxp"}
    <2>1. FirstX402(c.x402) = IF others = {} THEN NoAccept ELSE FirstAccept(others)
      BY DEF FirstX402
    <2>2. others \subseteq c.x402 /\ \A e \in others : e.place \in Nat
      BY IssuedParts, OfferTerms
    <2> HIDE DEF others
    <2>3. others # {} => \E e \in c.x402 : FirstAccept(others) = e.accept
      BY <2>2, FirstAcceptIn
    <2>4. FirstX402(c.x402) # NoAccept => FirstX402(c.x402).amount = MicroString(price)
      <3>1. \A e \in c.x402 : e.accept.amount = MicroString(price)
        BY IssuedParts, OfferTerms
      <3> QED
        BY <2>1, <2>3, <3>1
    <2>5. AuthorizeAmount(c) \in {MicroString(price), price}
      BY <1>2, <2>4, IssuedParts DEF AuthorizeAmount
    <2>6. OmitsChargeAmount # FALSE
      BY <1>2, IssuedParts, PriceReadsBack
    <2> QED
      BY <2>5, <2>6, PriceReadsBack
  <1> QED
    BY <1>1, <1>2

\* An answer is of one of three kinds.
LEMMA AnswerKinds ==
  ASSUME NEW c, NEW answer \in AccountsAnswers(c)
  PROVE  \/ /\ answer.protocol = "atxp" /\ answer.amount = AuthorizeAmount(c)
            /\ answer.listed \in BOOLEAN /\ answer.raw \in BOOLEAN
         \/ /\ answer.protocol = "x402"
            /\ answer.named \in {"offer", "network", "nothing"}
            /\ \E e \in c.x402 : answer.accept = e.accept
         \/ answer.protocol = "mpp" /\ answer.offer \in c.mpp
  BY DEF AccountsAnswers

\* Each protocol's amount is read in the unit it was written in.
LEMMA ReadsAmount ==
  ASSUME Terms, NEW c, Issued(c), NEW answer \in AccountsAnswers(c),
         NEW list, list = {} \/ Offers(list)
  PROVE  /\ answer.protocol = "atxp" => AuthorizedAmount(answer, list) = AuthorizeAmount(c)
         /\ answer.protocol = "mpp" => AuthorizedAmount(answer, list) = price
         /\ answer.protocol = "x402" =>
               AuthorizedAmount(answer, list) = IF list = {} THEN Blank ELSE price
  <1>1. CASE answer.protocol = "atxp"
    BY <1>1, AnswerKinds DEF AuthorizedAmount, ParseAmount
  <1>2. CASE answer.protocol = "mpp"
    <2>1. PICK sources, support : c.mpp = BuildMppChallenges(sources, price, support)
      BY IssuedParts
    <2>2. answer.offer \in BuildMppChallenges(sources, price, support)
      BY <1>2, <2>1, AnswerKinds
    <2>3. \/ answer.offer.method = "solana" /\ answer.offer.amount = MicroString(price)
          \/ answer.offer.method = "tempo" /\ answer.offer.amount = Decimal(price)
      BY <2>2, MppUnits
    <2> QED
      BY <1>2, <2>3, PriceReadsBack DEF AuthorizedAmount, ParseAmount, Decimal
  <1>3. CASE answer.protocol = "x402"
    <2> DEFINE accept == SelectX402Accept(answer, list)
    <2>1. AuthorizedAmount(answer, list) =
              IF accept = NoAccept THEN Blank ELSE AmountFromMicroString(accept.amount)
      BY <1>3 DEF AuthorizedAmount
    <2>2. CASE list = {}
      BY <1>3, <2>1, <2>2 DEF SelectX402Accept
    <2>3. CASE list # {}
      <3>1. PICK e \in list : accept = e.accept
        BY <1>3, <2>3, AnswerKinds, SelectsOffer
      <3>2. accept.amount = MicroString(price) /\ accept.scheme \in {"exact", "upto"}
        BY <2>3, <3>1, OfferTerms
      <3>3. accept # NoAccept
        BY <3>2 DEF NoAccept
      <3>4. AuthorizedAmount(answer, list) = price
        BY <2>1, <3>2, <3>3, PriceReadsBack
      <3> QED
        BY <1>3, <2>3, <3>4
    <2> QED
      BY <2>2, <2>3
  <1> QED
    BY <1>1, <1>2, <1>3

\* A session is capped by an amount or by nothing.
LEMMA CapsAnAmount ==
  ASSUME Terms, NEW c, Issued(c), NEW answer \in AccountsAnswers(c),
         NEW list, list = {} \/ Offers(list)
  PROVE  /\ DeriveSessionCap(answer, list) \in Nat \cup {Unlimited}
         /\ answer.protocol = "x402" \/ answer.protocol = "mpp" \/ OmitsChargeAmount = FALSE =>
               DeriveSessionCap(answer, list) =
                   IF answer.protocol = "x402" /\ list = {} THEN Unlimited ELSE price
  BY ReadsAmount, AnswerKinds, AuthorizesAmount, PriceReadsBack
     DEF DeriveSessionCap, Unlimited, Blank
-------------------------------------------------------------------------------
(***************************************************************************)
(* The invariant.  Every challenge of the caller, the one answered and the *)
(* one remembered, was built for the same price and destination; the       *)
(* credential answers the first and the session reads the second, which    *)
(* does not change once the session is open.                               *)
(***************************************************************************)
TermsFixed ==
    /\ price \in Prices
    /\ destination \in Destinations
    /\ stage \in {"idle", "challenged", "paid", "open", "closed"}

ChallengeBuilt ==
    IF stage = "idle" THEN challenge = NoChallenge ELSE Issued(challenge)

RememberedBuilt == remembered = {} \/ Offers(remembered)

CredentialAnswers ==
    IF stage \in {"idle", "challenged"} THEN credential = [protocol |-> "none"]
                                        ELSE credential \in AccountsAnswers(challenge)

SessionCapped ==
    IF Opened THEN /\ cap = DeriveSessionCap(credential, remembered)
                   /\ cap = Unlimited \/ spent <= cap
              ELSE cap = 0 /\ spent = 0

BodyBuilt ==
    /\ spent \in 0..MaxSpent
    /\ body = IF stage = "closed" THEN BuildRequestBody(credential, remembered, spent)
                                  ELSE NoBody

CInv ==
    /\ TermsFixed /\ ChallengeBuilt /\ RememberedBuilt
    /\ CredentialAnswers /\ SessionCapped /\ BodyBuilt

\* Challenges are built from what does not change.
LEMMA TermsKept ==
  ASSUME UNCHANGED <<price, destination>>
  PROVE  \A c : (Offers(c) <=> Offers(c)') /\ (Issued(c) <=> Issued(c)')
  BY DEF Offers, Issued, FetchAllSources

LEMMA InvariantInit == Init => CInv
  BY ChallengeAssumption
     DEF ChallengeAssumption, Init, CInv, TermsFixed, ChallengeBuilt, RememberedBuilt,
         CredentialAnswers, SessionCapped, BodyBuilt, Destinations, Opened

LEMMA InvariantNext == CInv /\ [Next]_vars => CInv'
  <1> SUFFICES ASSUME CInv, [Next]_vars PROVE CInv'
    OBVIOUS
  <1> USE ChallengeAssumption DEF CInv, TermsFixed, Terms
  <1>1. CASE Issue
    <2>1. PICK answered \in BOOLEAN, support \in Supports :
              /\ challenge' = OmniChallenge(FetchAllSources(answered), price, support)
              /\ remembered' = challenge'.x402
      BY <1>1 DEF Issue
    <2>2. Issued(challenge') /\ Offers(remembered')
      BY <2>1, IssuedParts DEF Issued
    <2>3. ChallengeBuilt' /\ RememberedBuilt'
      BY <1>1, <2>2, TermsKept DEF Issue, ChallengeBuilt, RememberedBuilt
    <2>4. CredentialAnswers' /\ SessionCapped' /\ BodyBuilt' /\ TermsFixed'
      BY <1>1 DEF Issue, CredentialAnswers, SessionCapped, BodyBuilt, Opened
    <2> QED
      BY <2>3, <2>4
  <1>2. CASE PayByAccount \/ PayBySigner
    <2>1. Issued(challenge) /\ stage = "challenged"
      BY <1>2 DEF PayByAccount, PayBySigner, Pay, ChallengeBuilt
    <2>2. credential' \in AccountsAnswers(challenge)
      BY <1>2, <2>1, IssuedParts, SignerIsAnAccount DEF PayByAccount, PayBySigner, Pay
    <2>3. UNCHANGED <<price, destination, challenge, remembered, cap, spent, body>>
          /\ stage' = "paid"
      BY <1>2 DEF PayByAccount, PayBySigner, Pay
    <2>4. ChallengeBuilt' /\ RememberedBuilt'
      BY <2>1, <2>3, TermsKept DEF ChallengeBuilt, RememberedBuilt
    <2>5. CredentialAnswers'
      BY <2>2, <2>3 DEF CredentialAnswers, AccountsAnswers, AuthorizeAmount
    <2>6. SessionCapped' /\ BodyBuilt' /\ TermsFixed'
      BY <2>1, <2>3 DEF SessionCapped, BodyBuilt, Opened
    <2> QED
      BY <2>4, <2>5, <2>6
  <1>3. CASE Reissue \/ Forget
    <2>1. remembered' = {} \/ Offers(remembered')
      BY <1>3, IssuedParts DEF Reissue, Forget, Issued
    <2>2. UNCHANGED <<stage, price, destination, challenge, credential, cap, spent, body>>
          /\ stage = "paid"
      BY <1>3 DEF Reissue, Forget
    <2>3. ChallengeBuilt' /\ RememberedBuilt'
      BY <2>1, <2>2, TermsKept DEF ChallengeBuilt, RememberedBuilt
    <2>4. CredentialAnswers'
      BY <2>2 DEF CredentialAnswers
    <2>5. SessionCapped' /\ BodyBuilt' /\ TermsFixed'
      BY <2>2 DEF SessionCapped, BodyBuilt, Opened
    <2> QED
      BY <2>3, <2>4, <2>5
  <1>4. CASE OpenPaymentSession
    <2>1. /\ stage = "paid" /\ stage' = "open"
          /\ cap' = DeriveSessionCap(credential, remembered)
          /\ UNCHANGED <<price, destination, challenge, remembered, credential, spent, body>>
      BY <1>4 DEF OpenPaymentSession
    <2>2. ChallengeBuilt' /\ RememberedBuilt' /\ CredentialAnswers'
      BY <2>1, TermsKept DEF ChallengeBuilt, RememberedBuilt, CredentialAnswers
    <2>3. cap' \in Nat \cup {Unlimited}
      BY <2>1, CapsAnAmount DEF ChallengeBuilt, RememberedBuilt, CredentialAnswers
    <2>4. SessionCapped'
      BY <2>1, <2>3 DEF SessionCapped, Opened
    <2>5. BodyBuilt' /\ TermsFixed'
      BY <2>1 DEF BodyBuilt
    <2> QED
      BY <2>2, <2>4, <2>5
  <1>5. CASE CloseSession
    <2>1. /\ stage = "open" /\ stage' = "closed"
          /\ body' = BuildRequestBody(credential, remembered, spent)
          /\ UNCHANGED <<price, destination, challenge, remembered, credential, cap, spent>>
      BY <1>5 DEF CloseSession
    <2>2. ChallengeBuilt' /\ RememberedBuilt' /\ CredentialAnswers'
      BY <2>1, TermsKept DEF ChallengeBuilt, RememberedBuilt, CredentialAnswers
    <2>3. SessionCapped' /\ BodyBuilt' /\ TermsFixed'
      BY <2>1 DEF SessionCapped, Opened, BodyBuilt
    <2> QED
      BY <2>2, <2>3
  <1>6. ASSUME NEW cost \in Costs, Charge(cost) PROVE CInv'
    <2>1. /\ stage = "open"
          /\ cap = Unlimited \/ spent + cost <= cap
          /\ spent + cost <= MaxSpent /\ spent' = spent + cost
          /\ UNCHANGED <<stage, price, destination, challenge, remembered, credential,
                         cap, body>>
      BY <1>6 DEF Charge
    <2>2. ChallengeBuilt' /\ RememberedBuilt' /\ CredentialAnswers'
      BY <2>1, TermsKept DEF ChallengeBuilt, RememberedBuilt, CredentialAnswers
    <2>3. SessionCapped'
      BY <2>1 DEF SessionCapped, Opened
    <2>4. cost \in Nat /\ MaxSpent \in Nat
      BY DEF ChallengeAssumption
    <2>5. spent' \in 0..MaxSpent
      BY <2>1, <2>4 DEF BodyBuilt
    <2>6. BodyBuilt' /\ TermsFixed'
      BY <2>1, <2>5 DEF BodyBuilt
    <2> QED
      BY <2>2, <2>3, <2>6
  <1>7. CASE UNCHANGED vars
    <2>1. UNCHANGED <<stage, price, destination, challenge, remembered, credential,
                      cap, spent, body>>
      BY <1>7 DEF vars
    <2>2. ChallengeBuilt' /\ RememberedBuilt' /\ CredentialAnswers'
      BY <2>1, TermsKept DEF ChallengeBuilt, RememberedBuilt, CredentialAnswers
    <2>3. SessionCapped' /\ BodyBuilt' /\ TermsFixed'
      BY <2>1 DEF SessionCapped, Opened, BodyBuilt
    <2> QED
      BY <2>2, <2>3
  <1> QED
    BY <1>1, <1>2, <1>3, <1>4, <1>5, <1>6, <1>7 DEF Next

\* Every challenge of the caller is for the same price and sources, and the session
\* is capped and settled by what it opened with.
THEOREM Invariant == Spec => []CInv
  BY InvariantInit, InvariantNext, PTL DEF Spec
-------------------------------------------------------------------------------
(***************************************************************************)
(* What the body of a settlement asks for.                                 *)
(***************************************************************************)

\* The state of a session that is open or closed.
LEMMA OpenedState ==
  ASSUME CInv, Opened
  PROVE  /\ Terms /\ Issued(challenge) /\ credential \in AccountsAnswers(challenge)
         /\ remembered = {} \/ Offers(remembered)
         /\ cap = DeriveSessionCap(credential, remembered)
         /\ cap = Unlimited \/ spent <= cap
         /\ spent \in Nat /\ MaxSpent \in Nat /\ spent # Blank
  BY ChallengeAssumption
     DEF CInv, Terms, TermsFixed, ChallengeBuilt, RememberedBuilt, CredentialAnswers,
         SessionCapped, BodyBuilt, Opened, Blank, ChallengeAssumption

\* An x402 credential is capped by the price, or settled for no requirement.
LEMMA X402Session ==
  ASSUME CInv, Opened, credential.protocol = "x402"
  PROVE  IF remembered = {} THEN SelectX402Accept(credential, remembered) = NoAccept
         ELSE /\ cap = price /\ spent <= price
              /\ \E e \in remembered : SelectX402Accept(credential, remembered) = e.accept
  <1>1. CASE remembered = {}
    BY <1>1 DEF SelectX402Accept
  <1>2. CASE remembered # {}
    <2>1. cap = price
      BY <1>2, OpenedState, CapsAnAmount
    <2>2. spent <= price
      BY <2>1, OpenedState, PriceReadsBack DEF Unlimited
    <2>3. \E e \in remembered : SelectX402Accept(credential, remembered) = e.accept
      BY <1>2, OpenedState, AnswerKinds, SelectsOffer
    <2> QED
      BY <1>2, <2>1, <2>2, <2>3
  <1> QED
    BY <1>1, <1>2

\* An x402 override is what was charged, and only an upto requirement has one.
LEMMA X402Override ==
  ASSUME CInv, Opened, credential.protocol = "x402",
         NEW requirement, requirement = SelectX402Accept(credential, remembered)
  PROVE  Override(credential, requirement, spent) =
             IF requirement.scheme = "upto" THEN MicroString(spent) ELSE Blank
  <1>1. CASE requirement.scheme # "upto"
    BY <1>1 DEF Override
  <1>2. CASE requirement.scheme = "upto"
    <2>1. remembered # {}
      BY <1>2, X402Session DEF NoAccept
    <2>2. PICK e \in remembered : requirement = e.accept
      BY <2>1, X402Session
    <2>3. AmountFromMicroString(requirement.amount) = price
      BY <2>1, <2>2, OpenedState, OfferTerms, PriceReadsBack
    <2>4. Override(credential, requirement, spent) =
              MicroString(IF spent > price THEN price ELSE spent)
      BY <1>2, <2>3 DEF Override
    <2>5. ~(spent > price)
      BY <2>1, X402Session, OpenedState, PriceReadsBack
    <2> QED
      BY <1>2, <2>4, <2>5
  <1> QED
    BY <1>1, <1>2

\* The body is built from the credential and what is remembered.
LEMMA ClosedBody ==
  ASSUME CInv, stage = "closed"
  PROVE  /\ Opened
         /\ body.requirement = IF credential.protocol = "x402"
                               THEN SelectX402Accept(credential, remembered) ELSE NoAccept
         /\ body.amount = Override(credential, body.requirement, spent)
  BY DEF CInv, BodyBuilt, BuildRequestBody, Opened

\* The accept a signature names is the one it is settled with.
LEMMA SettlesSigned == CInv => SettlesWhatWasSigned
  <1> SUFFICES ASSUME CInv, stage = "closed", StillOffered
               PROVE  body.requirement = credential.accept
    BY DEF SettlesWhatWasSigned
  <1> DEFINE offer == {e \in remembered : SameOffer(e.accept, credential.accept)}
  <1>1. offer # {} /\ remembered # {} /\ Offers(remembered)
    BY ClosedBody, OpenedState DEF StillOffered
  <1>2. body.requirement = FirstAccept(offer)
    <2>1. credential.protocol = "x402" /\ credential.named = "offer"
      BY DEF StillOffered
    <2> QED
      BY <1>1, <2>1, ClosedBody DEF SelectX402Accept
  <1>3. \A e \in offer : e.place \in Nat
    BY <1>1, ClosedBody, OpenedState, OfferTerms
  <1>4. PICK e \in offer : body.requirement = e.accept
    <2> HIDE DEF offer
    <2> QED
      BY <1>1, <1>2, <1>3, FirstAcceptIn
  <1>5. PICK f \in challenge.x402 : credential.accept = f.accept
    BY ClosedBody, OpenedState, AnswerKinds DEF StillOffered
  <1>6. Offers(challenge.x402)
    BY ClosedBody, OpenedState, IssuedParts
  <1>7. PICK first \in BOOLEAN, one \in Supports :
            remembered = BuildX402Requirements(FetchAllSources(first), price, one.upto)
    BY <1>1 DEF Offers
  <1>8. PICK second \in BOOLEAN, two \in Supports :
            challenge.x402 = BuildX402Requirements(FetchAllSources(second), price, two.upto)
    BY <1>6 DEF Offers
  <1>9. SameOffer(e.accept, f.accept)
    BY <1>4, <1>5
  <1>10. e \in remembered
    BY <1>4
  <1>11. destination \in Destinations
    BY DEF CInv, TermsFixed
  <1> HIDE DEF offer
  <1>12. e.accept = f.accept
    BY <1>7, <1>8, <1>9, <1>10, <1>11, SameAccept, ChallengeAssumption
  <1> QED
    BY <1>4, <1>5, <1>12

\* An override is an amount or left out.
LEMMA OverrideOK ==
  ASSUME CInv, stage = "closed"
  PROVE  body.amount \in Nat \cup {Blank}
  <1>1. MicroString(spent) \in Nat /\ spent \in Nat
    BY ClosedBody, OpenedState, ReadsBack, ChallengeAssumption
  <1>2. CASE credential.protocol = "x402"
    <2>1. body.amount = IF body.requirement.scheme = "upto" THEN MicroString(spent)
                                                            ELSE Blank
      BY <1>2, ClosedBody, X402Override
    <2> QED
      BY <1>1, <2>1
  <1>3. CASE credential.protocol \in {"atxp", "mpp"}
    BY <1>1, <1>3, ClosedBody DEF Override, Decimal
  <1> QED
    BY <1>2, <1>3, ClosedBody, OpenedState, AnswerKinds

\* A closed session collects what was charged or what was signed.
LEMMA CollectsSpent == CInv => CollectsWhatWasSpent
  <1> SUFFICES ASSUME CInv, stage = "closed" PROVE CollectsWhatWasSpent
    BY DEF CollectsWhatWasSpent
  <1>1. spent \in Nat /\ spent # Blank
    BY ClosedBody, OpenedState
  <1>2. /\ AmountFromMicroString(MicroString(spent)) = spent
        /\ MicroString(spent) \in Nat /\ MicroString(spent) # Blank
    BY <1>1, ReadsBack, ChallengeAssumption DEF Blank
  <1>3. CASE credential.protocol = "atxp"
    <2>1. body.amount = IF credential.listed /\ credential.raw THEN spent ELSE Blank
      BY <1>3, ClosedBody DEF Override, Decimal
    <2>2. Metered <=> credential.listed /\ credential.raw
      BY <1>3 DEF Metered, StillOffered, IsMppSessionCredential
    <2>3. ~StillOffered
      BY <1>3 DEF StillOffered
    <2> QED
      BY <1>1, <1>3, <2>1, <2>2, <2>3 DEF CollectsWhatWasSpent, Asked, ParseAmount
  <1>4. CASE credential.protocol = "mpp"
    <2>1. body.amount = IF IsMppSessionCredential(credential) THEN MicroString(spent)
                                                              ELSE Blank
      BY <1>4, ClosedBody DEF Override
    <2>2. Metered <=> IsMppSessionCredential(credential)
      BY <1>4 DEF Metered, StillOffered
    <2>3. ~StillOffered
      BY <1>4 DEF StillOffered
    <2> QED
      BY <1>2, <1>4, <2>1, <2>2, <2>3 DEF CollectsWhatWasSpent, Asked
  <1>5. CASE credential.protocol = "x402"
    <2>1. body.amount = IF body.requirement.scheme = "upto" THEN MicroString(spent)
                                                            ELSE Blank
      BY <1>5, ClosedBody, X402Override
    <2>2. Metered <=> StillOffered /\ credential.accept.scheme = "upto"
      BY <1>5 DEF Metered, IsMppSessionCredential
    <2>3. StillOffered => body.requirement = credential.accept
      BY SettlesSigned DEF SettlesWhatWasSigned
    <2> QED
      BY <1>2, <1>5, <2>1, <2>2, <2>3 DEF CollectsWhatWasSpent, Asked
  <1> QED
    BY <1>3, <1>4, <1>5, ClosedBody, OpenedState, AnswerKinds

\* The variables keep their types.
LEMMA TypeFromInvariant == CInv => TypeOK
  <1> SUFFICES ASSUME CInv PROVE TypeOK
    OBVIOUS
  <1>1. Terms /\ stage \in {"idle", "challenged", "paid", "open", "closed"}
        /\ price \in Prices /\ spent \in 0..MaxSpent /\ MaxSpent \in Nat
    BY ChallengeAssumption DEF CInv, TermsFixed, Terms, BodyBuilt, ChallengeAssumption
  <1>2. \A e \in challenge.x402 \cup remembered :
            e.accept.scheme \in {"exact", "upto"} /\ e.accept.amount \in Nat
    <2>1. challenge.x402 = {} \/ Offers(challenge.x402)
      BY IssuedParts DEF CInv, ChallengeBuilt, NoChallenge
    <2>2. remembered = {} \/ Offers(remembered)
      BY DEF CInv, RememberedBuilt
    <2> QED
      BY <1>1, <2>1, <2>2, OfferTerms, PriceReadsBack
  <1>3. CASE Opened
    <2>1. credential.protocol \in {"atxp", "x402", "mpp"}
      BY <1>3, OpenedState, AnswerKinds
    <2>2. cap \in Nat \cup {Unlimited} /\ (cap = Unlimited \/ spent <= cap)
      BY <1>3, OpenedState, CapsAnAmount
    <2>3. body.amount \in Nat \cup {Blank}
      BY OverrideOK DEF CInv, BodyBuilt, NoBody
    <2> QED
      BY <1>1, <1>2, <2>1, <2>2, <2>3 DEF TypeOK
  <1>4. CASE ~Opened
    <2>1. stage \in {"idle", "challenged", "paid"} /\ stage # "closed"
      BY <1>1, <1>4 DEF Opened
    <2>2. credential.protocol \in {"none", "atxp", "x402", "mpp"}
      BY <2>1, AnswerKinds DEF CInv, CredentialAnswers
    <2>3. cap = 0 /\ body.amount = Blank
      BY <1>4, <2>1 DEF CInv, SessionCapped, BodyBuilt, NoBody
    <2> QED
      BY <1>1, <1>2, <2>1, <2>2, <2>3 DEF TypeOK
  <1> QED
    BY <1>3, <1>4

\* The primary account's exact accept is the first of every list, so it is in it.
LEMMA PrimaryOffered ==
  ASSUME Terms, NEW list, Offers(list), PaidOnEVM(destination.primary)
  PROVE  \E e \in list : e.accept = Accept("exact", destination.primary, price)
  <1>1. PICK answered \in BOOLEAN, support \in Supports :
            list = BuildX402Requirements(FetchAllSources(answered), price, support.upto)
    BY DEF Offers
  <1> DEFINE sources == FetchAllSources(answered)
             upto == support.upto
             e == Entry(2, Accept("exact", destination.primary, price))
             all == EVMOffers(sources, price, upto) \cup SVMOffers(sources, price)
  <1>2. /\ sources \in Seq(Source) /\ 1 \in DOMAIN sources
        /\ sources[1] = destination.primary
    BY SourcesOK DEF Terms
  <1>3. e \in all
    <2> HIDE DEF sources
    <2>1. e = Entry(2*1, Accept("exact", sources[1], price))
      BY <1>2
    <2> QED
      BY <1>2, <2>1 DEF EVMOffers, ExactOffers
  <1>4. \A f \in all : 2 <= f.place
    <2> HIDE DEF sources
    <2>1. DOMAIN sources = 1..Len(sources) /\ Len(sources) \in Nat
      BY <1>2
    <2> QED
      BY <2>1 DEF EVMOffers, ExactOffers, UptoOffers, SVMOffers, Entry
  <1>5. e.place = 2
    BY DEF Entry
  <1>6. e \in Dedupe(all)
    <2> HIDE DEF all, e
    <2> QED
      BY <1>3, <1>4, <1>5 DEF Dedupe
  <1> QED
    BY <1>1, <1>6 DEF BuildX402Requirements, Entry

\* The signer's offer.
LEMMA SignerOffered == CInv => SignerFindsOffer
  <1> SUFFICES ASSUME CInv, stage = "challenged" PROVE SignerFindsOffer
    BY DEF SignerFindsOffer
  <1> DEFINE list == challenge.x402
             signed == SelectExactAccept(list)
             primary == destination.primary
             exact == {e \in list : /\ e.accept.scheme = "exact"
                                    /\ e.accept.network \in X402EVM
                                    /\ Pinned \in {AnyNetwork, e.accept.network}}
  <1>1. Terms /\ Offers(list)
    BY ChallengeAssumption, IssuedParts
       DEF CInv, Terms, TermsFixed, ChallengeBuilt
  <1>2. ASSUME PaidOnEVM(primary), Pinned \in {AnyNetwork, primary.chain}
        PROVE  signed # NoAccept
    <2>1. PICK e \in list : e.accept = Accept("exact", primary, price)
      BY <1>1, <1>2, PrimaryOffered
    <2>2. e \in exact
      BY <1>2, <2>1 DEF Accept, PaidOnEVM
    <2>3. exact \subseteq list /\ \A f \in exact : f.place \in Nat
      BY <1>1, OfferTerms
    <2>4. signed = FirstAccept(exact)
      BY <2>2 DEF SelectExactAccept
    <2> HIDE DEF exact
    <2>5. PICK f \in list : signed = f.accept
      BY <2>2, <2>3, <2>4, FirstAcceptIn
    <2>6. signed.scheme \in {"exact", "upto"}
      BY <1>1, <2>5, OfferTerms
    <2> QED
      BY <2>6 DEF NoAccept
  <1>3. ASSUME signed # NoAccept
        PROVE  /\ AmountFromMicroString(signed.amount) = price
               /\ [chain |-> signed.network, address |-> signed.payTo]
                      \in ToSet(FetchAllSources(TRUE))
    <2>1. PICK e \in list : signed = e.accept
      BY <1>1, <1>3, SignsOffer
    <2> HIDE DEF signed, list
    <2>2. /\ e.accept.amount = MicroString(price)
          /\ [chain |-> e.accept.network, address |-> e.accept.payTo]
                 \in ToSet(FetchAllSources(TRUE))
      BY <1>1, OfferTerms
    <2> QED
      BY <1>1, <2>1, <2>2, PriceReadsBack
  <1> QED
    BY <1>2, <1>3 DEF SignerFindsOffer, PaidOnEVM
-------------------------------------------------------------------------------
(***************************************************************************)
(* The theorems.                                                           *)
(***************************************************************************)

\* The stages, amounts, credentials and caps stay what they are said to be, and a
\* session with a cap stays within it.
THEOREM TypeCorrect == Spec => []TypeOK
  BY Invariant, TypeFromInvariant, PTL

\* A settlement for an x402 credential names the requirement that was signed, as
\* long as the merchant remembers a challenge that offers it.
THEOREM SettlesSignedHolds == Spec => []SettlesWhatWasSigned
  BY Invariant, SettlesSigned, PTL

\* A credential whose amount may be lowered is settled for exactly what was
\* charged, one that commits to its amount as it was signed.
THEOREM CollectsSpentHolds == Spec => []CollectsWhatWasSpent
  BY Invariant, CollectsSpent, PTL

\* A challenge of an EVM account on the signer's network has an accept it signs,
\* for the price and to a source of the merchant.
THEOREM SignerOfferedHolds == Spec => []SignerFindsOffer
  BY Invariant, SignerOffered, PTL

\* With a chargeAmount in the challenge, as this repository's merchant sends it,
\* every credential caps its session at the price that was asked.
THEOREM CapIsPriceHolds ==
  ASSUME OmitsChargeAmount = FALSE
  PROVE  Spec => []CapIsPrice
  <1>1. CInv => CapIsPrice
    <2> SUFFICES ASSUME CInv, Opened
                 PROVE  cap = IF credential.protocol = "x402" /\ remembered = {}
                              THEN Unlimited ELSE price
      BY DEF CapIsPrice
    <2> QED
      BY OpenedState, CapsAnAmount
  <1> QED
    BY <1>1, Invariant, PTL

\* Without it the other two protocols still do: only an ATXP credential may be
\* made for an amount in another unit.
THEOREM OtherRailsCapped ==
  Spec => [](credential.protocol # "atxp" => CapIsPrice)
  <1>1. CInv => (credential.protocol # "atxp" => CapIsPrice)
    <2> SUFFICES ASSUME CInv, Opened, credential.protocol # "atxp"
                 PROVE  cap = IF credential.protocol = "x402" /\ remembered = {}
                              THEN Unlimited ELSE price
      BY DEF CapIsPrice
    <2>1. credential.protocol \in {"x402", "mpp"}
      BY OpenedState, AnswerKinds
    <2> QED
      BY <2>1, OpenedState, CapsAnAmount
  <1> QED
    BY <1>1, Invariant, PTL

\* What an account is asked to authorize reads as the price, if the challenge has
\* a chargeAmount.
THEOREM AuthorizesPrice ==
  ASSUME OmitsChargeAmount = FALSE
  PROVE  Spec => []AmountIsDecimal
  <1>1. CInv => AmountIsDecimal
    <2> SUFFICES ASSUME CInv, stage = "challenged"
                 PROVE  ParseAmount(AuthorizeAmount(challenge)) = price
      BY DEF AmountIsDecimal
    <2>1. Terms /\ Issued(challenge)
      BY ChallengeAssumption DEF CInv, Terms, TermsFixed, ChallengeBuilt
    <2> QED
      BY <2>1, AuthorizesAmount DEF ParseAmount
  <1> QED
    BY <1>1, Invariant, PTL
===============================================================================
