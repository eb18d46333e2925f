------------------------------ MODULE MerchantGate ------------------------------
(***************************************************************************)
(* server/requirepayment.go as examples/paidmcp/main.go runs it: the HTTP  *)
(* gate in front of a paid handler.  A trip is one call of an              *)
(* authenticated client.  A request without a credential is charged on     *)
(* demand or challenged, and once the client paid it is followed by one    *)
(* with a credential.  That opens a payment session (PaymentSession), is   *)
(* charged to it, settled and then served.  A first request may carry a    *)
(* credential too, one an earlier call has left on it (transport.go) or    *)
(* that is presented again: trips may share a credential.  The example     *)
(* remembers the last challenge of each user, which a retry refers to.     *)
(*                                                                         *)
(* A step is one call to the authorization server, one critical section of *)
(* challengeMu, or a step of the session.                                  *)
(***************************************************************************)
EXTENDS PaymentSession, Sequences, FiniteSets

CONSTANTS
    Users,         \* the accounts of the clients
    UserOf,        \* the account a trip is authenticated as
    Price,         \* PaymentRequest.Price
    Minimum,       \* Config.MinimumPayment, 0 for none
    MaxRestarts    \* bound on the merchant's restarts

\* Variant: the minimum is not applied.
BarePrice == Price

\* paymentAmount: "charge at least the configured floor".
PaymentAmount == IF Minimum > Price THEN Minimum ELSE Price

\* Each trip opens a session of its own, which its one handler closes.
\* RequirePayment refuses a price of nothing.
ASSUME GateAssumption ==
    /\ IsFiniteSet(Sessions)
    /\ Closers = Sessions /\ SessionOf = [t \in Sessions |-> t]
    /\ LateCharges = FALSE
    /\ UserOf \in [Sessions -> Users]
    /\ Price \in Nat /\ Minimum \in Nat /\ Price + Minimum > 0
    /\ PaymentAmount \in Costs
    /\ MaxRestarts \in Nat

None == 0   \* no payment request

VARIABLES
    at,         \* where the trip is, in the client or in the gate
    pays,       \* its request carries a credential
    asked,      \* the payment request it was challenged for
    named,      \* SettlementContext.PaymentRequestID of its session
    last,       \* lastPaymentID, with lastChallenge
    owner,      \* the payment requests the server has created, their users
    charged,    \* the server settled an on-demand charge for the trip
    outcome,    \* what the client got, "none" until then
    restarts

visit == <<at, outcome>>
book == <<asked, named, last, owner>>
gate == <<visit, pays, book, charged, restarts>>
gateVars == <<vars, gate>>

\* The bearer check in front of the gate keeps MPP credentials out: they take
\* the header of the token.
GateInit ==
    /\ Init
    /\ \A k \in Creds : terms[k].kind # "channel"
    /\ at = [t \in Sessions |-> "idle"]
    /\ pays = [t \in Sessions |-> FALSE]
    /\ asked = [t \in Sessions |-> None]
    /\ named = [t \in Sessions |-> None]
    /\ last = [u \in Users |-> None]
    /\ owner = <<>>
    /\ charged = [t \in Sessions |-> FALSE]
    /\ outcome = [t \in Sessions |-> "none"]
    /\ restarts = 0

Goto(t, from, to) ==
    /\ at[t] = from
    /\ at' = [at EXCEPT ![t] = to]
    /\ UNCHANGED outcome

Answer(t, from, response) ==
    /\ at[t] = from
    /\ at' = [at EXCEPT ![t] = "returned"]
    /\ outcome' = [outcome EXCEPT ![t] = response]
-------------------------------------------------------------------------------
(***************************************************************************)
(* The client (transport.go): it pays a first challenge, not a second.     *)
(***************************************************************************)
Present(t, from) ==
    /\ Goto(t, from, "retry")
    /\ pays' = [pays EXCEPT ![t] = TRUE]
    /\ UNCHANGED <<vars, book, charged, restarts>>

\* A first request, without a credential or with one that is there already.
Request(t) ==
    \/ /\ Goto(t, "idle", "require")
       /\ UNCHANGED <<vars, pays, book, charged, restarts>>
    \/ Present(t, "idle")

\* The account authorizes a payment: a credential nobody has presented.
Pay(t) ==
    /\ \A r \in Sessions : CredOf[r] = CredOf[t] => ~pays[r]
    /\ Present(t, "challenged")

GiveUp(t) ==
    /\ Answer(t, "challenged", "unpaid")
    /\ UNCHANGED <<vars, pays, book, charged, restarts>>
-------------------------------------------------------------------------------
(***************************************************************************)
(* The gate: the session of a detected credential.                         *)
(***************************************************************************)
\* For x402 the cap is the price in the challenge that is remembered, if one is and
\* lists a requirement; for ATXP it is whatever the credential claims.
OpenSession(t) ==
    /\ Goto(t, "retry", "require")
    /\ \E limit \in Caps, tells \in BOOLEAN :
          /\ terms[CredOf[t]].kind = "fixed" =>
                limit = Unlimited \/ (limit = PaymentAmount /\ last[UserOf[t]] # None)
          /\ Open(t, limit, tells)
    /\ named' = [named EXCEPT ![t] = last[UserOf[t]]]
    /\ UNCHANGED <<pays, asked, last, owner, charged, restarts>>

(***************************************************************************)
(* RequirePayment.                                                         *)
(***************************************************************************)
\* The destination's account id is not resolved.  (It is cached once it is, but a
\* lookup that had begun may still fail.)
DestinationFails(t) ==
    /\ Answer(t, "require", "error")
    /\ UNCHANGED <<vars, pays, book, charged, restarts>>

ChargeSession(t) ==
    /\ pays[t] /\ Charge(t, PaymentAmount)
    /\ Goto(t, "require", "authorized")
    /\ UNCHANGED <<pays, book, charged, restarts>>

Decline(t) ==
    /\ pays[t] /\ ~WithinCap(t, spent[t] + PaymentAmount)
    /\ Goto(t, "require", "create")
    /\ UNCHANGED <<vars, pays, book, charged, restarts>>

\* Variant: after an error the caller is challenged.
ChargeOnDemandOrChallenge(t) ==
    /\ ~pays[t]
    /\ \/ Goto(t, "require", "authorized") /\ charged' = [charged EXCEPT ![t] = TRUE]
       \/ Goto(t, "require", "create") /\ charged' \in {charged, [charged EXCEPT ![t] = TRUE]}
    /\ UNCHANGED <<vars, pays, book, restarts>>

\* POST /charge: 200 or 202, 402, and any other outcome, an answer that is lost
\* included.
ChargeOnDemand(t) ==
    /\ ~pays[t]
    /\ \/ Goto(t, "require", "authorized") /\ charged' = [charged EXCEPT ![t] = TRUE]
       \/ Goto(t, "require", "create") /\ UNCHANGED charged
       \/ Answer(t, "require", "error") /\ charged' \in {charged, [charged EXCEPT ![t] = TRUE]}
    /\ UNCHANGED <<vars, pays, book, restarts>>

\* Variant: the challenge names a payment request the server did not record.
CreateUnrecorded(t) ==
    /\ Goto(t, "create", "remember")
    /\ asked' = [asked EXCEPT ![t] = Len(owner) + 1]
    /\ UNCHANGED <<vars, pays, named, last, owner, charged, restarts>>

\* POST /payment-request, and the challenge that names the new payment request.
CreatePaymentRequest(t) ==
    /\ Goto(t, "create", "remember")
    /\ owner' = Append(owner, UserOf[t])
    /\ asked' = [asked EXCEPT ![t] = Len(owner')]
    /\ UNCHANGED <<vars, pays, named, last, charged, restarts>>

CreateFails(t) ==
    /\ Answer(t, "create", "error")
    /\ owner' \in {owner, Append(owner, UserOf[t])}
    /\ UNCHANGED <<vars, pays, asked, named, last, charged, restarts>>
-------------------------------------------------------------------------------
(***************************************************************************)
(* The gate again: the answer.                                             *)
(***************************************************************************)
\* Variant: the last challenge is everybody's.
RememberForAll(t) ==
    /\ last' = [u \in Users |-> asked[t]]
    /\ IF pays[t] THEN Answer(t, "remember", "challenged") ELSE Goto(t, "remember", "challenged")
    /\ UNCHANGED <<vars, pays, asked, named, owner, charged, restarts>>

Remember(t) ==
    /\ last' = [last EXCEPT ![UserOf[t]] = asked[t]]
    /\ IF pays[t] THEN Answer(t, "remember", "challenged") ELSE Goto(t, "remember", "challenged")
    /\ UNCHANGED <<vars, pays, asked, named, owner, charged, restarts>>

\* Variant: CloseSession's error is logged only.
ServeAfterClose(t) ==
    /\ pays[t] => pc[t] = "done"
    /\ Answer(t, "authorized", "served")
    /\ UNCHANGED <<vars, pays, book, charged, restarts>>

Serve(t) ==
    /\ pays[t] => pc[t] = "done" /\ ret[t] \notin Failures
    /\ Answer(t, "authorized", "served")
    /\ UNCHANGED <<vars, pays, book, charged, restarts>>

SettlementFailed(t) ==
    /\ pays[t] /\ pc[t] = "done" /\ ret[t] \in Failures
    /\ Answer(t, "authorized", "unsettled")
    /\ UNCHANGED <<vars, pays, book, charged, restarts>>

\* The session was charged and this is its only close: CloseNoop does not apply.
\* RequirePayment has cached the destination's account id: nor does LookupFails.
CloseSession(t) ==
    /\ pays[t] /\ at[t] = "authorized"
    /\ \/ CloseBegin(t) \/ PostSettle(t)
       \/ SettleFails(t) \/ SettleAnswered(t)
    /\ UNCHANGED gate

\* Requests that have left are answered whether or not their caller is there.
AuthorizationServer(t) == (ASSettles(t) \/ ASRefuses(t)) /\ UNCHANGED gate

\* The merchant restarts: the requests it holds fail, and it forgets the
\* challenges.  (The session variables of those requests stay, as history.)
InGate == {"require", "create", "remember", "authorized"}

Restart ==
    /\ restarts < MaxRestarts
    /\ restarts' = restarts + 1
    /\ last' = [u \in Users |-> None]
    /\ at' = [t \in Sessions |-> IF at[t] \in InGate THEN "returned" ELSE at[t]]
    /\ outcome' = [t \in Sessions |-> IF at[t] \in InGate THEN "error" ELSE outcome[t]]
    /\ UNCHANGED <<vars, pays, asked, named, owner, charged>>
-------------------------------------------------------------------------------
Visit(t) ==
    \/ Request(t) \/ Pay(t) \/ GiveUp(t) \/ OpenSession(t)
    \/ DestinationFails(t) \/ ChargeSession(t) \/ Decline(t) \/ ChargeOnDemand(t)
    \/ CreatePaymentRequest(t) \/ CreateFails(t) \/ Remember(t)
    \/ Serve(t) \/ SettlementFailed(t)
    \/ CloseSession(t) \/ AuthorizationServer(t)

GateNext == Restart \/ \E t \in Sessions : Visit(t)

GateSpec == GateInit /\ [][GateNext]_gateVars
-------------------------------------------------------------------------------
(***************************************************************************)
(* Correctness.                                                            *)
(***************************************************************************)

\* Every variable of the gate holds what its field or its step can hold.
GateTypeOK ==
    /\ at \in [Sessions -> {"idle", "challenged", "retry", "returned"} \cup InGate]
    /\ pays \in [Sessions -> BOOLEAN]
    /\ owner \in Seq(Users)
    /\ asked \in [Sessions -> 0..Len(owner)]
    /\ named \in [Sessions -> 0..Len(owner)]
    /\ last \in [Users -> 0..Len(owner)]
    /\ charged \in [Sessions -> BOOLEAN]
    /\ outcome \in [Sessions ->
          {"none", "served", "challenged", "unpaid", "unsettled", "error"}]
    /\ restarts \in 0..MaxRestarts

\* The gate fails closed: the handler runs for a trip only if the authorization
\* server settled its on-demand charge, or collected from its credential at
\* least the price and at least the merchant's minimum, whatever was lost or
\* restarted on the way.
ServedIsPaid ==
    \A t \in Sessions : outcome[t] = "served" =>
        \/ /\ charged[t] /\ ~pays[t]
        \/ /\ moved[CredOf[t]]
           /\ Price <= collected[CredOf[t]] /\ Minimum <= collected[CredOf[t]]

\* A trip never pays twice, on demand and by its credential, and one that is turned
\* away with a challenge has done neither: an errored charge ends it, for it may
\* have settled, and its credential is settled only after its charge fitted.
NotPaidTwice ==
    \A t \in Sessions :
        /\ ~(charged[t] /\ wire[t] # "none")
        /\ outcome[t] \in {"challenged", "unpaid"} => ~charged[t] /\ wire[t] = "none"

\* A credential is settled for exactly the price of one call, the minimum if that is
\* more, or for all that was signed if that is less: what the session is charged, what
\* its close copied and what the server moved are one, whatever became of the trip
\* meanwhile.  Only where a settlement could not say the amount (an exact payment, a
\* challenge that was forgotten, options that could not be read) all that was signed
\* may be taken.
CollectsThePrice ==
    \A k \in Creds : moved[k] =>
        LET signed == terms[k].signed
            due == IF Price < Minimum THEN Minimum ELSE Price
            price == IF signed < due THEN signed ELSE due
        IN  /\ collected[k] \in {price, signed}
            /\ (\A t \in Sessions : CredOf[t] = k /\ cap[t] # Unopened => says[t])
                  => collected[k] = price

\* The payment request a trip is challenged for, and the one its settlement
\* names, were created for the user it is authenticated as.
NamesOwnUser ==
    \A t \in Sessions :
        /\ asked[t] # None => owner[asked[t]] = UserOf[t]
        /\ named[t] # None => owner[named[t]] = UserOf[t]

\* A client that signed for what the challenge asks, and whose credential claims no
\* less, is turned away only by a failure: it is neither challenged again nor told
\* it underpaid, whatever other trips do meanwhile, with its own credential too.
HonestTripServed ==
    \A t \in Sessions :
        LET credential == terms[CredOf[t]] IN
        /\ credential.signed >= PaymentAmount
        /\ credential.kind = "fixed" \/ cap[t] \in {Unopened, Unlimited, credential.signed}
        => /\ outcome[t] # "challenged"
           /\ ret[t] = "underpaid" => answer[t] = Unparseable

\* paymentserver.go: "PaymentRequestID ties /settle and the follow-up /charge to
\* one payment."  The example does not ensure it: see the README.
SettlesItsOwnChallenge ==
    \A t \in Sessions :
        wire[t] # "none" /\ named[t] # None => named[t] = asked[t]
-------------------------------------------------------------------------------
(***************************************************************************)
(* A trip is a paid call.                                                  *)
(***************************************************************************)
TakenOf(k) ==
    IF ~moved[k] THEN "nothing" ELSE IF collected[k] < PaymentAmount THEN "short" ELSE "full"

Call == INSTANCE PaidCall WITH
    Calls <- Sessions,
    Payments <- Creds,
    PaymentOf <- CredOf,
    debited <- charged,
    asked <- [t \in Sessions |-> wire[t] # "none"],
    taken <- [k \in Creds |-> TakenOf(k)],
    told <- outcome

\* Through every call, loss, late settlement and restart a trip goes only from
\* unpaid to paid, by one means, and a credential is taken once, whoever presents
\* it; a trip is served only when paid in full and turned away only before it paid,
\* and what it was told decides what may still be taken for it.
TripIsPaidCall == Call!Spec
===============================================================================
