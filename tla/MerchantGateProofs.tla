--------------------------- MODULE MerchantGateProofs ---------------------------
(***************************************************************************)
(* Proofs about MerchantGate.  The gate drives its sessions only by steps  *)
(* PaymentSession allows, so what is proved of sessions holds of the gate. *)
(***************************************************************************)
EXTENDS MerchantGate, PaymentSessionLedgerProofs, PromiseProofs

USE DEF opened

\* A step of the gate is a step of its sessions or leaves them alone.
LEMMA GateStepsSessions ==
    ASSUME GateAssumption, [GateNext]_gateVars
    PROVE  [Next]_vars
  <1> USE GateAssumption DEF GateAssumption
  <1>1. ASSUME NEW t \in Sessions, ChargeSession(t)
        PROVE  Next
    BY <1>1 DEF ChargeSession, Next
  <1>2. ASSUME NEW t \in Sessions, CloseSession(t)
        PROVE  Next
    BY <1>2 DEF CloseSession, Next
  <1>3. ASSUME NEW t \in Sessions, AuthorizationServer(t)
        PROVE  Next
    BY <1>3 DEF AuthorizationServer, Next
  <1>6. ASSUME NEW t \in Sessions, OpenSession(t)
        PROVE  Next
    BY <1>6 DEF OpenSession, Next
  <1>4. ASSUME NEW t \in Sessions,
               \/ Request(t) \/ Pay(t) \/ GiveUp(t)
               \/ DestinationFails(t) \/ Decline(t) \/ ChargeOnDemand(t)
               \/ CreatePaymentRequest(t) \/ CreateFails(t) \/ Remember(t)
               \/ Serve(t) \/ SettlementFailed(t)
        PROVE  UNCHANGED vars
    BY <1>4 DEF Request, Pay, Present, GiveUp, DestinationFails, Decline,
                ChargeOnDemand, CreatePaymentRequest, CreateFails, Remember, Serve,
                SettlementFailed
  <1>5. Restart => UNCHANGED vars
    BY DEF Restart
  <1> QED
    BY <1>1, <1>2, <1>3, <1>4, <1>5, <1>6 DEF GateNext, Visit, gateVars

\* The gate uses each session as PaymentSession specifies.
THEOREM GateImplementsSessions == GateSpec => Spec
  <1>1. GateInit => Init
    BY DEF GateInit
  <1>2. [GateNext]_gateVars => [Next]_vars
    BY GateAssumption, GateStepsSessions
  <1> QED
    BY <1>1, <1>2, PTL DEF GateSpec, Spec

\* So behind the gate a session is settled by one attempt at a time and a one-shot
\* credential is asked for once; nothing charged is lost without an error, and a
\* payer who signed for the cap is not told it underpaid.
THEOREM SessionsBehindGate ==
    GateSpec => /\ [](OneAttempt /\ OneShotAskedOnce /\ SettledCoversCharges)
                /\ [](NoSilentLoss /\ HonestPayerNotShort /\ CollectsNoMoreThanCharged)
                /\ SettledIsFinal /\ KeepsPromise
  BY GateImplementsSessions, OneAttemptHolds, OneShotAskedOnceHolds,
     SettledCoversChargesHolds, NoSilentLossHolds, HonestPayerNotShortHolds,
     CollectsNoMoreThanChargedHolds, SettledIsFinalHolds, KeepsPromiseHolds, PTL
-------------------------------------------------------------------------------
(***************************************************************************)
(* Types.                                                                  *)
(***************************************************************************)
\* A new payment request keeps the numbers of the ones before it
\* (CreatePaymentRequest).
LEMMA AppendOwner ==
    ASSUME NEW o \in Seq(Users), NEW u \in Users
    PROVE  /\ Append(o, u) \in Seq(Users)
           /\ Len(Append(o, u)) = Len(o) + 1 /\ Len(o) \in Nat
           /\ 0..Len(o) \subseteq 0..Len(Append(o, u))
  OBVIOUS

\* Each step of the gate keeps the type of every variable (paymentGate and
\* RequirePayment).
LEMMA GateTypeStep ==
    ASSUME GateAssumption, GateTypeOK, [GateNext]_gateVars
    PROVE  GateTypeOK'
  <1> USE GateAssumption DEF GateAssumption, GateTypeOK, InGate
  <1>1. ASSUME NEW t \in Sessions, Request(t) \/ Pay(t) \/ GiveUp(t) \/ OpenSession(t)
        PROVE  GateTypeOK'
    <2>1. CASE Request(t)
      BY <2>1 DEF Request, Present, Goto, book
    <2>2. CASE Pay(t)
      BY <2>2 DEF Pay, Present, Goto, book
    <2>3. CASE GiveUp(t)
      BY <2>3 DEF GiveUp, Answer, book
    <2>4. CASE OpenSession(t)
      BY <2>4 DEF OpenSession, Goto
    <2> QED
      BY <1>1, <2>1, <2>2, <2>3, <2>4
  <1>2. ASSUME NEW t \in Sessions,
               DestinationFails(t) \/ ChargeSession(t) \/ Decline(t) \/ ChargeOnDemand(t)
        PROVE  GateTypeOK'
    BY <1>2 DEF DestinationFails, ChargeSession, Decline, ChargeOnDemand, Goto, Answer, book
  <1>3. ASSUME NEW t \in Sessions, CreatePaymentRequest(t)
        PROVE  GateTypeOK'
    <2>1. /\ owner' \in Seq(Users) /\ Len(owner') = Len(owner) + 1 /\ Len(owner) \in Nat
          /\ 0..Len(owner) \subseteq 0..Len(owner')
      BY <1>3, AppendOwner DEF CreatePaymentRequest
    <2> QED
      BY <1>3, <2>1 DEF CreatePaymentRequest, Goto
  <1>4. ASSUME NEW t \in Sessions, CreateFails(t)
        PROVE  GateTypeOK'
    <2>1. owner' = owner \/ owner' = Append(owner, UserOf[t])
      BY <1>4 DEF CreateFails
    <2>2. UserOf[t] \in Users
      OBVIOUS
    <2>3. CASE owner' = owner
      BY <1>4, <2>3 DEF CreateFails, Answer
    <2>4. CASE owner' = Append(owner, UserOf[t])
      <3>1. owner' \in Seq(Users) /\ 0..Len(owner) \subseteq 0..Len(owner')
        BY <2>2, <2>4, AppendOwner
      <3> QED
        BY <1>4, <3>1 DEF CreateFails, Answer
    <2> QED
      BY <2>1, <2>3, <2>4
  <1>5. ASSUME NEW t \in Sessions, Remember(t)
        PROVE  GateTypeOK'
    <2>1. last' \in [Users -> 0..Len(owner)] /\ UNCHANGED <<pays, asked, named, owner, charged, restarts>>
      <3>1. asked[t] \in 0..Len(owner) /\ last \in [Users -> 0..Len(owner)]
        OBVIOUS
      <3>2. /\ last' = [last EXCEPT ![UserOf[t]] = asked[t]]
            /\ UNCHANGED <<pays, asked, named, owner, charged, restarts>>
        BY <1>5 DEF Remember
      <3>3. \A N : asked[t] \in N /\ last \in [Users -> N] => last' \in [Users -> N]
        BY <3>2
      <3> QED
        BY <3>1, <3>2, <3>3
    <2>2. CASE pays[t]
      <3>1. Answer(t, "remember", "challenged")
        BY <1>5, <2>2 DEF Remember
      <3> QED
        BY <2>1, <3>1 DEF Answer
    <2>3. CASE ~pays[t]
      <3>1. Goto(t, "remember", "challenged")
        BY <1>5, <2>3 DEF Remember
      <3> QED
        BY <2>1, <3>1 DEF Goto
    <2> QED
      BY <2>2, <2>3
  <1>6. ASSUME NEW t \in Sessions, Serve(t) \/ SettlementFailed(t)
        PROVE  GateTypeOK'
    BY <1>6 DEF Serve, SettlementFailed, Answer, book
  <1>7. ASSUME NEW t \in Sessions, CloseSession(t) \/ AuthorizationServer(t)
        PROVE  GateTypeOK'
    BY <1>7 DEF CloseSession, AuthorizationServer, gate, visit, book
  <1>8. ASSUME Restart
        PROVE  GateTypeOK'
    <2>1. Len(owner) \in Nat
      OBVIOUS
    <2> QED
      BY <1>8, <2>1 DEF Restart, None
  <1>9. ASSUME UNCHANGED gateVars
        PROVE  GateTypeOK'
    BY <1>9 DEF gateVars, gate, visit, book
  <1> QED
    BY <1>1, <1>2, <1>3, <1>4, <1>5, <1>6, <1>7, <1>8, <1>9 DEF GateNext, Visit

\* Every variable of the gate holds what its field or its step can hold.
THEOREM GateTypeCorrect == GateSpec => []GateTypeOK
  <1>1. GateInit => GateTypeOK
    BY GateAssumption DEF GateAssumption, GateInit, GateTypeOK, None, InGate
  <1>2. GateTypeOK /\ [GateNext]_gateVars => GateTypeOK'
    BY GateAssumption, GateTypeStep
  <1> QED
    BY <1>1, <1>2, PTL DEF GateSpec
-------------------------------------------------------------------------------
(***************************************************************************)
(* How far a trip is says what was charged and asked for it, and what the  *)
(* cap of its session was.                                                 *)
(***************************************************************************)

\* A session's cap does not admit the charge of one call.
Tight(t) == cap[t] # Unopened /\ ~WithinCap(t, PaymentAmount)

\* Of one trip: it is authorized by an on-demand charge or by the one charge of its
\* session, which is then closed, settled and served; a trip that was turned away
\* has neither; one with a credential is turned away only for its cap; and a close
\* copies that charge and finds it short only by an answer that does not cover it.
TripInv(t) ==
    /\ at[t] = "authorized" \/ outcome[t] = "served" =>
          IF pays[t] THEN spent[t] = PaymentAmount ELSE charged[t]
    /\ outcome[t] # "none" => at[t] = "returned"
    /\ outcome[t] = "served" /\ pays[t] => pc[t] = "done" /\ ret[t] \notin Failures
    /\ pc[t] # "idle" => pays[t] /\ at[t] \in {"authorized", "returned"}
    /\ pc[t] # "idle" => cap[t] # Unopened /\ snap[t] = PaymentAmount
    /\ charged[t] => ~pays[t] /\ at[t] \in {"authorized", "returned"}
    /\ at[t] \in {"idle", "challenged"} => ~pays[t]
    /\ pays[t] /\ at[t] \in InGate => cap[t] # Unopened
    /\ pc[t] = "done" => ret[t] # "none"
    /\ ret[t] # "noop"
    /\ ret[t] = "settled" => wire[t] = "answered"
    /\ ret[t] = "underpaid" => wire[t] = "answered" /\ ~Covers(answer[t], snap[t])
    /\ outcome[t] \in {"challenged", "unpaid"} => pc[t] = "idle" /\ ~charged[t]
    /\ pays[t] /\ at[t] \in {"create", "remember"} => Tight(t)
    /\ outcome[t] = "challenged" => Tight(t)
    /\ terms[CredOf[t]].kind = "fixed" => cap[t] \in {Unopened, Unlimited, PaymentAmount}
    /\ terms[CredOf[t]].kind # "channel"
    /\ at[t] \notin {"authorized", "returned"} => spent[t] = 0
    /\ spent[t] \in {0, PaymentAmount}

TripsInv == \A t \in Sessions : TripInv(t)

GInv == GateTypeOK /\ IInv /\ TripsInv /\ CollectsThePrice

\* The shape of the variables the invariant is about.
Shape ==
    /\ at = [t \in Sessions |-> at[t]] /\ outcome = [t \in Sessions |-> outcome[t]]
    /\ pays \in [Sessions -> BOOLEAN] /\ charged \in [Sessions -> BOOLEAN]
    /\ cap = [t \in Sessions |-> cap[t]] /\ says = [t \in Sessions |-> says[t]]
    /\ spent \in [Sessions -> Nat] /\ snap \in [Sessions -> Nat]
    /\ pc = [t \in Sessions |-> pc[t]] /\ ret = [t \in Sessions |-> ret[t]]
    /\ wire = [t \in Sessions |-> wire[t]] /\ answer = [t \in Sessions |-> answer[t]]
    /\ PaymentAmount \in Nat

\* Well-typed variables are functions on the trips, which the steps update one trip
\* at a time.
LEMMA ShapeOK ==
    ASSUME GateAssumption, SessionAssumption, GateTypeOK, TypeOK
    PROVE  Shape
  <1>1. /\ at = [t \in Sessions |-> at[t]] /\ outcome = [t \in Sessions |-> outcome[t]]
        /\ pays \in [Sessions -> BOOLEAN] /\ charged \in [Sessions -> BOOLEAN]
    BY DEF GateTypeOK
  <1>2. /\ pc = [t \in Sessions |-> pc[t]] /\ ret = [t \in Sessions |-> ret[t]]
        /\ wire = [t \in Sessions |-> wire[t]] /\ answer = [t \in Sessions |-> answer[t]]
    BY DEF GateAssumption, TypeOK
  <1>3. cap = [t \in Sessions |-> cap[t]] /\ says = [t \in Sessions |-> says[t]]
    BY DEF TypeOK
  <1>4. spent \in [Sessions -> Nat] /\ snap \in [Sessions -> Nat]
    BY DEF GateAssumption, TypeOK, Amounts
  <1>5. PaymentAmount \in Nat
    BY DEF GateAssumption, PaymentAmount
  <1> QED
    BY <1>1, <1>2, <1>3, <1>4, <1>5 DEF Shape

\* A step changes nothing TripInv says of a trip.
SameTrip(r) ==
    /\ at'[r] = at[r] /\ outcome'[r] = outcome[r] /\ pays'[r] = pays[r]
    /\ charged'[r] = charged[r] /\ cap'[r] = cap[r] /\ spent'[r] = spent[r]
    /\ pc'[r] = pc[r] /\ ret'[r] = ret[r] /\ snap'[r] = snap[r]
    /\ wire'[r] = wire[r] /\ answer'[r] = answer[r] /\ terms' = terms

\* A trip like that keeps its part of the invariant.
LEMMA SameTripInv ==
    ASSUME NEW r \in Sessions, TripInv(r), SameTrip(r)
    PROVE  TripInv(r)'
  BY DEF TripInv, SameTrip, Tight, WithinCap, Covers, PaymentAmount, Failures, InGate,
         Unlimited, Unopened, Unparseable

\* A step of one trip leaves what the invariant says of another one alone: the two
\* share no more than a credential and what the gate remembers.
LEMMA OtherTrips ==
    ASSUME GateAssumption, SessionAssumption, Shape, NEW t \in Sessions, Visit(t),
           NEW r \in Sessions, r # t
    PROVE  SameTrip(r)
  <1> USE GateAssumption DEF GateAssumption, Shape, SameTrip
  <1>1. CASE Request(t) \/ Pay(t) \/ GiveUp(t)
    BY <1>1 DEF Request, Pay, Present, GiveUp, Goto, Answer, vars, session, closing, network
  <1>2. CASE OpenSession(t)
    BY <1>2 DEF OpenSession, Open, Goto, session, closing, network
  <1>3. CASE DestinationFails(t) \/ Decline(t) \/ ChargeOnDemand(t)
    BY <1>3 DEF DestinationFails, Decline, ChargeOnDemand, Goto, Answer, vars, session,
                closing, network
  <1>4. CASE ChargeSession(t)
    BY <1>4 DEF ChargeSession, Charge, Goto, closing, network
  <1>5. CASE CreatePaymentRequest(t) \/ CreateFails(t) \/ Remember(t)
    BY <1>5 DEF CreatePaymentRequest, CreateFails, Remember, Goto, Answer, vars, session,
                closing, network
  <1>6. CASE Serve(t) \/ SettlementFailed(t)
    BY <1>6 DEF Serve, SettlementFailed, Answer, vars, session, closing, network
  <1>7. CASE CloseSession(t)
    BY <1>7 DEF CloseSession, CloseBegin, PostSettle, SettleFails,
                SettleAnswered, Return, gate, visit, network, session
  <1>8. CASE AuthorizationServer(t)
    BY <1>8 DEF AuthorizationServer, ASSettles, ASRefuses, gate, visit, session, closing
  <1> QED
    BY <1>1, <1>2, <1>3, <1>4, <1>5, <1>6, <1>7, <1>8 DEF Visit

\* A cap that was read is not the one of an unopened session.
LEMMA CapsOpened ==
    ASSUME SessionAssumption, NEW limit \in Caps
    PROVE  limit # Unopened
  <1>1. \A a \in Authorized : a \in Nat
    BY DEF SessionAssumption
  <1>2. limit \in Nat \/ limit = -1
    BY <1>1 DEF Caps, Unlimited
  <1> QED
    BY <1>2 DEF Unopened

\* Steps in the client and in the gate that leave the session alone.
LEMMA GateSideTrip ==
    ASSUME GateAssumption, SessionAssumption, Shape, CallState, NEW t \in Sessions,
           TripInv(t), UNCHANGED vars, Visit(t)
    PROVE  TripInv(t)'
  <1>0. /\ \A x : WithinCap(t, x)' <=> WithinCap(t, x)
        /\ Covers(answer[t], snap[t])' <=> Covers(answer[t], snap[t])
        /\ Tight(t)' <=> Tight(t)
        /\ PaymentAmount' = PaymentAmount
        /\ UNCHANGED <<spent, pc, ret, snap, wire, answer, cap, terms>>
    BY DEF vars, session, closing, network, WithinCap, Covers, Tight, PaymentAmount,
           Unlimited, Unopened, Unparseable
  <1> USE <1>0 DEF TripInv, Shape, InGate, Failures
  <1>1. CASE Request(t) \/ Pay(t) \/ GiveUp(t)
    BY <1>1 DEF Request, Pay, Present, GiveUp, Goto, Answer
  <1>2. CASE DestinationFails(t) \/ CreatePaymentRequest(t) \/ CreateFails(t)
    BY <1>2 DEF DestinationFails, CreatePaymentRequest, CreateFails, Goto, Answer
  <1>3. CASE Decline(t)
    <2>1. spent[t] + PaymentAmount = PaymentAmount
      BY <1>3 DEF Decline, Goto
    <2>2. Tight(t)
      BY <1>3, <2>1 DEF Decline, Goto, Tight
    <2> QED
      BY <1>3, <2>2 DEF Decline, Goto
  <1>4. CASE ChargeOnDemand(t)
    BY <1>4 DEF ChargeOnDemand, Goto, Answer
  <1>5. CASE Remember(t)
    BY <1>5 DEF Remember, Goto, Answer
  <1>6. CASE Serve(t) \/ SettlementFailed(t)
    BY <1>6 DEF Serve, SettlementFailed, Answer
  <1>7. CASE OpenSession(t)
    <2>1. at[t] = "retry" /\ at'[t] = "require" /\ UNCHANGED <<outcome, pays, charged>>
      BY <1>7 DEF OpenSession, Goto
    <2>2. cap[t] = Unopened /\ \E limit \in Caps : cap' = [cap EXCEPT ![t] = limit]
      BY <1>7 DEF OpenSession, Open
    <2>3. cap'[t] # Unopened
      BY <2>2, CapsOpened
    <2> QED
      BY <1>0, <2>2, <2>3
  <1>8. CASE ChargeSession(t)
    BY <1>8 DEF ChargeSession, Charge
  <1>9. CASE CloseSession(t) \/ AuthorizationServer(t)
    BY <1>9 DEF CloseSession, AuthorizationServer, gate, visit
  <1> QED
    BY <1>1, <1>2, <1>3, <1>4, <1>5, <1>6, <1>7, <1>8, <1>9 DEF Visit

\* A trip's own step keeps what the gate's invariant says of it.
LEMMA ThisTrip ==
    ASSUME GateAssumption, SessionAssumption, Shape, CallState, NEW t \in Sessions,
           TripInv(t), Visit(t)
    PROVE  TripInv(t)'
  <1> USE GateAssumption DEF GateAssumption, Shape
  <1>1. CASE UNCHANGED vars
    BY <1>1, GateSideTrip
  <1>2. CASE OpenSession(t)
    <2>1. /\ at[t] = "retry" /\ at'[t] = "require" /\ cap'[t] \in Caps
          /\ UNCHANGED <<terms, outcome, pays, charged, spent, pc, ret, snap, wire, answer>>
      BY <1>2 DEF OpenSession, Open, Goto, session, closing, network
    <2>2. terms[CredOf[t]].kind = "fixed" => cap'[t] \in {Unlimited, PaymentAmount}
      BY <1>2 DEF OpenSession, Open
    <2>3. cap'[t] # Unopened
      BY <2>1, CapsOpened
    <2>4. pc[t] = "idle" /\ outcome[t] = "none" /\ ret[t] # "underpaid" /\ PaymentAmount' = PaymentAmount
      BY <2>1 DEF TripInv, CallState, PaymentAmount
    <2> QED
      BY <2>1, <2>2, <2>3, <2>4 DEF TripInv, Failures, InGate
  <1>3. CASE ChargeSession(t)
    <2>1. /\ UNCHANGED <<terms, cap, pays, charged, pc, ret, snap, wire, answer, outcome>>
          /\ pays[t] /\ at[t] = "require" /\ at'[t] = "authorized"
          /\ spent'[t] = spent[t] + PaymentAmount
      BY <1>3 DEF ChargeSession, Charge, Goto, closing, network
    <2>2. pc[t] = "idle" /\ spent'[t] = PaymentAmount /\ PaymentAmount' = PaymentAmount
      BY <2>1 DEF TripInv, PaymentAmount
    <2>3. outcome[t] = "none" /\ ret[t] # "underpaid" /\ cap[t] # Unopened
      BY <2>1, <2>2 DEF TripInv, CallState, InGate
    <2> QED
      BY <2>1, <2>2, <2>3 DEF TripInv, InGate
  <1>4. CASE CloseSession(t)
    <2>1. /\ UNCHANGED <<at, outcome, pays, charged, terms, cap, spent, answer>>
          /\ at[t] = "authorized" /\ pays[t] /\ PaymentAmount' = PaymentAmount
      <3>1. /\ UNCHANGED <<at, outcome, pays, charged>> /\ at[t] = "authorized" /\ pays[t]
            /\ PaymentAmount' = PaymentAmount
        BY <1>4 DEF CloseSession, gate, visit, PaymentAmount
      <3>2. CASE CloseBegin(t) \/ PostSettle(t)
        BY <3>1, <3>2 DEF CloseBegin, PostSettle, session, network
      <3>3. CASE SettleFails(t) \/ SettleAnswered(t)
        BY <3>1, <3>3 DEF SettleFails, SettleAnswered, network
      <3> QED
        BY <1>4, <3>2, <3>3 DEF CloseSession
    <2>2. spent[t] = PaymentAmount /\ outcome[t] = "none"
      BY <2>1 DEF TripInv
    <2>3. /\ pc'[t] # "idle" /\ ret'[t] # "noop" /\ snap'[t] = PaymentAmount
          /\ pc'[t] = "done" => ret'[t] # "none"
          /\ ret'[t] = "settled" => wire'[t] = "answered"
          /\ ret'[t] = "underpaid" => wire'[t] = "answered" /\ ~Covers(answer[t], snap'[t])
      <3>1. CASE CloseBegin(t)
        BY <2>2, <3>1 DEF CloseBegin, network, CallState, TripInv
      <3>2. CASE PostSettle(t)
        BY <3>2 DEF PostSettle, CallState, TripInv
      <3>3. CASE SettleFails(t)
        BY <3>3 DEF SettleFails, Return, network, Busy, TripInv
      <3>4. CASE SettleAnswered(t)
        <4>1. /\ pc[t] = "posted" /\ wire[t] = "answered" /\ snap' = snap /\ wire' = wire
              /\ ret'[t] = IF Covers(answer[t], snap[t]) THEN "settled" ELSE "underpaid"
              /\ pc'[t] = "done"
          BY <3>4 DEF SettleAnswered, Return, network
        <4> QED
          BY <4>1 DEF TripInv
      <3> QED
        BY <1>4, <3>1, <3>2, <3>3, <3>4 DEF CloseSession
    <2>4. cap[t] # Unopened
      BY <2>1 DEF TripInv, InGate
    <2>5. ret'[t] = "underpaid" => wire'[t] = "answered" /\ ~Covers(answer[t], snap[t])'
      BY <2>1, <2>3 DEF Covers, Unparseable
    <2> QED
      BY <2>1, <2>2, <2>3, <2>4, <2>5 DEF TripInv, InGate
  <1>5. CASE AuthorizationServer(t)
    <2>1. /\ UNCHANGED <<at, outcome, pays, charged, terms, cap, spent, pc, ret, snap>>
          /\ wire[t] = "sent" /\ PaymentAmount' = PaymentAmount
      BY <1>5 DEF AuthorizationServer, ASSettles, ASRefuses, gate, visit, session, closing,
                  PaymentAmount
    <2>2. ret[t] \notin {"settled", "underpaid"} /\ (Tight(t)' <=> Tight(t))
      BY <2>1 DEF TripInv, Tight, WithinCap, Unlimited, Unopened
    <2> QED
      BY <2>1, <2>2 DEF TripInv, InGate, Failures
  <1>6. \/ Request(t) \/ Pay(t) \/ GiveUp(t) \/ DestinationFails(t) \/ Decline(t)
        \/ ChargeOnDemand(t) \/ CreatePaymentRequest(t) \/ CreateFails(t) \/ Remember(t)
        \/ Serve(t) \/ SettlementFailed(t)
        => UNCHANGED vars
    BY DEF Request, Pay, Present, GiveUp, DestinationFails, Decline, ChargeOnDemand,
           CreatePaymentRequest, CreateFails, Remember, Serve, SettlementFailed
  <1> QED
    BY <1>1, <1>2, <1>3, <1>4, <1>5, <1>6 DEF Visit

\* What a credential is settled for: the price of the call, for its session was
\* charged that and its close copied it, or all that was signed.
LEMMA PriceStep ==
    ASSUME GateAssumption, SessionAssumption, GInv, [GateNext]_gateVars
    PROVE  CollectsThePrice'
  <1> USE GateAssumption, SessionAssumption DEF GateAssumption, SessionAssumption
  <1>0. TypeOK /\ CallState /\ TripsInv /\ CollectsThePrice /\ [Next]_vars
    BY GateStepsSessions DEF GInv, IInv
  <1>1. terms' = terms
    BY <1>0, LedgerFrame
  <1>2. \A t \in Sessions : cap[t] # Unopened => cap'[t] = cap[t] /\ says'[t] = says[t]
    BY <1>0, OpenedStays
  <1>3. CASE UNCHANGED <<moved, collected>>
    BY <1>0, <1>1, <1>2, <1>3 DEF CollectsThePrice
  <1>4. ASSUME NEW t \in Sessions, ASSettles(t)
        PROVE  CollectsThePrice'
    <2> DEFINE k == CredOf[t]
               signed == terms[k].signed
               price == IF signed < PaymentAmount THEN signed ELSE PaymentAmount
    <2>1. /\ wire[t] = "sent" /\ cap' = cap /\ says' = says /\ k \in Creds
          /\ moved' = [moved EXCEPT ![k] = TRUE]
          /\ collected' = [collected EXCEPT ![k] =
                               IF moved[k] THEN @ ELSE Moves(t, snap[t])]
      BY <1>4 DEF ASSettles
    <2>2. snap[t] = PaymentAmount /\ cap[t] # Unopened
      BY <1>0, <2>1 DEF CallState, TripsInv, TripInv
    <2>3. signed \in Nat /\ PaymentAmount \in Nat
      BY <1>0, TermsAmounts DEF Amounts, PaymentAmount
    <2>4. Moves(t, snap[t]) \in {price, signed} /\ (says[t] => Moves(t, snap[t]) = price)
      BY <2>2, <2>3 DEF Moves
    <2>5. moved \in [Creds -> BOOLEAN] /\ collected \in [Creds -> Amounts]
      BY <1>0 DEF TypeOK
    <2>6. CASE moved[k]
      BY <1>0, <1>1, <2>1, <2>5, <2>6 DEF CollectsThePrice
    <2>7. CASE ~moved[k]
      <3>1. collected'[k] = Moves(t, snap[t])
        BY <2>1, <2>5, <2>7
      <3>2. \A j \in Creds : j # k => moved'[j] = moved[j] /\ collected'[j] = collected[j]
        BY <2>1, <2>5
      <3>3. PaymentAmount = IF Price < Minimum THEN Minimum ELSE Price
        BY DEF PaymentAmount
      <3> QED
        BY <1>0, <1>1, <2>1, <2>2, <2>4, <3>1, <3>2, <3>3 DEF CollectsThePrice
    <2> QED
      BY <2>6, <2>7
  <1> QED
    BY <1>0, <1>3, <1>4, LedgerFrame

\* Each step of the gate, of its sessions and of the merchant keeps the
\* invariant.
LEMMA GInvStep ==
    ASSUME GateAssumption, SessionAssumption, GInv, [GateNext]_gateVars
    PROVE  GInv'
  <1>1. GateTypeOK' /\ IInv' /\ CollectsThePrice'
    BY GateTypeStep, GateStepsSessions, InvStep, PriceStep DEF GInv
  <1>2. Shape /\ CallState /\ TripsInv
    BY ShapeOK DEF GInv, IInv
  <1>3. ASSUME NEW t \in Sessions, Visit(t)
        PROVE  TripsInv'
    <2>1. TripInv(t)'
      BY <1>2, <1>3, ThisTrip DEF TripsInv
    <2>2. ASSUME NEW r \in Sessions, r # t PROVE TripInv(r)'
      BY <1>2, <1>3, <2>2, OtherTrips, SameTripInv DEF TripsInv
    <2> QED
      BY <2>1, <2>2 DEF TripsInv
  <1>4. ASSUME Restart, NEW t \in Sessions
        PROVE  TripInv(t)'
    <2>1. UNCHANGED <<pays, charged, vars>>
      BY <1>4 DEF Restart
    <2>2. IF at[t] \in InGate
          THEN at'[t] = "returned" /\ outcome'[t] = "error"
          ELSE at'[t] = at[t] /\ outcome'[t] = outcome[t]
      BY <1>4 DEF Restart
    <2>3. CASE at[t] \notin InGate
      <3>1. SameTrip(t)
        BY <2>1, <2>2, <2>3 DEF SameTrip, vars, session, closing, network
      <3> QED
        BY <1>2, <3>1, SameTripInv DEF TripsInv
    <2>4. CASE at[t] \in InGate
      <3>1. at'[t] = "returned" /\ outcome'[t] = "error"
        BY <2>2, <2>4
      <3>2. /\ UNCHANGED <<pays, charged, spent, pc, ret, snap, wire, answer, cap, terms>>
            /\ PaymentAmount' = PaymentAmount
            /\ Covers(answer[t], snap[t])' <=> Covers(answer[t], snap[t])
        BY <2>1 DEF vars, session, closing, network, PaymentAmount, Covers, Unparseable
      <3> QED
        BY <1>2, <3>1, <3>2 DEF TripsInv, TripInv, InGate, Failures, Unlimited, Unopened
    <2> QED
      BY <2>3, <2>4
  <1>5. ASSUME UNCHANGED gateVars, NEW t \in Sessions
        PROVE  TripInv(t)'
    <2>1. SameTrip(t)
      BY <1>5 DEF SameTrip, gateVars, gate, visit, vars, session, closing, network
    <2> QED
      BY <1>2, <2>1, SameTripInv DEF TripsInv
  <1> QED
    BY <1>1, <1>3, <1>4, <1>5 DEF GInv, GateNext, TripsInv

\* The invariant holds before the first request.
LEMMA GInvInit ==
    ASSUME GateAssumption, SessionAssumption, GateInit
    PROVE  GInv
  <1>1. IInv
    BY InvInit DEF GateInit
  <1>2. GateTypeOK
    BY DEF GateAssumption, GateInit, GateTypeOK, None, InGate
  <1>3. CollectsThePrice
    BY DEF GateInit, Init, CollectsThePrice
  <1>4. ASSUME NEW t \in Sessions PROVE TripInv(t)
    <2>1. t \in Closers /\ CredOf[t] \in Creds
      BY DEF GateAssumption, SessionAssumption
    <2>2. /\ spent[t] = 0 /\ cap[t] = Unopened /\ pc[t] = "idle" /\ ret[t] = "none"
          /\ at[t] = "idle" /\ ~pays[t] /\ ~charged[t] /\ outcome[t] = "none"
          /\ terms[CredOf[t]].kind # "channel"
      BY <2>1 DEF GateInit, Init
    <2> QED
      BY <2>2 DEF TripInv, InGate
  <1> QED
    BY <1>1, <1>2, <1>3, <1>4 DEF GInv, TripsInv

\* The gate's invariant holds throughout: how far a request is in the gate says
\* what was charged to its session, asked of the server and paid.
THEOREM GateInvariant == GateSpec => []GInv
  <1>1. GateInit => GInv
    BY GateAssumption, SessionAssumption, GInvInit
  <1>2. GInv /\ [GateNext]_gateVars => GInv'
    BY GateAssumption, SessionAssumption, GInvStep
  <1> QED
    BY <1>1, <1>2, PTL DEF GateSpec
-------------------------------------------------------------------------------
\* The gate fails closed: a handler runs only if an on-demand charge settled, or
\* the credential's settlement collected at least the price and the minimum.
THEOREM ServedIsPaidHolds == GateSpec => []ServedIsPaid
  <1>1. GInv => ServedIsPaid
    <2> SUFFICES ASSUME GInv, NEW t \in Sessions, outcome[t] = "served", pays[t]
                 PROVE  /\ moved[CredOf[t]]
                        /\ Price <= collected[CredOf[t]] /\ Minimum <= collected[CredOf[t]]
      BY DEF GInv, TripsInv, TripInv, ServedIsPaid
    <2> USE GateAssumption, SessionAssumption DEF GateAssumption, SessionAssumption
    <2>1. TypeOK /\ SettledFor
      BY DEF GInv, IInv
    <2>2. ret[t] = "settled" /\ snap[t] = PaymentAmount
      BY <2>1 DEF GInv, TripsInv, TripInv, TypeOK, Failures
    <2>3. moved[CredOf[t]] /\ snap[t] <= collected[CredOf[t]]
      BY <2>1, <2>2 DEF SettledFor
    <2> QED
      BY <2>1, <2>2, <2>3 DEF PaymentAmount, TypeOK, Amounts
  <1> QED
    BY <1>1, GateInvariant, PTL

\* No trip pays by both means, and one that is turned away with a challenge has used
\* neither.
THEOREM NotPaidTwiceHolds == GateSpec => []NotPaidTwice
  <1>1. GInv => NotPaidTwice
    BY GateAssumption
       DEF GateAssumption, GInv, IInv, CallState, TripsInv, TripInv, NotPaidTwice
  <1> QED
    BY <1>1, GateInvariant, PTL

\* A credential is settled for exactly the price, the minimum if that is more, or
\* for all that was signed, and for the price if its settlements could say it.
THEOREM CollectsThePriceHolds == GateSpec => []CollectsThePrice
  <1>1. GInv => CollectsThePrice
    BY DEF GInv
  <1> QED
    BY <1>1, GateInvariant, PTL

\* An honest client is turned away only by a failure, whatever other trips do
\* meanwhile: its cap admits its one charge, and its signature covers it.
THEOREM HonestTripServedHolds == GateSpec => []HonestTripServed
  <1> USE GateAssumption, SessionAssumption
  <1>1. GInv => HonestTripServed
    <2> DEFINE k(t) == CredOf[t]
    <2> SUFFICES ASSUME GInv, NEW t \in Sessions,
                        terms[k(t)].signed >= PaymentAmount,
                        \/ terms[k(t)].kind = "fixed"
                        \/ cap[t] \in {Unopened, Unlimited, terms[k(t)].signed}
                 PROVE  /\ outcome[t] # "challenged"
                        /\ ret[t] = "underpaid" => answer[t] = Unparseable
      BY DEF HonestTripServed
    <2>1. /\ TypeOK /\ AnswerFromLedger /\ CallState /\ TripInv(t) /\ CollectsThePrice
          /\ k(t) \in Creds /\ Closers = Sessions /\ SessionOf[t] = t
      BY DEF GInv, IInv, TripsInv, SessionAssumption, GateAssumption
    <2>2. PaymentAmount \in Nat /\ terms[k(t)].signed \in Nat
      BY <2>1, TermsAmounts DEF Amounts, GateAssumption, PaymentAmount
    <2>3. ~Tight(t)
      <3>1. CASE cap[t] \in {Unopened, Unlimited, PaymentAmount}
        BY <2>2, <3>1 DEF Tight, WithinCap
      <3>2. CASE cap[t] = terms[k(t)].signed
        BY <2>2, <3>2 DEF Tight, WithinCap
      <3> QED
        BY <2>1, <3>1, <3>2 DEF TripInv
    <2>4. ASSUME ret[t] = "underpaid"
          PROVE  answer[t] = Unparseable
      <3>1. /\ wire[t] = "answered" /\ ~Covers(answer[t], snap[t])
            /\ snap[t] = PaymentAmount
        BY <2>1, <2>4 DEF TripInv, CallState
      <3>2. moved[k(t)] /\ answer[t] \in {collected[k(t)], Unparseable}
        BY <2>1, <3>1 DEF AnswerFromLedger
      <3>3. PaymentAmount <= collected[k(t)]
        BY <2>1, <2>2, <3>2 DEF CollectsThePrice, PaymentAmount, GateAssumption
      <3> QED
        BY <3>1, <3>2, <3>3 DEF Covers
    <2> QED
      BY <2>1, <2>3, <2>4 DEF TripInv
  <1> QED
    BY <1>1, GateInvariant, PTL
-------------------------------------------------------------------------------
(***************************************************************************)
(* Whose payment requests a trip and the gate refer to.                    *)
(***************************************************************************)

\* What the gate remembers of a user is that user's, as is what a trip names.
NamesInv ==
    /\ NamesOwnUser
    /\ \A u \in Users : last[u] # None => owner[last[u]] = u

\* A payment request keeps its user when others are created after it.
LEMMA OwnersStay ==
    ASSUME NEW o \in Seq(Users), NEW u \in Users
    PROVE  /\ \A n \in 0..Len(o) : n # None => Append(o, u)[n] = o[n]
           /\ Append(o, u)[Len(o) + 1] = u
  BY DEF None

\* Each step of the gate refers to payment requests of the right users.
LEMMA NamesStep ==
    ASSUME GateAssumption, GateTypeOK, NamesInv, [GateNext]_gateVars
    PROVE  NamesInv'
  <1> USE GateAssumption DEF GateAssumption, GateTypeOK, NamesInv, NamesOwnUser
  <1>1. ASSUME UNCHANGED <<asked, named, last, owner>>
        PROVE  NamesInv'
    BY <1>1
  <1>2. ASSUME NEW t \in Sessions, OpenSession(t)
        PROVE  NamesInv'
    BY <1>2 DEF OpenSession
  <1>3. ASSUME NEW t \in Sessions, CreatePaymentRequest(t) \/ CreateFails(t)
        PROVE  NamesInv'
    <2>1. UserOf[t] \in Users /\ Len(owner) \in Nat
      OBVIOUS
    <2>2. \A n \in 0..Len(owner) :
              n # None => Append(owner, UserOf[t])[n] = owner[n]
      BY <2>1, OwnersStay
    <2>3. CASE CreatePaymentRequest(t)
      <3>1. Len(owner') = Len(owner) + 1 /\ owner'[Len(owner) + 1] = UserOf[t]
        BY <2>1, <2>3, OwnersStay, AppendOwner DEF CreatePaymentRequest
      <3> QED
        BY <2>1, <2>2, <2>3, <3>1 DEF CreatePaymentRequest
    <2>4. CASE CreateFails(t)
      <3>1. UNCHANGED <<asked, named, last>>
        BY <2>4 DEF CreateFails
      <3>2. owner' = owner \/ owner' = Append(owner, UserOf[t])
        BY <2>4 DEF CreateFails
      <3> QED
        BY <2>2, <3>1, <3>2
    <2> QED
      BY <1>3, <2>3, <2>4
  <1>4. ASSUME NEW t \in Sessions, Remember(t)
        PROVE  NamesInv'
    BY <1>4 DEF Remember
  <1>5. ASSUME Restart
        PROVE  NamesInv'
    BY <1>5 DEF Restart
  <1>6. ASSUME NEW t \in Sessions,
               \/ Request(t) \/ Pay(t) \/ GiveUp(t)
               \/ DestinationFails(t) \/ ChargeSession(t) \/ Decline(t) \/ ChargeOnDemand(t)
               \/ Serve(t) \/ SettlementFailed(t)
               \/ CloseSession(t) \/ AuthorizationServer(t)
        PROVE  UNCHANGED <<asked, named, last, owner>>
    BY <1>6 DEF Request, Pay, Present, GiveUp, DestinationFails, ChargeSession, Decline,
                ChargeOnDemand, Serve, SettlementFailed, CloseSession,
                AuthorizationServer, gate, book
  <1>7. UNCHANGED gateVars => UNCHANGED <<asked, named, last, owner>>
    BY DEF gateVars, gate, book
  <1> QED
    BY <1>1, <1>2, <1>3, <1>4, <1>5, <1>6, <1>7 DEF GateNext, Visit

\* The payment request a trip is challenged for, and the one its settlement
\* names, were created for its user, however many trips and restarts there are.
THEOREM NamesOwnUserHolds == GateSpec => []NamesOwnUser
  <1>1. GateInit => NamesInv
    BY GateAssumption DEF GateAssumption, GateInit, NamesInv, NamesOwnUser
  <1>2. GateTypeOK /\ NamesInv /\ [GateNext]_gateVars => NamesInv'
    BY GateAssumption, NamesStep
  <1>3. NamesInv => NamesOwnUser
    BY DEF NamesInv
  <1> QED
    BY <1>1, <1>2, <1>3, GateTypeCorrect, PTL DEF GateSpec
-------------------------------------------------------------------------------
(***************************************************************************)
(* A trip is a paid call: the refinement of PaidCall.                      *)
(***************************************************************************)
AskedMap == [t \in Sessions |-> wire[t] # "none"]
TakenMap == [k \in Creds |-> TakenOf(k)]

\* A trip the gate has not authorized has not been paid for, and has not been
\* answered.
LEMMA NotYetPaid ==
    ASSUME GateAssumption, GInv, NEW t \in Sessions, at[t] \notin {"authorized", "returned"}
    PROVE  ~charged[t] /\ wire[t] = "none" /\ outcome[t] = "none" /\ Call!Unpaid(t)
  <1>1. ~charged[t] /\ wire[t] = "none" /\ outcome[t] = "none"
    BY DEF GateAssumption, GInv, IInv, CallState, TripsInv, TripInv
  <1> QED
    BY <1>1 DEF Call!Unpaid

\* What was asked for and taken changes with the network's variables only.
LEMMA AskedAndTakenKept ==
    ASSUME UNCHANGED <<wire, moved, collected>>
    PROVE  UNCHANGED <<AskedMap, TakenMap>>
  BY DEF AskedMap, TakenMap, TakenOf, PaymentAmount

\* An answer of the gate is one to a call it has not answered.
LEMMA AnswerTells ==
    ASSUME GateTypeOK, NEW t \in Sessions, NEW from, NEW response,
           Answer(t, from, response), outcome[t] = "none"
    PROVE  /\ Call!Tell(t, response)
           /\ outcome' = [u \in Sessions |-> IF u \in {t} THEN response ELSE outcome[u]]
  BY DEF GateTypeOK, Answer, Call!Tell

\* Every answer that is an error ends its call, and only that.
LEMMA ErrorFails ==
    ASSUME GateTypeOK, NEW t \in Sessions, NEW from, Answer(t, from, "error"),
           outcome[t] = "none", UNCHANGED <<charged, wire, moved, collected>>
    PROVE  Call!Fail({t})
  <1>1. \A u \in {t} : outcome[u] = "none"
    OBVIOUS
  <1> QED
    BY <1>1, AnswerTells, AskedAndTakenKept DEF Call!Fail, AskedMap, TakenMap

\* A settlement that leaves asks for the payment of a trip that is not paid for.
LEMMA PostAsks ==
    ASSUME GateAssumption, GInv, NEW t \in Sessions, CloseSession(t), PostSettle(t)
    PROVE  Call!Ask(t)
  <1> USE GateAssumption DEF GateAssumption
  <1>1. /\ TypeOK /\ CallState /\ TripInv(t)
    BY DEF GInv, IInv, TripsInv
  <1>2. /\ pc[t] = "lookup" /\ wire' = [wire EXCEPT ![t] = "sent"]
        /\ at[t] = "authorized" /\ pays[t]
        /\ UNCHANGED <<charged, outcome, moved, collected>>
    BY DEF CloseSession, PostSettle, gate, visit
  <1>3. wire[t] = "none" /\ ~charged[t] /\ outcome[t] = "none"
    BY <1>1, <1>2 DEF CallState, TripInv
  <1>4. AskedMap' = [AskedMap EXCEPT ![t] = TRUE]
    BY <1>1, <1>2 DEF AskedMap, TypeOK
  <1>5. UNCHANGED TakenMap
    BY <1>2 DEF TakenMap, TakenOf, PaymentAmount
  <1> QED
    BY <1>2, <1>3, <1>4, <1>5 DEF Call!Ask, Call!Unpaid, AskedMap, TakenMap

\* The server takes a payment for a trip that asked, which was not answered or was
\* told of a failure.
LEMMA SettlementTakes ==
    ASSUME GateAssumption, SessionAssumption, GInv, NEW t \in Sessions,
           ASSettles(t), ~moved[CredOf[t]], UNCHANGED <<charged, outcome>>
    PROVE  Call!Take(t)
  <1> USE GateAssumption, SessionAssumption DEF GateAssumption, SessionAssumption
  <1> DEFINE k == CredOf[t]
  <1>1. /\ wire[t] = "sent" /\ wire' = [wire EXCEPT ![t] = "answered"]
        /\ moved' = [moved EXCEPT ![k] = TRUE] /\ k \in Creds
        /\ \E amount : collected' = [collected EXCEPT ![k] = amount]
    BY DEF ASSettles
  <1>2. /\ TypeOK /\ CallState /\ SettledFor /\ TripInv(t) /\ GateTypeOK
        /\ moved \in [Creds -> BOOLEAN] /\ collected \in [Creds -> Amounts]
    BY DEF GInv, IInv, TripsInv, TypeOK
  <1>3. outcome[t] \in {"none", "error", "unsettled"}
    <2>1. pc[t] # "idle" /\ pays[t]
      BY <1>1, <1>2 DEF CallState, TripInv
    <2>2. outcome[t] \notin {"challenged", "unpaid"}
      BY <1>2, <2>1 DEF TripInv
    <2>3. ASSUME outcome[t] = "served" PROVE FALSE
      <3>1. ret[t] = "settled"
        BY <1>2, <2>1, <2>3 DEF TripInv, TypeOK, Failures
      <3> QED
        BY <1>2, <3>1 DEF SettledFor
    <2> QED
      BY <1>2, <2>2, <2>3 DEF GateTypeOK
  <1>4. AskedMap[t] /\ UNCHANGED AskedMap
    BY <1>1, <1>2 DEF AskedMap, TypeOK
  <1>5. TakenMap[k] = "nothing" /\ TakenOf(k)' \in {"short", "full"}
    BY <1>1, <1>2 DEF TakenOf, TakenMap
  <1>6. \A j \in Creds : j # k => TakenOf(j)' = TakenOf(j)
    BY <1>1, <1>2 DEF TakenOf, PaymentAmount
  <1>7. TakenMap' = [TakenMap EXCEPT ![k] = TakenOf(k)']
    BY <1>1, <1>6 DEF TakenMap
  <1> QED
    BY <1>3, <1>4, <1>5, <1>7 DEF Call!Take, AskedMap, TakenMap

\* Each step of the gate, its sessions and their ledger is a step of paid calls.
LEMMA CallStep ==
    ASSUME GateAssumption, SessionAssumption, GInv, [GateNext]_gateVars
    PROVE  [Call!Next]_(Call!vars)
  <1> USE GateAssumption, SessionAssumption
  <1>0. GateTypeOK /\ TypeOK /\ charged \in [Sessions -> BOOLEAN]
    BY DEF GInv, IInv, GateTypeOK
  <1>1. ASSUME UNCHANGED <<charged, wire, moved, collected, outcome>>
        PROVE  UNCHANGED Call!vars
    BY <1>1, AskedAndTakenKept DEF Call!vars, AskedMap, TakenMap
  <1>2. ASSUME NEW t \in Sessions,
               \/ Request(t) \/ Pay(t) \/ OpenSession(t) \/ ChargeSession(t) \/ Decline(t)
               \/ CreatePaymentRequest(t)
        PROVE  UNCHANGED Call!vars
    <2>1. CASE Request(t) \/ Pay(t) \/ Decline(t) \/ CreatePaymentRequest(t)
      BY <1>1, <2>1 DEF Request, Pay, Present, Decline, CreatePaymentRequest, Goto, vars,
                        network
    <2>2. CASE ChargeSession(t)
      BY <1>1, <2>2 DEF ChargeSession, Charge, Goto, network
    <2>3. CASE OpenSession(t)
      BY <1>1, <2>3 DEF OpenSession, Open, Goto, network
    <2> QED
      BY <1>2, <2>1, <2>2, <2>3
  <1>15. ASSUME NEW t \in Sessions, CloseSession(t)
         PROVE  Call!Ask(t) \/ UNCHANGED Call!vars
    <2>1. CASE PostSettle(t)
      BY <1>15, <2>1, PostAsks
    <2>2. CASE CloseBegin(t) \/ SettleFails(t) \/ SettleAnswered(t)
      BY <1>1, <1>15, <2>2 DEF CloseSession, CloseBegin, SettleFails, SettleAnswered,
                        network, gate, visit
    <2> QED
      BY <1>15, <2>1, <2>2 DEF CloseSession
  <1>3. ASSUME NEW t \in Sessions, GiveUp(t)
        PROVE  Call!TurnAway(t)
    <2>1. Answer(t, "challenged", "unpaid") /\ at[t] = "challenged"
          /\ UNCHANGED <<charged, wire, moved, collected>>
      BY <1>3 DEF GiveUp, Answer, vars, network
    <2> QED
      BY <1>0, <2>1, NotYetPaid, AnswerTells, AskedAndTakenKept
         DEF Call!TurnAway, AskedMap, TakenMap
  <1>4. ASSUME NEW t \in Sessions, DestinationFails(t) \/ CreateFails(t)
        PROVE  Call!Fail({t})
    <2>1. PICK from \in {"require", "create"} : Answer(t, from, "error") /\ at[t] = from
      BY <1>4 DEF DestinationFails, CreateFails, Answer
    <2>2. UNCHANGED <<charged, wire, moved, collected>>
      BY <1>4 DEF DestinationFails, CreateFails, vars, network
    <2> QED
      BY <1>0, <2>1, <2>2, NotYetPaid, ErrorFails
  <1>5. ASSUME NEW t \in Sessions, ChargeOnDemand(t)
        PROVE  Call!Debit(t) \/ Call!Fail({t}) \/ UNCHANGED Call!vars
    <2>1. at[t] = "require" /\ UNCHANGED <<wire, moved, collected>>
      BY <1>5 DEF ChargeOnDemand, Goto, Answer, vars, network
    <2>2. Call!Unpaid(t) /\ outcome[t] = "none"
      BY <2>1, NotYetPaid
    <2>3. UNCHANGED <<AskedMap, TakenMap>>
      BY <2>1, AskedAndTakenKept
    <2>4. CASE UNCHANGED outcome /\ charged' = [charged EXCEPT ![t] = TRUE]
      BY <2>2, <2>3, <2>4 DEF Call!Debit, AskedMap, TakenMap
    <2>5. CASE UNCHANGED <<outcome, charged>>
      BY <1>1, <2>1, <2>5
    <2>6. CASE Answer(t, "require", "error") /\ charged' = [charged EXCEPT ![t] = TRUE]
      BY <1>0, <2>2, <2>3, <2>6, AnswerTells DEF Call!Debit, AskedMap, TakenMap
    <2>7. CASE Answer(t, "require", "error") /\ UNCHANGED charged
      BY <1>0, <2>1, <2>2, <2>7, ErrorFails
    <2> QED
      BY <1>5, <2>4, <2>5, <2>6, <2>7 DEF ChargeOnDemand, Goto
  <1>6. ASSUME NEW t \in Sessions, Remember(t)
        PROVE  Call!TurnAway(t) \/ UNCHANGED Call!vars
    <2>1. at[t] = "remember" /\ UNCHANGED <<charged, wire, moved, collected>>
      BY <1>6 DEF Remember, Goto, Answer, vars, network
    <2>2. CASE pays[t]
      <3>1. Answer(t, "remember", "challenged")
        BY <1>6, <2>2 DEF Remember
      <3> QED
        BY <1>0, <2>1, <3>1, NotYetPaid, AnswerTells, AskedAndTakenKept
           DEF Call!TurnAway, AskedMap, TakenMap
    <2>3. CASE ~pays[t]
      BY <1>1, <1>6, <2>1, <2>3 DEF Remember, Goto
    <2> QED
      BY <2>2, <2>3
  <1>7. ASSUME NEW t \in Sessions, Serve(t)
        PROVE  Call!Serve(t)
    <2>1. /\ at[t] = "authorized" /\ Answer(t, "authorized", "served")
          /\ UNCHANGED <<charged, wire, moved, collected>>
          /\ pays[t] => pc[t] = "done" /\ ret[t] \notin Failures
      BY <1>7 DEF Serve, Answer, vars, network
    <2>2. outcome[t] = "none" /\ (~pays[t] => charged[t])
      BY <2>1 DEF GInv, TripsInv, TripInv
    <2>3. ASSUME pays[t] PROVE AskedMap[t] /\ TakenMap[CredOf[t]] = "full"
      <3>1. ret[t] = "settled" /\ wire[t] = "answered" /\ snap[t] = PaymentAmount
        BY <1>0, <2>1, <2>3 DEF GInv, TripsInv, TripInv, TypeOK, Failures, GateAssumption
      <3>2. moved[CredOf[t]] /\ snap[t] <= collected[CredOf[t]] /\ CredOf[t] \in Creds
        BY <3>1 DEF GInv, IInv, SettledFor, GateAssumption, SessionAssumption
      <3>3. collected[CredOf[t]] \in Nat /\ PaymentAmount \in Nat
        BY <1>0, <3>2 DEF TypeOK, Amounts, SessionAssumption, GateAssumption, PaymentAmount
      <3>4. ~(collected[CredOf[t]] < PaymentAmount)
        BY <3>1, <3>2, <3>3
      <3>5. TakenOf(CredOf[t]) = "full"
        BY <3>2, <3>4 DEF TakenOf
      <3> QED
        BY <3>1, <3>2, <3>5 DEF AskedMap, TakenMap
    <2>4. Call!Tell(t, "served") /\ UNCHANGED <<AskedMap, TakenMap>>
      BY <1>0, <2>1, <2>2, AnswerTells, AskedAndTakenKept
    <2> QED
      BY <2>1, <2>2, <2>3, <2>4 DEF Call!Serve, AskedMap, TakenMap
  <1>8. ASSUME NEW t \in Sessions, SettlementFailed(t)
        PROVE  Call!LeaveUnsettled(t)
    <2>1. /\ at[t] = "authorized" /\ Answer(t, "authorized", "unsettled") /\ pays[t]
          /\ UNCHANGED <<charged, wire, moved, collected>>
      BY <1>8 DEF SettlementFailed, Answer, vars, network
    <2>2. outcome[t] = "none" /\ ~charged[t]
      BY <2>1 DEF GInv, TripsInv, TripInv
    <2> QED
      BY <1>0, <2>1, <2>2, AnswerTells, AskedAndTakenKept
         DEF Call!LeaveUnsettled, AskedMap, TakenMap
  <1>9. ASSUME NEW t \in Sessions, AuthorizationServer(t)
        PROVE  Call!Take(t) \/ UNCHANGED Call!vars
    <2>1. UNCHANGED <<charged, outcome>> /\ SessionOf[t] = t
      BY <1>9 DEF AuthorizationServer, gate, visit, GateAssumption
    <2>2. CASE ASRefuses(t) \/ (ASSettles(t) /\ moved[CredOf[t]])
      <3>1. UNCHANGED <<moved, collected>>
        <4>1. CASE ASRefuses(t)
          BY <4>1 DEF ASRefuses
        <4>2. ASSUME ASSettles(t), moved[CredOf[t]]
              PROVE  UNCHANGED <<moved, collected>>
          <5>1. /\ moved' = [moved EXCEPT ![CredOf[t]] = TRUE]
                /\ collected' = [collected EXCEPT ![CredOf[t]] = collected[CredOf[t]]]
            BY <2>1, <4>2 DEF ASSettles
          <5> QED
            BY <1>0, <4>2, <5>1 DEF TypeOK
        <4> QED
          BY <2>2, <4>1, <4>2
      <3>2. wire[t] = "sent" /\ \E w \in {"answered", "refused"} : wire' = [wire EXCEPT ![t] = w]
        BY <2>2 DEF ASRefuses, ASSettles
      <3>3. UNCHANGED AskedMap
        BY <1>0, <3>2 DEF AskedMap, TypeOK, GateAssumption
      <3>4. UNCHANGED TakenMap
        BY <3>1 DEF TakenMap, TakenOf, PaymentAmount
      <3> QED
        BY <2>1, <3>3, <3>4 DEF Call!vars, AskedMap, TakenMap
    <2>3. CASE ASSettles(t) /\ ~moved[CredOf[t]]
      BY <2>1, <2>3, SettlementTakes
    <2> QED
      BY <1>9, <2>2, <2>3 DEF AuthorizationServer
  <1>10. ASSUME Restart
         PROVE  Call!Fail({t \in Sessions : at[t] \in InGate})
    <2> DEFINE failing == {t \in Sessions : at[t] \in InGate}
    <2>1. UNCHANGED <<charged, wire, moved, collected>>
          /\ outcome' = [t \in Sessions |-> IF at[t] \in InGate THEN "error" ELSE outcome[t]]
      BY <1>10 DEF Restart, vars, network
    <2>2. \A t \in failing : outcome[t] = "none"
      BY DEF GInv, TripsInv, TripInv, InGate
    <2>3. outcome' = [t \in Sessions |-> IF t \in failing THEN "error" ELSE outcome[t]]
      BY <2>1
    <2> QED
      BY <2>1, <2>2, <2>3, AskedAndTakenKept DEF Call!Fail, AskedMap, TakenMap
  <1>11. ASSUME UNCHANGED gateVars
         PROVE  UNCHANGED Call!vars
    BY <1>1, <1>11 DEF gateVars, vars, network, gate, visit
  <1>12. \A t \in Sessions : {t} \in SUBSET Sessions
    OBVIOUS
  <1>13. ASSUME NEW t \in Sessions, Visit(t)
         PROVE  Call!Next \/ UNCHANGED Call!vars
    BY <1>2, <1>3, <1>4, <1>5, <1>6, <1>7, <1>8, <1>9, <1>12, <1>13, <1>15
       DEF Visit, Call!Next
  <1>14. ASSUME Restart PROVE Call!Next
    BY <1>10, <1>14 DEF Call!Next
  <1> QED
    BY <1>11, <1>13, <1>14 DEF GateNext

\* Before the first request no trip is paid for or answered.
LEMMA CallInit == GateInit => Call!Init
  <1> SUFFICES ASSUME GateInit PROVE Call!Init
    OBVIOUS
  <1>1. TakenMap = [k \in Creds |-> "nothing"]
    BY DEF GateInit, Init, TakenOf, TakenMap
  <1>2. AskedMap = [t \in Sessions |-> FALSE]
    BY GateAssumption DEF GateAssumption, GateInit, Init, AskedMap
  <1> QED
    BY <1>1, <1>2 DEF GateInit, Call!Init, AskedMap, TakenMap

\* Behind the gate every trip is a paid call, whoever presents which credential: paid
\* by one means, served only if paid in full, never paid after it was turned away,
\* and told one thing; and no payment is taken twice.
THEOREM TripIsPaidCallHolds == GateSpec => TripIsPaidCall
  <1>1. GateInit => Call!Init
    BY CallInit
  <1>2. GInv /\ [GateNext]_gateVars => [Call!Next]_(Call!vars)
    BY GateAssumption, SessionAssumption, CallStep
  <1> QED
    BY <1>1, <1>2, GateInvariant, PTL DEF GateSpec, TripIsPaidCall, Call!Spec
===============================================================================
