---------------------------- MODULE PaymentSession ----------------------------
(***************************************************************************)
(* server/paymentsession.go: the sessions a merchant opens from detected   *)
(* retry credentials, the charges its handlers record against them, the    *)
(* concurrent CloseSession calls that settle them, and the authorization   *)
(* server's /settle endpoint with its ledger, reached over calls that may  *)
(* be refused, lost, delayed or answered with an unreadable amount.        *)
(*                                                                         *)
(* One step of this module is one critical section of session.mu, or one   *)
(* step of the network between two of them.                                *)
(***************************************************************************)
EXTENDS Integers

CONSTANTS
    Sessions,     \* the *PaymentSession values
    Creds,        \* the credentials, as the authorization server tells them apart
    CredOf,       \* the credential a session was opened for: a retried request
                  \* opens a second session for the same credential
    Closers,      \* the calls of CloseSession
    SessionOf,    \* the session a call closes
    Costs,        \* the amounts handlers charge
    MaxAmount,    \* bound on what a session spends
    Authorized,   \* the amounts credentials are signed for, and the caps read
    LateCharges   \* FALSE: handlers keep to the PaymentSession doc comment and
                  \* stop charging once the request scope ends and a close starts

ASSUME SessionAssumption ==
    /\ CredOf \in [Sessions -> Creds]
    /\ SessionOf \in [Closers -> Sessions]
    /\ MaxAmount \in Nat
    /\ Costs \subseteq 1..MaxAmount
    /\ Authorized \subseteq 0..MaxAmount
    /\ LateCharges \in BOOLEAN

Unparseable == -1   \* a settledAmount ParseAmount rejects
NoResult == -2      \* settleResultSet = false
Unlimited == -1     \* capUnlimited = true
Unopened == -2      \* the cap of a session that is not opened yet

(***************************************************************************)
(* What a credential authorizes.  A "fixed" credential (x402 exact, MPP    *)
(* charge) moves the amount its payer signed; a "metered" one (ATXP, x402  *)
(* upto) and a "channel" (MPP session) move up to that amount.             *)
(***************************************************************************)
Terms == [kind : {"fixed", "metered", "channel"}, signed : Authorized]

VARIABLES
    terms,       \* terms[k]: what credential k authorizes (never changes)
    cap,         \* session.cap, with capUnlimited
    says,        \* the body of the session's /settle carries the amount charged
    spent,       \* session.spent
    settled,     \* session.settled
    settling,    \* session.settling
    result,      \* session.settleResult.SettledAmount, or NoResult
    pc,          \* where each CloseSession call is
    snap,        \* the spent it copied under the lock
    ret,         \* what it returned: "none" until then, "settled" or "noop" for nil
    wire,        \* its POST /settle: "none", "sent", "answered" or "refused"
    answer,      \* the settledAmount of the answer
    moved,       \* the authorization server settled the credential
    collected    \* the amount it moved then

opened == <<terms, cap, says>>
session == <<spent, settled, settling, result>>
closing == <<pc, snap, ret>>
network == <<wire, answer, moved, collected>>
vars == <<opened, session, closing, network>>

RequiresClose(s) == terms[CredOf[s]].kind = "channel"

\* The steps of CloseSession between its two critical sections.
Busy == {"lookup", "posted"}
Failures == {"lookup_error", "settle_error", "underpaid"}

Init ==
    /\ terms \in [Creds -> Terms]
    /\ cap = [s \in Sessions |-> Unopened]
    /\ says = [s \in Sessions |-> FALSE]
    /\ spent = [s \in Sessions |-> 0]
    /\ settled = [s \in Sessions |-> FALSE]
    /\ settling = [s \in Sessions |-> FALSE]
    /\ result = [s \in Sessions |-> NoResult]
    /\ pc = [c \in Closers |-> "idle"]
    /\ snap = [c \in Closers |-> 0]
    /\ ret = [c \in Closers |-> "none"]
    /\ wire = [c \in Closers |-> "none"]
    /\ answer = [c \in Closers |-> 0]
    /\ moved = [k \in Creds |-> FALSE]
    /\ collected = [k \in Creds |-> 0]
-------------------------------------------------------------------------------
(***************************************************************************)
(* OpenPaymentSession.  The cap is read from the unsigned part of the      *)
(* credential, or from the requirement remembered of the caller, or is not *)
(* found.  From the same two the body of the settlement is built later:    *)
(* that of a channel says what was charged, that of a fixed credential     *)
(* does not (one that did would be refused), that of an x402 upto does if  *)
(* an upto requirement is remembered, that of an ATXP credential if its    *)
(* options can be read.                                                    *)
(***************************************************************************)
Caps == Authorized \cup {0, Unlimited}

Open(s, limit, tells) ==
    /\ cap[s] = Unopened
    /\ terms[CredOf[s]].kind = "channel" => tells
    /\ terms[CredOf[s]].kind = "fixed" => ~tells
    /\ cap' = [cap EXCEPT ![s] = limit]
    /\ says' = [says EXCEPT ![s] = tells]
    /\ UNCHANGED <<terms, session, closing, network>>

\* Variants: the total before the charge is compared; or a total that reaches
\* the cap is declined.
WithinCapStale(s, total) == cap[s] = Unlimited \/ spent[s] <= cap[s]
WithinCapStrict(s, total) == cap[s] = Unlimited \/ total < cap[s]

\* Charge: an amount past the cap is declined and changes nothing.
WithinCap(s, total) == cap[s] = Unlimited \/ total <= cap[s]

InScope(s) ==
    /\ cap[s] # Unopened
    /\ LateCharges \/ \A c \in Closers : SessionOf[c] = s => pc[c] = "idle"

\* Variant: the cost is added twice.
ChargeTwice(s, cost) ==
    /\ InScope(s)
    /\ WithinCap(s, spent[s] + cost)
    /\ spent[s] + cost <= MaxAmount
    /\ spent' = [spent EXCEPT ![s] = @ + cost + cost]
    /\ UNCHANGED <<opened, settled, settling, result, closing, network>>

Charge(s, cost) ==
    /\ InScope(s)
    /\ WithinCap(s, spent[s] + cost)
    /\ spent[s] + cost <= MaxAmount
    /\ spent' = [spent EXCEPT ![s] = @ + cost]
    /\ UNCHANGED <<opened, settled, settling, result, closing, network>>
-------------------------------------------------------------------------------
(***************************************************************************)
(* CloseSession, first critical section.                                   *)
(***************************************************************************)
\* Variants: one of the two flags is not looked at.
TakenIfSettled(s) == settled[s]
TakenIfSettling(s) == settling[s]

Taken(s) == settled[s] \/ settling[s]
NothingDue(s) == spent[s] = 0 /\ ~RequiresClose(s)

Return(c, outcome) ==
    /\ pc' = [pc EXCEPT ![c] = "done"]
    /\ ret' = [ret EXCEPT ![c] = outcome]
    /\ UNCHANGED snap

CloseNoop(c) ==
    /\ pc[c] = "idle" /\ cap[SessionOf[c]] # Unopened
    /\ Taken(SessionOf[c]) \/ NothingDue(SessionOf[c])
    /\ Return(c, "noop")
    /\ UNCHANGED <<opened, session, network>>

CloseBegin(c) ==
    LET s == SessionOf[c] IN
    /\ pc[c] = "idle" /\ cap[s] # Unopened
    /\ ~Taken(s) /\ ~NothingDue(s)
    /\ settling' = [settling EXCEPT ![s] = TRUE]
    /\ snap' = [snap EXCEPT ![c] = spent[s]]
    /\ pc' = [pc EXCEPT ![c] = "lookup"]
    /\ UNCHANGED <<opened, spent, settled, result, ret, network>>

\* m.Settlement failed to resolve the destination: the session stays unsettled.
LookupFails(c) ==
    /\ pc[c] = "lookup"
    /\ Return(c, "lookup_error")
    /\ settling' = [settling EXCEPT ![SessionOf[c]] = FALSE]
    /\ UNCHANGED <<opened, spent, settled, result, network>>

PostSettle(c) ==
    /\ pc[c] = "lookup"
    /\ pc' = [pc EXCEPT ![c] = "posted"]
    /\ wire' = [wire EXCEPT ![c] = "sent"]
    /\ UNCHANGED <<opened, session, snap, ret, answer, moved, collected>>

(***************************************************************************)
(* CloseSession, second critical section.  The call may fail before the    *)
(* request leaves (an MPP credential that is no JSON, no connection), when *)
(* the server refuses it, and at any time after it left (the context ends, *)
(* the answer is lost or is no JSON).                                      *)
(***************************************************************************)
\* Variants: a failed one-shot may be settled again; a channel may not.
SettledStays(s) == settled[s]
SettledAlways(s) == TRUE

SettledAfterFailure(s) == settled[s] \/ ~RequiresClose(s)

SettleFails(c) ==
    LET s == SessionOf[c] IN
    /\ pc[c] \in Busy
    /\ settled' = [settled EXCEPT ![s] = SettledAfterFailure(s)]
    /\ settling' = [settling EXCEPT ![s] = FALSE]
    /\ Return(c, "settle_error")
    /\ UNCHANGED <<opened, spent, result, network>>

\* Variants: the amount is not compared; is compared strictly; need not be readable.
CoversAny(amount, due) == amount # Unparseable
CoversStrictly(amount, due) == amount # Unparseable /\ due < amount
CoversUnread(amount, due) == amount = Unparseable \/ due <= amount

Covers(amount, due) == amount # Unparseable /\ due <= amount

SettleAnswered(c) ==
    LET s == SessionOf[c] IN
    /\ pc[c] = "posted"
    /\ wire[c] = "answered"
    /\ settled' = [settled EXCEPT ![s] = TRUE]
    /\ settling' = [settling EXCEPT ![s] = FALSE]
    /\ result' = [result EXCEPT ![s] = answer[c]]
    /\ Return(c, IF Covers(answer[c], snap[c]) THEN "settled" ELSE "underpaid")
    /\ UNCHANGED <<opened, spent, network>>
-------------------------------------------------------------------------------
(***************************************************************************)
(* The authorization server's POST /settle, as CloseSession relies on it:  *)
(* a settlement that does not say the amount takes all that was signed, as *)
(* the comment on Settle has it ("nil settles the cap"); settling again    *)
(* moves nothing and reports the first amount.                             *)
(***************************************************************************)
Moves(s, due) ==
    LET signed == terms[CredOf[s]].signed
    IN  IF ~says[s] \/ signed <= due THEN signed ELSE due

ASSettles(c) ==
    LET k == CredOf[SessionOf[c]] IN
    /\ wire[c] = "sent"
    /\ wire' = [wire EXCEPT ![c] = "answered"]
    /\ moved' = [moved EXCEPT ![k] = TRUE]
    /\ collected' = [collected EXCEPT ![k] = IF moved[k] THEN @ ELSE Moves(SessionOf[c], snap[c])]
    /\ \E amount \in {collected'[k], Unparseable} :
          answer' = [answer EXCEPT ![c] = amount]
    /\ UNCHANGED <<opened, session, closing>>

ASRefuses(c) ==
    /\ wire[c] = "sent"
    /\ wire' = [wire EXCEPT ![c] = "refused"]
    /\ UNCHANGED <<opened, session, closing, answer, moved, collected>>
-------------------------------------------------------------------------------
Next ==
    \/ \E s \in Sessions, limit \in Caps, tells \in BOOLEAN : Open(s, limit, tells)
    \/ \E s \in Sessions, cost \in Costs : Charge(s, cost)
    \/ \E c \in Closers :
          \/ CloseNoop(c) \/ CloseBegin(c) \/ PostSettle(c)
          \/ LookupFails(c) \/ SettleFails(c) \/ SettleAnswered(c)
          \/ ASSettles(c) \/ ASRefuses(c)

Spec == Init /\ [][Next]_vars
-------------------------------------------------------------------------------
(***************************************************************************)
(* Correctness.                                                            *)
(***************************************************************************)
Amounts == 0..MaxAmount
Answers == Amounts \cup {Unparseable}

\* Every variable holds what its Go field or its step of CloseSession can hold.
TypeOK ==
    /\ terms \in [Creds -> Terms]
    /\ cap \in [Sessions -> Caps \cup {Unopened}]
    /\ says \in [Sessions -> BOOLEAN]
    /\ spent \in [Sessions -> Amounts]
    /\ settled \in [Sessions -> BOOLEAN]
    /\ settling \in [Sessions -> BOOLEAN]
    /\ result \in [Sessions -> Answers \cup {NoResult}]
    /\ pc \in [Closers -> {"idle", "done"} \cup Busy]
    /\ snap \in [Closers -> Amounts]
    /\ ret \in [Closers -> {"none", "noop", "settled"} \cup Failures]
    /\ wire \in [Closers -> {"none", "sent", "answered", "refused"}]
    /\ answer \in [Closers -> Answers]
    /\ moved \in [Creds -> BOOLEAN]
    /\ collected \in [Creds -> Amounts]

\* The settling flag is held by exactly one CloseSession call, from its first
\* critical section to its second, on every error path: two calls are never
\* between the two for one session, and none leaves the flag behind.
OneAttempt ==
    \A s \in Sessions :
        /\ settling[s] <=> \E c \in Closers : SessionOf[c] = s /\ pc[c] \in Busy
        /\ \A c, d \in Closers :
              /\ SessionOf[c] = s /\ pc[c] \in Busy
              /\ SessionOf[d] = s /\ pc[d] \in Busy
              => c = d

\* However many times a session is closed, and whatever becomes of the calls, a
\* one-shot credential is put to the authorization server at most once; only a
\* channel's close is driven again ("nothing to re-drive").
OneShotAskedOnce ==
    \A c, d \in Closers :
        /\ SessionOf[c] = SessionOf[d] /\ c # d
        /\ wire[c] # "none" /\ wire[d] # "none"
        => RequiresClose(SessionOf[c])

\* A call that returns nil after settling did collect: the session records the
\* amount the server moved, it covers what the call copied under the lock, and
\* that is everything charged if handlers stop charging when a close starts.
SettledCoversCharges ==
    \A c \in Closers : ret[c] = "settled" =>
        LET s == SessionOf[c] IN
        /\ moved[CredOf[s]] /\ result[s] = collected[CredOf[s]]
        /\ snap[c] <= result[s]
        /\ ~LateCharges => spent[s] <= result[s]

\* A nil return says nothing by itself (a call that finds another one under way
\* returns nil), but the calls together never hide a failure: if the session
\* was charged and closed, no call is under way and none reported an error, the
\* server collected everything charged.
NoSilentLoss ==
    \A s \in Sessions :
        LET calls == {c \in Closers : SessionOf[c] = s} IN
        /\ ~LateCharges /\ spent[s] > 0
        /\ \E c \in calls : pc[c] = "done"
        /\ \A c \in calls : pc[c] \notin Busy /\ ret[c] \notin Failures
        => moved[CredOf[s]] /\ spent[s] <= collected[CredOf[s]]

\* Nobody is settled for more than was signed, and a credential all of whose
\* sessions say what they charged for no more than one of them really did, within
\* the cap the merchant read.  (A settlement that does not say it takes all.)
CollectsNoMoreThanCharged ==
    \A k \in Creds : moved[k] =>
        LET opens == {s \in Sessions : CredOf[s] = k /\ cap[s] # Unopened} IN
        /\ collected[k] <= terms[k].signed
        /\ (\A s \in opens : says[s]) =>
              \E s \in opens :
                  /\ collected[k] <= spent[s]
                  /\ cap[s] = Unlimited \/ collected[k] <= cap[s]

\* A payer who signed for the whole cap is never told it underpaid, even when
\* the answer to a channel's close was lost and a second close finds it already
\* settled, as long as one session spends the credential and stops in time.
HonestPayerNotShort ==
    \A c \in Closers :
        LET s == SessionOf[c] IN
        /\ ~LateCharges /\ cap[s] # Unlimited /\ cap[s] <= terms[CredOf[s]].signed
        /\ \A r \in Sessions : CredOf[r] = CredOf[s] => r = s
        /\ ret[c] = "underpaid"
        => answer[c] = Unparseable

\* Once a session is settled, no later call, charge or late answer reopens it
\* or replaces the recorded result.
SettledIsFinal ==
    [][\A s \in Sessions : settled[s] =>
          settled'[s] /\ ~settling'[s] /\ result'[s] = result[s]]_vars
-------------------------------------------------------------------------------
(***************************************************************************)
(* The session keeps the promise of SettleOnce.                            *)
(***************************************************************************)
Attempts(s) == {c \in Closers : SessionOf[c] = s /\ pc[c] \in Busy}

PhaseOf(s) ==
    IF settled[s]
    THEN IF result[s] = NoResult THEN "failed"
         ELSE IF \E c \in Closers : SessionOf[c] = s /\ ret[c] = "settled"
              THEN "paid" ELSE "short"
    ELSE IF \E c \in Attempts(s) : pc[c] = "posted" THEN "asking"
    ELSE IF Attempts(s) # {} THEN "closing" ELSE "open"

DueOf(s) == IF Attempts(s) = {} THEN 0 ELSE snap[CHOOSE c \in Attempts(s) : TRUE]

Promise == INSTANCE SettleOnce WITH
    channel <- {s \in Sessions : RequiresClose(s)},
    charged <- spent,
    phase <- [s \in Sessions |-> PhaseOf(s)],
    due <- [s \in Sessions |-> DueOf(s)],
    taken <- result

\* Every step of the calls, the handlers and the network is one step of the
\* abstract session or leaves it as it was.
KeepsPromise == Promise!Spec
===============================================================================
