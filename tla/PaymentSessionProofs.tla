------------------------- MODULE PaymentSessionProofs -------------------------
(***************************************************************************)
(* Proofs about PaymentSession, for every set of sessions, credentials and *)
(* calls.                                                                  *)
(***************************************************************************)
EXTENDS PaymentSession, TLAPS

USE DEF Unparseable, NoResult, Unlimited, Unopened, opened

\* What the ledger moves is an amount, whatever it is asked for.
LEMMA MovesAmount ==
    ASSUME SessionAssumption, TypeOK, NEW s \in Sessions, NEW due \in Amounts
    PROVE  Moves(s, due) \in Amounts
  BY DEF SessionAssumption, TypeOK, Terms, Moves, Amounts

\* Types are kept by every handler, call and network step of the session.
LEMMA TypeStep ==
    ASSUME SessionAssumption, TypeOK, [Next]_vars
    PROVE  TypeOK'
  <1> USE SessionAssumption DEF TypeOK, Amounts, Answers, Busy, Failures
  <1>0. ASSUME NEW s \in Sessions, NEW limit \in Caps, NEW tells \in BOOLEAN, Open(s, limit, tells)
        PROVE  TypeOK'
    BY <1>0 DEF Open, session, closing, network
  <1>1. ASSUME NEW s \in Sessions, NEW cost \in Costs, Charge(s, cost)
        PROVE  TypeOK'
    BY <1>1 DEF Charge, SessionAssumption, closing, network
  <1>2. ASSUME NEW c \in Closers, CloseNoop(c)
        PROVE  TypeOK'
    BY <1>2 DEF CloseNoop, Return, session, network
  <1>3. ASSUME NEW c \in Closers, CloseBegin(c)
        PROVE  TypeOK'
    BY <1>3 DEF CloseBegin, SessionAssumption, network
  <1>4. ASSUME NEW c \in Closers, PostSettle(c)
        PROVE  TypeOK'
    BY <1>4 DEF PostSettle, session
  <1>5. ASSUME NEW c \in Closers, LookupFails(c)
        PROVE  TypeOK'
    BY <1>5 DEF LookupFails, Return, network
  <1>6. ASSUME NEW c \in Closers, SettleFails(c)
        PROVE  TypeOK'
    BY <1>6 DEF SettleFails, SettledAfterFailure, RequiresClose, Return,
                SessionAssumption, network
  <1>7. ASSUME NEW c \in Closers, SettleAnswered(c)
        PROVE  TypeOK'
    BY <1>7 DEF SettleAnswered, Return, SessionAssumption, network
  <1>8. ASSUME NEW c \in Closers, ASSettles(c)
        PROVE  TypeOK'
    <2> DEFINE k == CredOf[SessionOf[c]]
    <2>1. k \in Creds
      BY DEF SessionAssumption
    <2>2. Moves(SessionOf[c], snap[c]) \in Amounts
      BY MovesAmount DEF SessionAssumption
    <2>3. collected' \in [Creds -> Amounts] /\ collected'[k] \in Amounts
      BY <1>8, <2>1, <2>2 DEF ASSettles
    <2>4. answer' \in [Closers -> Answers]
      BY <1>8, <2>3 DEF ASSettles
    <2> QED
      BY <1>8, <2>3, <2>4 DEF ASSettles, session, closing
  <1>9. ASSUME NEW c \in Closers, ASRefuses(c)
        PROVE  TypeOK'
    BY <1>9 DEF ASRefuses, session, closing
  <1>10. CASE UNCHANGED vars
    BY <1>10 DEF vars, session, closing, network
  <1> QED
    BY <1>0, <1>1, <1>2, <1>3, <1>4, <1>5, <1>6, <1>7, <1>8, <1>9, <1>10 DEF Next

\* Before any session is charged every variable has its type.
LEMMA TypeInit ==
    ASSUME SessionAssumption, Init
    PROVE  TypeOK
  BY DEF SessionAssumption, Init, TypeOK, Amounts, Answers, Busy, Failures

\* TypeOK holds throughout: no path through CloseSession leaves a field or a
\* call in a state its type does not have.
THEOREM TypeCorrect == Spec => []TypeOK
  <1>1. Init => TypeOK
    BY SessionAssumption, TypeInit
  <1>2. TypeOK /\ [Next]_vars => TypeOK'
    BY SessionAssumption, TypeStep
  <1> QED
    BY <1>1, <1>2, PTL DEF Spec
-------------------------------------------------------------------------------
(***************************************************************************)
(* The invariant the safety properties follow from.                        *)
(***************************************************************************)

\* What the position of a call says of its request and its return value.
CallState ==
    \A c \in Closers :
        /\ pc[c] = "posted" => wire[c] # "none"
        /\ wire[c] # "none" => pc[c] \in {"posted", "done"}
        /\ ret[c] # "none" => pc[c] = "done"

\* A settled session is at rest, and a one-shot that was asked is settled or
\* still being asked.
AskedThenSettled ==
    /\ \A s \in Sessions : settled[s] => ~settling[s]
    /\ \A c \in Closers :
          wire[c] # "none" /\ ~RequiresClose(SessionOf[c]) =>
              settled[SessionOf[c]] \/ pc[c] = "posted"

\* An answer reports what the ledger holds.
AnswerFromLedger ==
    \A c \in Closers : wire[c] = "answered" =>
        LET k == CredOf[SessionOf[c]]
        IN  moved[k] /\ answer[c] \in {collected[k], Unparseable}

\* A call that returned "settled" left its session settled for what it copied,
\* and without late charges what a call copied is still all that was charged.
SettledFor ==
    \A c \in Closers :
        LET s == SessionOf[c] IN
        /\ ret[c] = "settled" =>
              /\ settled[s] /\ moved[CredOf[s]]
              /\ result[s] = collected[CredOf[s]] /\ snap[c] <= result[s]
        /\ ~LateCharges /\ (pc[c] \in Busy \/ ret[c] = "settled") => snap[c] = spent[s]

IInv ==
    /\ TypeOK /\ OneAttempt /\ CallState /\ AskedThenSettled /\ OneShotAskedOnce
    /\ AnswerFromLedger /\ SettledFor

\* Each step of the system keeps IInv.
LEMMA InvStep ==
    ASSUME SessionAssumption, IInv, [Next]_vars
    PROVE  IInv'
  <1> USE SessionAssumption DEF SessionAssumption, Busy, RequiresClose
  <1>0. TypeOK /\ TypeOK'
    BY TypeStep DEF IInv
  \* Nothing was asked of a session that was not opened.
  <1>a. ASSUME NEW s \in Sessions, NEW limit \in Caps, NEW tells \in BOOLEAN, Open(s, limit, tells)
        PROVE  IInv'
    BY <1>0, <1>a DEF IInv, Open, OneAttempt, CallState, AskedThenSettled, OneShotAskedOnce,
                      AnswerFromLedger, SettledFor, session, closing, network
  \* A charge changes spent alone, and not once a call of the session has begun.
  <1>1. ASSUME NEW s \in Sessions, NEW cost \in Costs, Charge(s, cost)
        PROVE  IInv'
    <2>1. OneAttempt' /\ CallState' /\ AskedThenSettled' /\ AnswerFromLedger'
      BY <1>1 DEF IInv, Charge, OneAttempt, CallState, AskedThenSettled,
                  AnswerFromLedger, closing, network
    <2>2. SettledFor'
      BY <1>0, <1>1 DEF IInv, TypeOK, CallState, SettledFor, Charge, InScope,
                        closing, network
    <2>3. OneShotAskedOnce'
      BY <1>1 DEF IInv, OneShotAskedOnce, Charge, network
    <2> QED
      BY <1>0, <2>1, <2>2, <2>3 DEF IInv
  <1>2. ASSUME NEW c \in Closers, CloseNoop(c)
        PROVE  IInv'
    <2>1. /\ \A d \in Closers : pc'[d] \in Busy <=> pc[d] \in Busy
          /\ settling' = settling
      BY <1>0, <1>2 DEF TypeOK, CloseNoop, Return, session
    <2>2. OneAttempt'
      BY <2>1 DEF IInv, OneAttempt
    <2>3. CallState'
      BY <1>0, <1>2 DEF IInv, TypeOK, CallState, CloseNoop, Return, network
    <2>4. AskedThenSettled' /\ AnswerFromLedger' /\ SettledFor'
      BY <1>0, <1>2 DEF IInv, TypeOK, AskedThenSettled, AnswerFromLedger, SettledFor,
                        CallState, CloseNoop, Return, session, network
    <2>5. OneShotAskedOnce'
      BY <1>2 DEF IInv, OneShotAskedOnce, CloseNoop, network
    <2> QED
      BY <1>0, <2>2, <2>3, <2>4, <2>5 DEF IInv
  \* The call that takes the flag finds it free: no other call is busy.
  <1>3. ASSUME NEW c \in Closers, CloseBegin(c)
        PROVE  IInv'
    <2>1. OneAttempt'
      BY <1>0, <1>3 DEF IInv, TypeOK, OneAttempt, CloseBegin, Taken
    <2>2. CallState' /\ AnswerFromLedger'
      BY <1>0, <1>3 DEF IInv, TypeOK, CallState, AnswerFromLedger, CloseBegin, network
    <2>3. AskedThenSettled' /\ SettledFor'
      BY <1>0, <1>3 DEF IInv, TypeOK, CallState, AskedThenSettled, SettledFor,
                        CloseBegin, Taken, network
    <2>4. OneShotAskedOnce'
      BY <1>3 DEF IInv, OneShotAskedOnce, CloseBegin, network
    <2> QED
      BY <1>0, <2>1, <2>2, <2>3, <2>4 DEF IInv
  \* Another call that asked for the same one-shot would have settled it, or be
  \* busy beside this one.
  <1>4. ASSUME NEW c \in Closers, PostSettle(c)
        PROVE  IInv'
    <2>1. OneAttempt' /\ CallState'
      BY <1>0, <1>4 DEF IInv, TypeOK, OneAttempt, CallState, PostSettle, session
    <2>2. ASSUME NEW d \in Closers, SessionOf[d] = SessionOf[c], d # c,
                 ~RequiresClose(SessionOf[c])
          PROVE  wire[d] = "none"
      BY <1>4, <2>2 DEF IInv, OneAttempt, AskedThenSettled, PostSettle
    <2>3. OneShotAskedOnce'
      BY <1>0, <1>4, <2>2 DEF IInv, TypeOK, OneShotAskedOnce, PostSettle
    <2>4. AskedThenSettled' /\ AnswerFromLedger' /\ SettledFor'
      BY <1>0, <1>4 DEF IInv, TypeOK, AskedThenSettled, AnswerFromLedger, SettledFor,
                        CallState, PostSettle, session
    <2> QED
      BY <1>0, <2>1, <2>3, <2>4 DEF IInv
  \* A call that ends releases the flag, and was the only one to hold it.
  <1>5. ASSUME NEW c \in Closers, LookupFails(c)
        PROVE  IInv'
    <2>1. OneAttempt' /\ CallState'
      BY <1>0, <1>5 DEF IInv, TypeOK, OneAttempt, CallState, LookupFails, Return, network
    <2>2. AskedThenSettled' /\ AnswerFromLedger' /\ SettledFor'
      BY <1>0, <1>5 DEF IInv, TypeOK, AskedThenSettled, AnswerFromLedger, SettledFor,
                        CallState, LookupFails, Return, network
    <2>3. OneShotAskedOnce'
      BY <1>5 DEF IInv, OneShotAskedOnce, LookupFails, network
    <2> QED
      BY <1>0, <2>1, <2>2, <2>3 DEF IInv
  <1>6. ASSUME NEW c \in Closers, SettleFails(c)
        PROVE  IInv'
    <2>1. OneAttempt' /\ CallState'
      BY <1>0, <1>6 DEF IInv, TypeOK, OneAttempt, CallState, SettleFails, Return, network
    <2>2. AskedThenSettled'
      BY <1>0, <1>6 DEF IInv, TypeOK, OneAttempt, AskedThenSettled, CallState,
                        SettleFails, SettledAfterFailure, Return, network
    <2>3. AnswerFromLedger' /\ SettledFor'
      BY <1>0, <1>6 DEF IInv, TypeOK, AnswerFromLedger, SettledFor, SettleFails,
                        SettledAfterFailure, Return, network
    <2>4. OneShotAskedOnce'
      BY <1>6 DEF IInv, OneShotAskedOnce, SettleFails, network
    <2> QED
      BY <1>0, <2>1, <2>2, <2>3, <2>4 DEF IInv
  \* The result is written by the one call under way, before any call of the
  \* session has returned "settled".
  <1>7. ASSUME NEW c \in Closers, SettleAnswered(c)
        PROVE  IInv'
    <2>1. OneAttempt' /\ CallState'
      BY <1>0, <1>7 DEF IInv, TypeOK, OneAttempt, CallState, SettleAnswered, Return, network
    <2>2. AskedThenSettled' /\ AnswerFromLedger'
      BY <1>0, <1>7 DEF IInv, TypeOK, OneAttempt, AskedThenSettled, AnswerFromLedger,
                        SettleAnswered, Return, network
    <2>3. ~settled[SessionOf[c]]
      BY <1>7 DEF IInv, OneAttempt, AskedThenSettled, SettleAnswered
    <2>4. SettledFor'
      BY <1>0, <1>7, <2>3 DEF IInv, TypeOK, AnswerFromLedger, SettledFor, SettleAnswered,
                              Covers, Return, network
    <2>5. OneShotAskedOnce'
      BY <1>7 DEF IInv, OneShotAskedOnce, SettleAnswered, network
    <2> QED
      BY <1>0, <2>1, <2>2, <2>4, <2>5 DEF IInv
  \* The ledger settles a credential once: what was answered stays true.
  <1>8. ASSUME NEW c \in Closers, ASSettles(c)
        PROVE  IInv'
    <2>1. OneAttempt' /\ CallState' /\ AskedThenSettled'
      BY <1>0, <1>8 DEF IInv, TypeOK, OneAttempt, CallState, AskedThenSettled,
                        ASSettles, session, closing
    <2>2. AnswerFromLedger' /\ SettledFor'
      BY <1>0, <1>8 DEF IInv, TypeOK, AnswerFromLedger, SettledFor, ASSettles,
                        session, closing
    <2>3. OneShotAskedOnce'
      BY <1>0, <1>8 DEF IInv, TypeOK, OneShotAskedOnce, ASSettles
    <2> QED
      BY <1>0, <2>1, <2>2, <2>3 DEF IInv
  <1>9. ASSUME NEW c \in Closers, ASRefuses(c)
        PROVE  IInv'
    <2>1. OneAttempt' /\ CallState' /\ AskedThenSettled'
      BY <1>0, <1>9 DEF IInv, TypeOK, OneAttempt, CallState, AskedThenSettled,
                        ASRefuses, session, closing
    <2>2. AnswerFromLedger' /\ SettledFor'
      BY <1>0, <1>9 DEF IInv, TypeOK, AnswerFromLedger, SettledFor, ASRefuses,
                        session, closing
    <2>3. OneShotAskedOnce'
      BY <1>0, <1>9 DEF IInv, TypeOK, OneShotAskedOnce, ASRefuses
    <2> QED
      BY <1>0, <2>1, <2>2, <2>3 DEF IInv
  <1>10. CASE UNCHANGED vars
    BY <1>0, <1>10 DEF IInv, OneAttempt, CallState, AskedThenSettled, OneShotAskedOnce,
                       AnswerFromLedger, SettledFor, vars, session, closing, network
  <1> QED
    BY <1>a, <1>1, <1>2, <1>3, <1>4, <1>5, <1>6, <1>7, <1>8, <1>9, <1>10 DEF Next

\* IInv holds of sessions that were just opened.
LEMMA InvInit ==
    ASSUME SessionAssumption, Init
    PROVE  IInv
  BY TypeInit DEF SessionAssumption, Init, IInv, OneAttempt, CallState, AskedThenSettled,
                  OneShotAskedOnce, AnswerFromLedger, SettledFor, Busy

\* IInv holds throughout.
THEOREM Invariant == Spec => []IInv
  <1>1. Init => IInv
    BY SessionAssumption, InvInit
  <1>2. IInv /\ [Next]_vars => IInv'
    BY SessionAssumption, InvStep
  <1> QED
    BY <1>1, <1>2, PTL DEF Spec
-------------------------------------------------------------------------------
\* The settling flag works as a lock: two CloseSession calls are never between
\* their critical sections for one session, and no path leaks the flag.
THEOREM OneAttemptHolds == Spec => []OneAttempt
  <1>1. IInv => OneAttempt
    BY DEF IInv
  <1> QED
    BY <1>1, Invariant, PTL

\* A one-shot credential is put to the authorization server at most once, for
\* any number of closes, failures, lost answers and late deliveries.
THEOREM OneShotAskedOnceHolds == Spec => []OneShotAskedOnce
  <1>1. IInv => OneShotAskedOnce
    BY DEF IInv
  <1> QED
    BY <1>1, Invariant, PTL

\* A CloseSession call that returns nil after settling collected at least what
\* it copied under the lock, and everything charged if charging stops in time.
THEOREM SettledCoversChargesHolds == Spec => []SettledCoversCharges
  <1>1. IInv => SettledCoversCharges
    BY DEF IInv, SettledFor, SettledCoversCharges
  <1> QED
    BY <1>1, Invariant, PTL

\* A settled session stays settled with the result it has: no second close,
\* retry or late answer reopens it.
THEOREM SettledIsFinalHolds == Spec => SettledIsFinal
  <1> DEFINE Final(s) == settled[s] => settled'[s] /\ ~settling'[s] /\ result'[s] = result[s]
  <1>1. ASSUME SessionAssumption, IInv, Next, NEW s \in Sessions, settled[s]
        PROVE  settled'[s] /\ ~settling'[s] /\ result'[s] = result[s]
    <2> USE <1>1 DEF SessionAssumption, Busy
    <2>1. ~settling[s] /\ \A c \in Closers : SessionOf[c] = s => pc[c] \notin Busy
      BY DEF IInv, OneAttempt, AskedThenSettled
    <2>2. ASSUME NEW r \in Sessions,
                 \/ \E limit \in Caps, tells \in BOOLEAN : Open(r, limit, tells)
                 \/ \E cost \in Costs : Charge(r, cost)
          PROVE  UNCHANGED <<settled, settling, result>>
      BY <2>2 DEF Charge, Open, session
    <2>3. ASSUME NEW c \in Closers, CloseBegin(c)
          PROVE  SessionOf[c] # s
      BY <2>3 DEF CloseBegin, Taken
    <2>4. ASSUME NEW c \in Closers,
                 LookupFails(c) \/ SettleFails(c) \/ SettleAnswered(c)
          PROVE  SessionOf[c] # s
      BY <2>1, <2>4 DEF LookupFails, SettleFails, SettleAnswered
    <2>5. ASSUME NEW c \in Closers,
                 CloseNoop(c) \/ PostSettle(c) \/ ASSettles(c) \/ ASRefuses(c)
          PROVE  UNCHANGED <<settled, settling, result>>
      BY <2>5 DEF CloseNoop, PostSettle, ASSettles, ASRefuses, session
    <2> QED
      BY <2>1, <2>2, <2>3, <2>4, <2>5
         DEF Next, IInv, TypeOK, CloseBegin, LookupFails, SettleFails, SettleAnswered
  <1>2. SessionAssumption /\ IInv /\ [Next]_vars => [\A s \in Sessions : Final(s)]_vars
    BY <1>1
  <1> QED
    BY <1>2, SessionAssumption, Invariant, PTL DEF Spec, SettledIsFinal
===============================================================================
