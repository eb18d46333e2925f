----------------------------- MODULE PromiseProofs -----------------------------
(***************************************************************************)
(* A payment session implements SettleOnce, proved for any number of       *)
(* sessions, credentials and closing calls: the initial states map to      *)
(* initial states, and every step to a step or a stutter.                  *)
(***************************************************************************)
EXTENDS PaymentSessionProofs

USE DEF Unparseable, NoResult, opened

\* No result is recorded before the session is settled.
ResultWhenSettled == \A s \in Sessions : ~settled[s] => result[s] = NoResult

PInv == IInv /\ ResultWhenSettled

\* A result comes with its settlement, and stays.
LEMMA ResultStep ==
  ASSUME SessionAssumption, PInv, [Next]_vars
  PROVE  ResultWhenSettled'
  <1> USE SessionAssumption
      DEF SessionAssumption, PInv, ResultWhenSettled, TypeOK, session, network, Return
  <1>0. TypeOK
    BY DEF IInv
  <1>1. ASSUME NEW c \in Closers,
               CloseNoop(c) \/ CloseBegin(c) \/ PostSettle(c) \/ LookupFails(c) \/ SettleFails(c)
        PROVE  ResultWhenSettled'
    BY <1>0, <1>1 DEF CloseNoop, CloseBegin, PostSettle, LookupFails, SettleFails, SettledAfterFailure
  <1>2. ASSUME NEW c \in Closers, SettleAnswered(c) \/ ASSettles(c) \/ ASRefuses(c)
        PROVE  ResultWhenSettled'
    BY <1>0, <1>2 DEF SettleAnswered, ASSettles, ASRefuses
  <1>3. ASSUME NEW s \in Sessions,
               \/ \E limit \in Caps, tells \in BOOLEAN : Open(s, limit, tells)
               \/ \E cost \in Costs : Charge(s, cost)
        PROVE  ResultWhenSettled'
    BY <1>3 DEF Charge, Open
  <1>4. CASE UNCHANGED vars
    BY <1>4 DEF vars
  <1> QED BY <1>1, <1>2, <1>3, <1>4 DEF Next

\* Throughout, a session without a result is not settled by an answer.
LEMMA PInvariant == Spec => []PInv
  <1>1. Init => ResultWhenSettled
    BY DEF Init, ResultWhenSettled
  <1>2. SessionAssumption /\ PInv /\ [Next]_vars => ResultWhenSettled'
    BY ResultStep
  <1>3. Init => PInv
    BY <1>1, SessionAssumption, InvInit DEF PInv
  <1>4. SessionAssumption /\ PInv /\ [Next]_vars => PInv'
    BY <1>2, InvStep DEF PInv
  <1> QED BY <1>3, <1>4, SessionAssumption, PTL DEF Spec
-------------------------------------------------------------------------------
(***************************************************************************)
(* The refinement mapping.                                                 *)
(***************************************************************************)
Due == [s \in Sessions |-> DueOf(s)]
Phase == [s \in Sessions |-> PhaseOf(s)]
Channel == {s \in Sessions : RequiresClose(s)}

\* The one attempt of a session decides its phase and what is due.
LEMMA Attempted ==
  ASSUME PInv, NEW c \in Closers, pc[c] \in Busy, SessionOf[c] \in Sessions
  PROVE  /\ Attempts(SessionOf[c]) = {c} /\ ~settled[SessionOf[c]]
         /\ DueOf(SessionOf[c]) = snap[c]
         /\ PhaseOf(SessionOf[c]) = IF pc[c] = "posted" THEN "asking" ELSE "closing"
  <1>1. Attempts(SessionOf[c]) = {c}
    BY DEF PInv, IInv, OneAttempt, Attempts
  <1>2. ~settled[SessionOf[c]]
    BY DEF PInv, IInv, OneAttempt, AskedThenSettled
  <1>3. DueOf(SessionOf[c]) = snap[c]
    <2>1. (CHOOSE d \in {c} : TRUE) = c
      OBVIOUS
    <2> QED BY <1>1, <2>1 DEF DueOf
  <1> QED BY <1>1, <1>2, <1>3 DEF PhaseOf

\* Without one, nothing is due, and the session is open or has its outcome.
LEMMA AtRest ==
  ASSUME PInv, NEW s \in Sessions, \A c \in Closers : SessionOf[c] = s => pc[c] \notin Busy
  PROVE  /\ DueOf(s) = 0
         /\ PhaseOf(s) =
               IF ~settled[s] THEN "open"
               ELSE IF result[s] = NoResult THEN "failed"
               ELSE IF \E c \in Closers : SessionOf[c] = s /\ ret[c] = "settled"
                    THEN "paid" ELSE "short"
  <1>1. Attempts(s) = {}
    BY DEF Attempts
  <1> QED BY <1>1 DEF DueOf, PhaseOf

\* What no step touches keeps its phase and what is due.
LEMMA Untouched ==
  ASSUME NEW s \in Sessions, settled'[s] = settled[s], result'[s] = result[s],
         \A c \in Closers : SessionOf[c] = s =>
             /\ pc'[c] \in Busy <=> pc[c] \in Busy
             /\ pc'[c] = "posted" <=> pc[c] = "posted"
             /\ pc[c] \in Busy => snap'[c] = snap[c]
             /\ ret'[c] = "settled" <=> ret[c] = "settled"
  PROVE  DueOf(s)' = DueOf(s) /\ PhaseOf(s)' = PhaseOf(s)
  <1>1. Attempts(s)' = Attempts(s)
    BY DEF Attempts
  <1>2. DueOf(s)' = DueOf(s)
    <2>1. Attempts(s) # {} => (CHOOSE c \in Attempts(s) : TRUE) \in Attempts(s)
      OBVIOUS
    <2>2. Attempts(s) # {} => snap'[CHOOSE c \in Attempts(s) : TRUE] = snap[CHOOSE c \in Attempts(s) : TRUE]
      BY <2>1 DEF Attempts
    <2> QED BY <1>1, <2>2 DEF DueOf
  <1>3. (\E c \in Attempts(s) : pc'[c] = "posted") <=> \E c \in Attempts(s) : pc[c] = "posted"
    BY DEF Attempts
  <1>4. (\E c \in Closers : SessionOf[c] = s /\ ret'[c] = "settled")
          <=> \E c \in Closers : SessionOf[c] = s /\ ret[c] = "settled"
    OBVIOUS
  <1> QED BY <1>1, <1>2, <1>3, <1>4 DEF PhaseOf

\* The same of the state a step leads to.
LEMMA AttemptedNext ==
  ASSUME PInv', NEW c \in Closers, pc'[c] \in Busy, SessionOf[c] \in Sessions
  PROVE  /\ DueOf(SessionOf[c])' = snap'[c]
         /\ PhaseOf(SessionOf[c])' = IF pc'[c] = "posted" THEN "asking" ELSE "closing"
  <1>1. Attempts(SessionOf[c])' = {c}
    BY DEF PInv, IInv, OneAttempt, Attempts
  <1>2. ~settled'[SessionOf[c]]
    BY DEF PInv, IInv, OneAttempt, AskedThenSettled
  <1>3. DueOf(SessionOf[c])' = snap'[c]
    <2>1. (CHOOSE d \in {c} : TRUE) = c
      OBVIOUS
    <2> QED BY <1>1, <2>1 DEF DueOf
  <1> QED BY <1>1, <1>2, <1>3 DEF PhaseOf

\* The same of the state a step leads to.
LEMMA AtRestNext ==
  ASSUME NEW s \in Sessions, \A c \in Closers : SessionOf[c] = s => pc'[c] \notin Busy
  PROVE  /\ DueOf(s)' = 0
         /\ PhaseOf(s)' =
               IF ~settled'[s] THEN "open"
               ELSE IF result'[s] = NoResult THEN "failed"
               ELSE IF \E c \in Closers : SessionOf[c] = s /\ ret'[c] = "settled"
                    THEN "paid" ELSE "short"
  <1>1. Attempts(s)' = {}
    BY DEF Attempts
  <1> QED BY <1>1 DEF DueOf, PhaseOf

\* A step of one session changes the phase and the due of that session alone.
LEMMA OthersUntouched ==
  ASSUME SessionAssumption, TypeOK, NEW c \in Closers, NEW s \in Sessions, s # SessionOf[c],
         CloseBegin(c) \/ PostSettle(c) \/ LookupFails(c) \/ SettleFails(c) \/ SettleAnswered(c)
  PROVE  DueOf(s)' = DueOf(s) /\ PhaseOf(s)' = PhaseOf(s)
  <1>1. settled'[s] = settled[s] /\ result'[s] = result[s]
    BY DEF SessionAssumption, TypeOK, CloseBegin, PostSettle, LookupFails, SettleFails,
           SettleAnswered, session
  <1>2. \A d \in Closers : SessionOf[d] = s =>
            pc'[d] = pc[d] /\ snap'[d] = snap[d] /\ ret'[d] = ret[d]
    BY DEF TypeOK, CloseBegin, PostSettle, LookupFails, SettleFails, SettleAnswered, Return
  <1> QED BY <1>1, <1>2, Untouched

\* So the mapped functions change at that session alone.
LEMMA Mapped ==
  ASSUME SessionAssumption, TypeOK, NEW c \in Closers,
         CloseBegin(c) \/ PostSettle(c) \/ LookupFails(c) \/ SettleFails(c) \/ SettleAnswered(c)
  PROVE  /\ Phase' = [Phase EXCEPT ![SessionOf[c]] = PhaseOf(SessionOf[c])']
         /\ Due' = [Due EXCEPT ![SessionOf[c]] = DueOf(SessionOf[c])']
         /\ Phase[SessionOf[c]] = PhaseOf(SessionOf[c]) /\ Due[SessionOf[c]] = DueOf(SessionOf[c])
         /\ Channel' = Channel /\ spent' = spent
         /\ SessionOf[c] \in Channel <=> RequiresClose(SessionOf[c])
  <1>1. SessionOf[c] \in Sessions
    BY DEF SessionAssumption
  <1>2. terms' = terms /\ spent' = spent
    BY DEF CloseBegin, PostSettle, LookupFails, SettleFails, SettleAnswered, session
  <1>3. Channel' = Channel
    BY <1>2 DEF Channel, RequiresClose
  <1>4. Phase' = [Phase EXCEPT ![SessionOf[c]] = PhaseOf(SessionOf[c])']
    BY <1>1, OthersUntouched DEF Phase
  <1>5. Due' = [Due EXCEPT ![SessionOf[c]] = DueOf(SessionOf[c])']
    BY <1>1, OthersUntouched DEF Due
  <1> QED BY <1>1, <1>2, <1>3, <1>4, <1>5 DEF Phase, Due, Channel

\* Every step of the session is a step of SettleOnce, or leaves it as it was.
LEMMA PromiseStep ==
  ASSUME SessionAssumption, PInv, PInv', [Next]_vars
  PROVE  [Promise!Next]_(Promise!vars)
  <1> USE SessionAssumption DEF SessionAssumption
  <1>0. TypeOK /\ CallState /\ OneAttempt /\ SettledFor
    BY DEF PInv, IInv
  <1>1. ASSUME NEW s \in Sessions, NEW cost \in Costs, Charge(s, cost)
        PROVE  Promise!Charge(s)
    <2>1. Channel' = Channel /\ result' = result
      BY <1>1 DEF Charge, Channel, RequiresClose
    <2>2. \A r \in Sessions : DueOf(r)' = DueOf(r) /\ PhaseOf(r)' = PhaseOf(r)
      BY <1>1, Untouched DEF Charge, closing
    <2>3. Due' = Due /\ Phase' = Phase
      BY <2>2 DEF Due, Phase
    <2>4. spent' = [spent EXCEPT ![s] = spent'[s]] /\ spent'[s] > spent[s]
      BY <1>0, <1>1 DEF Charge, TypeOK, Amounts
    <2> QED BY <2>1, <2>3, <2>4 DEF Promise!Charge, Channel, Due, Phase
  <1>2. ASSUME NEW c \in Closers, CloseNoop(c) \/ ASSettles(c) \/ ASRefuses(c)
        PROVE  UNCHANGED Promise!vars
    <2>1. terms' = terms /\ spent' = spent /\ result' = result /\ settled' = settled /\ snap' = snap
      BY <1>2 DEF CloseNoop, ASSettles, ASRefuses, Return, session, closing
    <2>2. \A d \in Closers :
              /\ pc'[d] \in Busy <=> pc[d] \in Busy
              /\ pc'[d] = "posted" <=> pc[d] = "posted"
              /\ ret'[d] = "settled" <=> ret[d] = "settled"
      BY <1>0, <1>2 DEF CloseNoop, ASSettles, ASRefuses, Return, closing, TypeOK, CallState, Busy
    <2>3. \A s \in Sessions : DueOf(s)' = DueOf(s) /\ PhaseOf(s)' = PhaseOf(s)
      BY <2>1, <2>2, Untouched
    <2>4. Due' = Due /\ Phase' = Phase
      BY <2>3 DEF Due, Phase
    <2>5. Channel' = Channel
      BY <2>1 DEF Channel, RequiresClose
    <2> QED BY <2>1, <2>4, <2>5 DEF Promise!vars, Due, Phase, Channel
  <1>3. ASSUME NEW c \in Closers, CloseBegin(c)
        PROVE  Promise!Begin(SessionOf[c])
    <2> DEFINE s == SessionOf[c]
    <2>1. \A d \in Closers : SessionOf[d] = s => pc[d] \notin Busy
      BY <1>0, <1>3 DEF CloseBegin, Taken, OneAttempt
    <2>2. PhaseOf(s) = "open"
      BY <1>3, <2>1, AtRest DEF CloseBegin, Taken
    <2>3. pc'[c] = "lookup" /\ snap'[c] = spent[s] /\ result' = result
      BY <1>0, <1>3 DEF CloseBegin, TypeOK
    <2>4. DueOf(s)' = spent[s] /\ PhaseOf(s)' = "closing"
      BY <2>3, AttemptedNext DEF Busy
    <2>5. spent[s] > 0 \/ RequiresClose(s)
      BY <1>0, <1>3 DEF CloseBegin, NothingDue, TypeOK, Amounts
    <2> QED BY <1>0, <1>3, <2>2, <2>3, <2>4, <2>5, Mapped DEF Promise!Begin, Phase, Due, Channel
  <1>4. ASSUME NEW c \in Closers, PostSettle(c)
        PROVE  Promise!Ask(SessionOf[c])
    <2> DEFINE s == SessionOf[c]
    <2>1. /\ pc[c] = "lookup" /\ pc'[c] = "posted" /\ snap'[c] = snap[c] /\ result' = result
      BY <1>0, <1>4 DEF PostSettle, TypeOK, session
    <2>2. PhaseOf(s) = "closing" /\ DueOf(s) = snap[c]
      BY <2>1, Attempted DEF Busy
    <2>3. PhaseOf(s)' = "asking" /\ DueOf(s)' = DueOf(s)
      BY <2>1, <2>2, AttemptedNext DEF Busy
    <2>4. Due' = Due
      BY <1>0, <1>4, <2>3, Mapped DEF Due
    <2> QED BY <1>0, <1>4, <2>1, <2>2, <2>3, <2>4, Mapped DEF Promise!Ask, Phase, Due, Channel
  <1>5. ASSUME NEW c \in Closers, LookupFails(c) \/ SettleFails(c) \/ SettleAnswered(c)
        PROVE  /\ PhaseOf(SessionOf[c]) = IF pc[c] = "posted" THEN "asking" ELSE "closing"
               /\ DueOf(SessionOf[c]) = snap[c] /\ DueOf(SessionOf[c])' = 0
               /\ result[SessionOf[c]] = NoResult /\ ~settled[SessionOf[c]]
               /\ PhaseOf(SessionOf[c])' =
                     IF ~settled'[SessionOf[c]] THEN "open"
                     ELSE IF result'[SessionOf[c]] = NoResult THEN "failed"
                     ELSE IF ret'[c] = "settled" THEN "paid" ELSE "short"
    <2> DEFINE s == SessionOf[c]
    <2>1. pc[c] \in Busy
      BY <1>5 DEF LookupFails, SettleFails, SettleAnswered, Busy
    <2>2. ~settled[s] /\ result[s] = NoResult
      BY <2>1, Attempted DEF PInv, ResultWhenSettled
    <2>3. \A d \in Closers : SessionOf[d] = s => d = c \/ pc[d] \notin Busy
      BY <1>0, <2>1 DEF OneAttempt
    <2>4. \A d \in Closers : SessionOf[d] = s => pc'[d] \notin Busy
      BY <1>0, <1>5, <2>3 DEF LookupFails, SettleFails, SettleAnswered, Return, TypeOK, Busy
    <2>5. \A d \in Closers : SessionOf[d] = s /\ d # c => ret'[d] # "settled"
      BY <1>0, <1>5, <2>2 DEF LookupFails, SettleFails, SettleAnswered, Return, TypeOK, SettledFor
    <2>6. (\E d \in Closers : SessionOf[d] = s /\ ret'[d] = "settled") <=> ret'[c] = "settled"
      BY <2>5
    <2> QED BY <2>1, <2>2, <2>4, <2>6, Attempted, AtRestNext
  <1>6. ASSUME NEW c \in Closers, LookupFails(c)
        PROVE  Promise!Withdraw(SessionOf[c])
    <2> DEFINE s == SessionOf[c]
    <2>1. pc[c] = "lookup" /\ settled' = settled /\ result' = result
      BY <1>6 DEF LookupFails
    <2>2. PhaseOf(s) = "closing" /\ PhaseOf(s)' = "open" /\ DueOf(s)' = 0
      BY <1>5, <1>6, <2>1
    <2> QED BY <1>0, <1>6, <2>1, <2>2, Mapped DEF Promise!Withdraw, Phase, Due, Channel
  <1>7. ASSUME NEW c \in Closers, SettleFails(c)
        PROVE  Promise!Withdraw(SessionOf[c]) \/ Promise!Fail(SessionOf[c])
    <2> DEFINE s == SessionOf[c]
    <2>1. settled'[s] = (settled[s] \/ ~RequiresClose(s)) /\ result' = result
      BY <1>0, <1>7 DEF SettleFails, SettledAfterFailure, TypeOK
    <2>2. PhaseOf(s) \in {"closing", "asking"} /\ DueOf(s)' = 0
      BY <1>5, <1>7
    <2>3. PhaseOf(s)' = IF RequiresClose(s) THEN "open" ELSE "failed"
      BY <1>5, <1>7, <2>1
    <2>4. CASE RequiresClose(s)
      BY <1>0, <1>7, <2>1, <2>2, <2>3, <2>4, Mapped DEF Promise!Withdraw, Phase, Due, Channel
    <2>5. CASE ~RequiresClose(s)
      BY <1>0, <1>7, <2>1, <2>2, <2>3, <2>5, Mapped DEF Promise!Fail, Phase, Due, Channel
    <2> QED BY <2>4, <2>5
  <1>8. ASSUME NEW c \in Closers, SettleAnswered(c)
        PROVE  Promise!Collect(SessionOf[c])
    <2> DEFINE s == SessionOf[c]
    <2>1. /\ pc[c] = "posted" /\ settled'[s] /\ result' = [result EXCEPT ![s] = answer[c]]
          /\ ret'[c] = IF Covers(answer[c], snap[c]) THEN "settled" ELSE "underpaid"
      BY <1>0, <1>8 DEF SettleAnswered, Return, TypeOK
    <2>2. result'[s] = answer[c] /\ answer[c] \in Answers /\ snap[c] \in Amounts
      BY <1>0, <2>1 DEF TypeOK
    <2>3. Covers(answer[c], snap[c]) <=> result'[s] >= snap[c]
      BY <2>2 DEF Covers, Answers, Amounts
    <2>4. result'[s] # NoResult
      BY <2>2 DEF Answers, Amounts
    <2>5. PhaseOf(s) = "asking" /\ DueOf(s) = snap[c] /\ DueOf(s)' = 0
      BY <1>5, <1>8, <2>1
    <2>6. PhaseOf(s)' = IF result'[s] >= DueOf(s) THEN "paid" ELSE "short"
      BY <1>5, <1>8, <2>1, <2>3, <2>4, <2>5
    <2>7. result' = [result EXCEPT ![s] = result'[s]]
      BY <2>1, <2>2
    <2> QED BY <1>0, <1>8, <2>5, <2>6, <2>7, Mapped DEF Promise!Collect, Phase, Due, Channel
  <1>a. ASSUME NEW s \in Sessions, NEW limit \in Caps, NEW tells \in BOOLEAN, Open(s, limit, tells)
        PROVE  UNCHANGED Promise!vars
    <2>1. UNCHANGED <<Due, Phase, Channel, spent, result>>
      BY <1>a DEF Open, session, closing, Due, Phase, Channel, DueOf, PhaseOf, Attempts, RequiresClose
    <2> QED BY <2>1 DEF Promise!vars, Due, Phase, Channel
  <1>9. CASE UNCHANGED vars
    <2>1. UNCHANGED <<Due, Phase, Channel, spent, result>>
      BY <1>9 DEF vars, session, closing, Due, Phase, Channel, DueOf, PhaseOf, Attempts, RequiresClose
    <2> QED BY <2>1 DEF Promise!vars, Due, Phase, Channel
  <1>10. ASSUME NEW c \in Closers PROVE SessionOf[c] \in Sessions
    OBVIOUS
  <1> QED
    BY <1>a, <1>1, <1>2, <1>3, <1>4, <1>6, <1>7, <1>8, <1>9, <1>10 DEF Next, Promise!Next
-------------------------------------------------------------------------------
\* A session that is not opened yet is one whose outcome is undecided.
LEMMA PromiseInit == SessionAssumption /\ Init => Promise!Init
  <1> SUFFICES ASSUME SessionAssumption, Init PROVE Promise!Init
    OBVIOUS
  <1>1. \A s \in Sessions : Attempts(s) = {} /\ ~settled[s]
    BY DEF Init, Attempts, Busy
  <1>2. Phase = [s \in Sessions |-> "open"] /\ Due = [s \in Sessions |-> 0]
    BY <1>1 DEF Phase, Due, PhaseOf, DueOf
  <1>3. spent = [s \in Sessions |-> 0] /\ result \in [Sessions -> Int]
    BY DEF Init
  <1> QED BY <1>2, <1>3 DEF Promise!Init, Phase, Due

\* The session keeps the promise of SettleOnce: charges accumulate, and one
\* attempt at a time decides the outcome, for what was charged when it began.
THEOREM KeepsPromiseHolds == Spec => KeepsPromise
  <1>1. SessionAssumption /\ Init => Promise!Init
    BY PromiseInit
  <1>2. SessionAssumption /\ PInv /\ PInv' /\ [Next]_vars => [Promise!Next]_(Promise!vars)
    BY PromiseStep
  <1> QED BY <1>1, <1>2, SessionAssumption, PInvariant, PTL DEF Spec, KeepsPromise, Promise!Spec
===============================================================================
