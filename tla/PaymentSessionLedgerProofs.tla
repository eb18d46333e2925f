---------------------- MODULE PaymentSessionLedgerProofs ----------------------
(***************************************************************************)
(* What a payment session collects against what its handlers charged,      *)
(* proved for any number of sessions, credentials and closing calls.       *)
(***************************************************************************)
EXTENDS PaymentSessionProofs

USE DEF Unlimited, Unopened, opened

\* What a session spends stays within the cap the merchant read, a call copied no
\* more than was spent, and only an opened session is closed.
WithinLimits ==
    /\ \A s \in Sessions :
          \/ cap[s] = Unlimited
          \/ cap[s] = Unopened /\ spent[s] = 0
          \/ spent[s] <= cap[s]
    /\ \A c \in Closers : snap[c] <= spent[SessionOf[c]]
    /\ \A c \in Closers : pc[c] # "idle" => cap[SessionOf[c]] # Unopened

\* When handlers stop charging in time, what a call copied is still everything.
Frozen ==
    ~LateCharges =>
        \A c \in Closers :
            pc[c] \in Busy \/ wire[c] # "none" => snap[c] = spent[SessionOf[c]]

\* A call that took the session decided, or is about to.
Decides(c, s) ==
    SessionOf[c] = s /\ (pc[c] \in Busy \/ ret[c] \in Failures \cup {"settled"})

\* A session is settled by a call that says so, and a call that had nothing to do
\* found another call, or nothing charged.
Explained ==
    /\ \A c \in Closers : pc[c] = "done" => ret[c] # "none"
    /\ \A s \in Sessions : settled[s] => \E c \in Closers : Decides(c, s)
    /\ \A c \in Closers : ret[c] = "noop" =>
          \/ \E d \in Closers : Decides(d, SessionOf[c])
          \/ ~LateCharges => spent[SessionOf[c]] = 0

\* The credential is spent by one session, whose payer signed for the whole cap.
Honest(s) ==
    /\ ~LateCharges /\ cap[s] # Unlimited /\ cap[s] <= terms[CredOf[s]].signed
    /\ \A r \in Sessions : CredOf[r] = CredOf[s] => r = s

\* The ledger then holds everything the session spent.
CollectsAll ==
    \A s \in Sessions :
        Honest(s) /\ moved[CredOf[s]] => spent[s] <= collected[CredOf[s]]

\* The server settles a credential for a call.
MovedForCall ==
    \A k \in Creds : moved[k] =>
        \E c \in Closers : CredOf[SessionOf[c]] = k /\ wire[c] = "answered"

ShortOnlyIfUnread ==
    \A c \in Closers : ret[c] = "underpaid" =>
        /\ wire[c] = "answered"
        /\ Honest(SessionOf[c]) => answer[c] = Unparseable

LInv ==
    /\ IInv /\ WithinLimits /\ Frozen /\ Explained /\ CollectsNoMoreThanCharged
    /\ MovedForCall /\ CollectsAll /\ ShortOnlyIfUnread
-------------------------------------------------------------------------------
\* What a credential is signed for is an amount, and a cap is a number.
LEMMA TermsAmounts ==
  ASSUME SessionAssumption, TypeOK
  PROVE  /\ \A k \in Creds : terms[k].signed \in Amounts
         /\ \A s \in Sessions : cap[s] \in Int
  <1>1. \A k \in Creds : terms[k].signed \in Authorized
    BY DEF TypeOK, Terms
  <1>2. \A s \in Sessions : cap[s] \in Authorized \/ cap[s] \in {0, Unlimited, Unopened}
    BY DEF TypeOK, Caps
  <1>3. \A a \in Authorized : a \in Amounts /\ a \in Int
    BY DEF SessionAssumption, Amounts
  <1>4. \A s \in Sessions : cap[s] \in Int
    <2>1. \A s \in Sessions : cap[s] \in {0, -1, -2} => cap[s] \in Int
      OBVIOUS
    <2> QED BY <1>2, <1>3, <2>1 DEF Unlimited, Unopened
  <1> QED BY <1>1, <1>3, <1>4

\* All of it holds of sessions that are not opened yet.
LEMMA LedgerInit == SessionAssumption /\ Init => LInv
  <1> SUFFICES ASSUME SessionAssumption, Init PROVE LInv
    OBVIOUS
  <1>1. IInv
    BY InvInit
  <1>2. WithinLimits
    BY DEF Init, SessionAssumption, WithinLimits
  <1>3. Frozen /\ Explained /\ CollectsNoMoreThanCharged /\ MovedForCall /\ CollectsAll
        /\ ShortOnlyIfUnread
    BY DEF Init, SessionAssumption, Frozen, Explained, CollectsNoMoreThanCharged,
           MovedForCall, CollectsAll, ShortOnlyIfUnread, Busy
  <1> QED BY <1>1, <1>2, <1>3 DEF LInv

\* Credentials keep their terms; only opening a session sets its cap, only a charge
\* changes what is spent, only a beginning call copies it, and only the server
\* changes the ledger.
LEMMA LedgerFrame ==
  ASSUME [Next]_vars
  PROVE  /\ terms' = terms
         /\ \/ UNCHANGED <<cap, says>>
            \/ /\ \E s \in Sessions, limit \in Caps, tells \in BOOLEAN : Open(s, limit, tells)
               /\ UNCHANGED <<session, closing, network>>
         /\ spent' = spent \/ \E s \in Sessions, cost \in Costs : Charge(s, cost)
         /\ snap' = snap \/ \E c \in Closers : CloseBegin(c)
         /\ \/ <<moved, collected>>' = <<moved, collected>>
            \/ \E c \in Closers : ASSettles(c)
  <1> USE DEF session, closing, network, Return
  <1>0. ASSUME NEW s \in Sessions, NEW limit \in Caps, NEW tells \in BOOLEAN, Open(s, limit, tells)
        PROVE  UNCHANGED <<terms, session, closing, network>>
    BY <1>0 DEF Open
  <1>1. ASSUME NEW s \in Sessions, NEW cost \in Costs, Charge(s, cost)
        PROVE  UNCHANGED <<opened, snap, moved, collected>>
    BY <1>1 DEF Charge
  <1>2. ASSUME NEW c \in Closers,
               CloseNoop(c) \/ PostSettle(c) \/ LookupFails(c) \/ SettleFails(c)
                   \/ SettleAnswered(c) \/ ASRefuses(c)
        PROVE  UNCHANGED <<opened, spent, snap, moved, collected>>
    BY <1>2 DEF CloseNoop, PostSettle, LookupFails, SettleFails, SettleAnswered, ASRefuses
  <1>3. ASSUME NEW c \in Closers, CloseBegin(c)
        PROVE  UNCHANGED <<opened, spent, moved, collected>>
    BY <1>3 DEF CloseBegin
  <1>4. ASSUME NEW c \in Closers, ASSettles(c)
        PROVE  UNCHANGED <<opened, spent, snap>>
    BY <1>4 DEF ASSettles
  <1>5. CASE UNCHANGED vars
    BY <1>5 DEF vars
  <1> QED BY <1>0, <1>1, <1>2, <1>3, <1>4, <1>5 DEF Next

\* A session that was opened keeps its cap.
LEMMA OpenedStays ==
  ASSUME TypeOK, [Next]_vars, NEW s \in Sessions, cap[s] # Unopened
  PROVE  cap'[s] = cap[s] /\ says'[s] = says[s]
  BY LedgerFrame DEF Open, TypeOK

\* A call that is done stays done, with what it returned.
LEMMA DoneStays ==
  ASSUME TypeOK, [Next]_vars, NEW c \in Closers, pc[c] = "done"
  PROVE  pc'[c] = "done" /\ ret'[c] = ret[c] /\ snap'[c] = snap[c]
  <1> USE DEF TypeOK, session, closing, network, Return, Busy
  <1>1. ASSUME NEW s \in Sessions,
               \/ \E limit \in Caps, tells \in BOOLEAN : Open(s, limit, tells)
               \/ \E cost \in Costs : Charge(s, cost)
        PROVE  UNCHANGED <<pc, ret, snap>>
    BY <1>1 DEF Charge, Open
  <1>2. ASSUME NEW d \in Closers, CloseNoop(d) \/ CloseBegin(d) \/ PostSettle(d)
        PROVE  pc'[c] = "done" /\ ret'[c] = ret[c] /\ snap'[c] = snap[c]
    BY <1>2 DEF CloseNoop, CloseBegin, PostSettle
  <1>3. ASSUME NEW d \in Closers, LookupFails(d) \/ SettleFails(d) \/ SettleAnswered(d)
        PROVE  pc'[c] = "done" /\ ret'[c] = ret[c] /\ snap'[c] = snap[c]
    BY <1>3 DEF LookupFails, SettleFails, SettleAnswered
  <1>4. ASSUME NEW d \in Closers, ASSettles(d) \/ ASRefuses(d)
        PROVE  UNCHANGED <<pc, ret, snap>>
    BY <1>4 DEF ASSettles, ASRefuses
  <1>5. CASE UNCHANGED vars
    BY <1>5 DEF vars
  <1> QED BY <1>1, <1>2, <1>3, <1>4, <1>5 DEF Next

\* What is spent never shrinks.
LEMMA SpentGrows ==
  ASSUME SessionAssumption, TypeOK, [Next]_vars, NEW s \in Sessions
  PROVE  spent[s] \in Int /\ spent'[s] \in Int /\ spent[s] <= spent'[s]
  <1>1. ASSUME NEW r \in Sessions, NEW cost \in Costs, Charge(r, cost)
        PROVE  spent'[s] \in Int /\ spent[s] <= spent'[s]
    BY <1>1 DEF Charge, SessionAssumption, TypeOK, Amounts
  <1> QED BY <1>1, LedgerFrame DEF TypeOK, Amounts

\* The cap holds after a charge, and a copy is never more than what is spent.
LEMMA LimitsStep ==
  ASSUME SessionAssumption, TypeOK, WithinLimits, [Next]_vars
  PROVE  WithinLimits'
  <1> USE SessionAssumption DEF SessionAssumption
  <1>0. \A s \in Sessions : spent[s] \in Nat /\ cap[s] \in Int
    BY TermsAmounts DEF TypeOK, Amounts
  <1>1. ASSUME NEW s \in Sessions
        PROVE  \/ cap'[s] = Unlimited
               \/ cap'[s] = Unopened /\ spent'[s] = 0
               \/ spent'[s] <= cap'[s]
    <2>1. ASSUME NEW r \in Sessions, NEW cost \in Costs, Charge(r, cost)
          PROVE  \/ cap[s] = Unlimited
                 \/ cap[s] = Unopened /\ spent'[s] = 0
                 \/ spent'[s] <= cap[s]
      BY <2>1 DEF Charge, InScope, WithinCap, WithinLimits, TypeOK
    <2>2. ASSUME NEW r \in Sessions, NEW limit \in Caps, NEW tells \in BOOLEAN,
                 Open(r, limit, tells), cap'[s] # cap[s]
          PROVE  cap'[s] = Unlimited \/ spent'[s] <= cap'[s]
      <3>1. r = s /\ cap[s] = Unopened /\ cap'[s] = limit /\ spent'[s] = spent[s]
        BY <2>2 DEF Open, TypeOK, session
      <3>2. spent[s] = 0
        BY <1>0, <3>1 DEF WithinLimits
      <3>3. limit = Unlimited \/ limit \in Nat
        BY DEF Caps
      <3> QED BY <3>1, <3>2, <3>3
    <2>3. ASSUME NEW r \in Sessions, NEW cost \in Costs, Charge(r, cost)
          PROVE  cap' = cap
      BY <2>3 DEF Charge
    <2> QED BY <2>1, <2>2, <2>3, LedgerFrame DEF WithinLimits, session
  <1>2. ASSUME NEW c \in Closers
        PROVE  snap'[c] <= spent'[SessionOf[c]]
    <2>1. spent[SessionOf[c]] <= spent'[SessionOf[c]] /\ spent'[SessionOf[c]] \in Int
      BY SpentGrows
    <2>2. ASSUME NEW d \in Closers, CloseBegin(d) PROVE snap'[c] <= spent[SessionOf[c]]
      BY <2>2 DEF CloseBegin, TypeOK, Amounts, WithinLimits
    <2>3. snap'[c] <= spent[SessionOf[c]]
      BY <2>2, LedgerFrame DEF WithinLimits
    <2>4. snap'[c] \in Int /\ spent[SessionOf[c]] \in Int
      BY TypeStep DEF TypeOK, Amounts
    <2> QED BY <2>1, <2>3, <2>4
  <1>3. ASSUME NEW c \in Closers, pc'[c] # "idle"
        PROVE  cap'[SessionOf[c]] # Unopened
    <2>1. CASE cap[SessionOf[c]] # Unopened
      BY <2>1, OpenedStays
    <2>2. ASSUME cap[SessionOf[c]] = Unopened PROVE pc'[c] = pc[c]
      <3>1. pc[c] = "idle"
        BY <2>2 DEF WithinLimits
      <3> QED
        BY <2>2, <3>1
           DEF TypeOK, Next, vars, session, closing, network, Return, Busy, Open, Charge, CloseNoop,
               CloseBegin, PostSettle, LookupFails, SettleFails, SettleAnswered, ASSettles, ASRefuses
    <2> QED BY <1>3, <2>1, <2>2 DEF WithinLimits
  <1> QED BY <1>1, <1>2, <1>3 DEF WithinLimits

\* Nothing is charged once a call of the session has begun, if handlers stop in
\* time.
LEMMA FrozenStep ==
  ASSUME SessionAssumption, IInv, Frozen, [Next]_vars
  PROVE  Frozen'
  <1> SUFFICES ASSUME ~LateCharges, NEW c \in Closers, pc'[c] \in Busy \/ wire'[c] # "none"
               PROVE  snap'[c] = spent'[SessionOf[c]]
    BY DEF Frozen
  <1> USE SessionAssumption DEF SessionAssumption, TypeOK, Busy
  <1>0. TypeOK /\ CallState
    BY DEF IInv
  <1>1. ASSUME NEW s \in Sessions, NEW cost \in Costs, Charge(s, cost)
        PROVE  snap'[c] = spent'[SessionOf[c]]
    BY <1>0, <1>1 DEF Frozen, Charge, InScope, CallState, closing, network
  <1>a. ASSUME NEW s \in Sessions, NEW limit \in Caps, NEW tells \in BOOLEAN, Open(s, limit, tells)
        PROVE  snap'[c] = spent'[SessionOf[c]]
    BY <1>a DEF Frozen, Open, session, closing, network
  <1>2. ASSUME NEW d \in Closers, CloseBegin(d)
        PROVE  snap'[c] = spent'[SessionOf[c]]
    BY <1>0, <1>2 DEF Frozen, CloseBegin, network
  <1>3. ASSUME NEW d \in Closers, PostSettle(d)
        PROVE  snap'[c] = spent'[SessionOf[c]]
    BY <1>0, <1>3 DEF Frozen, PostSettle, session
  <1>4. ASSUME NEW d \in Closers, CloseNoop(d) \/ LookupFails(d) \/ SettleFails(d) \/ SettleAnswered(d)
        PROVE  snap'[c] = spent'[SessionOf[c]]
    BY <1>0, <1>4
       DEF Frozen, CloseNoop, LookupFails, SettleFails, SettleAnswered, Return, session, network
  <1>5. ASSUME NEW d \in Closers, ASSettles(d) \/ ASRefuses(d)
        PROVE  snap'[c] = spent'[SessionOf[c]]
    BY <1>0, <1>5 DEF Frozen, ASSettles, ASRefuses, session, closing
  <1>6. CASE UNCHANGED vars
    BY <1>6 DEF Frozen, vars, session, closing, network
  <1> QED BY <1>a, <1>1, <1>2, <1>3, <1>4, <1>5, <1>6 DEF Next

\* A call that took the session keeps it until it returns what became of it.
LEMMA DecidesStays ==
  ASSUME SessionAssumption, TypeOK, CallState, [Next]_vars, NEW s \in Sessions, NEW c \in Closers,
         Decides(c, s)
  PROVE  Decides(c, s)'
  <1> USE DEF TypeOK, Decides, Busy, Failures, session, closing, network, Return, CallState
  <1>1. ASSUME NEW d \in Closers,
               CloseNoop(d) \/ CloseBegin(d) \/ PostSettle(d) \/ LookupFails(d)
        PROVE  Decides(c, s)'
    BY <1>1 DEF CloseNoop, CloseBegin, PostSettle, LookupFails
  <1>2. ASSUME NEW d \in Closers, SettleFails(d) \/ SettleAnswered(d)
        PROVE  Decides(c, s)'
    BY <1>2 DEF SettleFails, SettleAnswered
  <1>3. ASSUME NEW d \in Closers, ASSettles(d) \/ ASRefuses(d)
        PROVE  Decides(c, s)'
    BY <1>3 DEF ASSettles, ASRefuses
  <1>4. ASSUME NEW r \in Sessions,
               \/ \E limit \in Caps, tells \in BOOLEAN : Open(r, limit, tells)
               \/ \E cost \in Costs : Charge(r, cost)
        PROVE  Decides(c, s)'
    BY <1>4 DEF Charge, Open
  <1>5. CASE UNCHANGED vars
    BY <1>5 DEF vars
  <1> QED BY <1>1, <1>2, <1>3, <1>4, <1>5 DEF Next

\* A call that finds the session taken finds the call that took it.
LEMMA ExplainedStep ==
  ASSUME SessionAssumption, IInv, Explained, [Next]_vars
  PROVE  Explained'
  <1> USE SessionAssumption DEF SessionAssumption, TypeOK, session, closing, network, Return
  <1>0. TypeOK /\ CallState /\ OneAttempt
    BY DEF IInv
  <1>a. \A s \in Sessions :
            (\E c \in Closers : Decides(c, s)) => \E c \in Closers : Decides(c, s)'
    BY <1>0, DecidesStays
  <1>1. ASSUME NEW c \in Closers, pc'[c] = "done" PROVE ret'[c] # "none"
    <2>1. CASE pc[c] = "done"
      BY <1>0, <2>1, DoneStays DEF Explained
    <2>2. CASE pc[c] # "done"
      BY <1>0, <1>1, <2>2
         DEF Next, vars, Open, Charge, CloseNoop, CloseBegin, PostSettle, LookupFails, SettleFails,
             SettleAnswered, ASSettles, ASRefuses
    <2> QED BY <2>1, <2>2
  <1>2. ASSUME NEW s \in Sessions, settled'[s] PROVE \E c \in Closers : Decides(c, s)'
    <2>1. CASE settled[s]
      BY <1>a, <2>1 DEF Explained
    <2>2. ASSUME NEW c \in Closers, SettleFails(c) \/ SettleAnswered(c), SessionOf[c] = s
          PROVE  Decides(c, s)'
      BY <1>0, <2>2 DEF SettleFails, SettleAnswered, Decides, Failures
    <2>3. ASSUME ~settled[s]
          PROVE  \E c \in Closers : (SettleFails(c) \/ SettleAnswered(c)) /\ SessionOf[c] = s
      BY <1>0, <1>2, <2>3
         DEF Next, vars, Open, Charge, CloseNoop, CloseBegin, PostSettle, LookupFails, SettleFails,
             SettleAnswered, ASSettles, ASRefuses
    <2> QED BY <2>1, <2>2, <2>3
  <1>3. ASSUME NEW c \in Closers, ret'[c] = "noop"
        PROVE  \/ \E d \in Closers : Decides(d, SessionOf[c])'
               \/ ~LateCharges => spent'[SessionOf[c]] = 0
    <2>1. CASE ret[c] = "noop"
      <3>1. pc[c] = "done"
        BY <1>0, <2>1 DEF CallState
      <3>2. ~LateCharges => spent'[SessionOf[c]] = spent[SessionOf[c]]
        BY <3>1, <1>0, LedgerFrame DEF Charge, InScope
      <3> QED BY <1>a, <2>1, <3>2 DEF Explained
    <2>2. ASSUME ret[c] # "noop" PROVE CloseNoop(c)
      BY <1>0, <1>3, <2>2
         DEF Next, vars, Open, Charge, CloseNoop, CloseBegin, PostSettle, LookupFails, SettleFails,
             SettleAnswered, ASSettles, ASRefuses
    <2>3. CASE CloseNoop(c)
      <3>1. Taken(SessionOf[c]) => \E d \in Closers : Decides(d, SessionOf[c])
        BY <1>0 DEF Taken, Explained, OneAttempt, Decides
      <3>2. NothingDue(SessionOf[c]) => spent'[SessionOf[c]] = 0
        BY <2>3 DEF NothingDue, CloseNoop
      <3> QED BY <1>a, <2>3, <3>1, <3>2 DEF CloseNoop
    <2> QED BY <2>1, <2>2, <2>3
  <1> QED BY <1>1, <1>2, <1>3 DEF Explained

\* What is moved is within what was signed, within what a body that says so asks
\* for, and covers what is asked for if the payer signed for that.
LEMMA MovesBounds ==
  ASSUME SessionAssumption, TypeOK, NEW s \in Sessions, NEW due \in Amounts
  PROVE  /\ Moves(s, due) <= terms[CredOf[s]].signed
         /\ says[s] => Moves(s, due) <= due
         /\ due <= terms[CredOf[s]].signed => due <= Moves(s, due)
  <1>1. terms[CredOf[s]].signed \in Int /\ due \in Int
    BY TermsAmounts DEF SessionAssumption, Amounts
  <1> QED BY <1>1 DEF Moves

\* The ledger moves a credential once, for what the call copied.
LEMMA SettlesOnce ==
  ASSUME SessionAssumption, TypeOK, NEW c \in Closers, ASSettles(c), NEW k \in Creds
  PROVE  /\ moved[k] => moved'[k] /\ collected'[k] = collected[k]
         /\ ~moved[k] /\ moved'[k] =>
               k = CredOf[SessionOf[c]] /\ collected'[k] = Moves(SessionOf[c], snap[c])
  BY DEF SessionAssumption, TypeOK, ASSettles

\* So it holds no more than was signed, and no more than the cap and what was charged
\* if the sessions say it.
LEMMA CollectsStep ==
  ASSUME SessionAssumption, TypeOK, CallState, WithinLimits, CollectsNoMoreThanCharged, [Next]_vars
  PROVE  CollectsNoMoreThanCharged'
  <1> USE SessionAssumption DEF SessionAssumption
  <1> DEFINE Opens(k) == {s \in Sessions : CredOf[s] = k /\ cap[s] # Unopened}
             Charged(k, s) == /\ collected[k] <= spent[s]
                              /\ cap[s] = Unlimited \/ collected[k] <= cap[s]
  <1> SUFFICES ASSUME NEW k \in Creds, moved'[k]
               PROVE  /\ collected'[k] <= terms[k].signed
                      /\ (\A s \in Opens(k)' : says'[s]) => \E s \in Opens(k)' : Charged(k, s)'
    BY LedgerFrame DEF CollectsNoMoreThanCharged
  <1>0. \A s \in Sessions :
            /\ spent[s] \in Int /\ spent'[s] \in Int /\ spent[s] <= spent'[s] /\ cap[s] \in Int
            /\ cap[s] # Unopened => cap'[s] = cap[s] /\ says'[s] = says[s]
    BY SpentGrows, OpenedStays, TermsAmounts
  <1>1. CASE moved[k] /\ collected'[k] = collected[k]
    <2>1. collected[k] <= terms[k].signed
      BY <1>1 DEF CollectsNoMoreThanCharged
    <2>2. ASSUME \A s \in Opens(k)' : says'[s] PROVE \E s \in Opens(k)' : Charged(k, s)'
      <3>1. \A s \in Opens(k) : s \in Opens(k)' /\ says[s]
        BY <1>0, <2>2
      <3>2. PICK s \in Opens(k) : Charged(k, s)
        BY <1>1, <3>1 DEF CollectsNoMoreThanCharged
      <3>3. Charged(k, s)'
        BY <1>0, <1>1, <3>2 DEF TypeOK, Amounts
      <3> QED BY <3>1, <3>3
    <2> QED BY <1>1, <2>1, <2>2
  <1>2. ASSUME NEW c \in Closers, ASSettles(c), k = CredOf[SessionOf[c]],
               collected'[k] = Moves(SessionOf[c], snap[c])
        PROVE  /\ collected'[k] <= terms[k].signed
               /\ (\A s \in Opens(k)' : says'[s]) => \E s \in Opens(k)' : Charged(k, s)'
    <2> DEFINE s == SessionOf[c]
    <2>1. /\ snap[c] \in Amounts /\ Moves(s, snap[c]) \in Amounts
          /\ Moves(s, snap[c]) <= terms[k].signed
          /\ says[s] => Moves(s, snap[c]) <= snap[c]
      BY <1>2, MovesAmount, MovesBounds DEF TypeOK
    <2>2. cap[s] # Unopened
      BY <1>2 DEF ASSettles, CallState, WithinLimits
    <2>3. UNCHANGED <<cap, says, spent>>
      BY <1>2 DEF ASSettles, session
    <2>4. snap[c] <= spent[s] /\ (cap[s] = Unlimited \/ spent[s] <= cap[s])
      BY <2>2 DEF WithinLimits
    <2>5. ASSUME says[s] PROVE Charged(k, s)'
      <3>1. collected'[k] \in Int /\ snap[c] \in Int /\ collected'[k] <= snap[c]
        BY <1>2, <2>1, <2>5 DEF Amounts
      <3> QED BY <1>0, <2>3, <2>4, <3>1
    <2>6. s \in Opens(k)'
      BY <1>2, <2>2, <2>3
    <2> QED BY <1>2, <2>1, <2>3, <2>5, <2>6
  <1> QED BY <1>1, <1>2, LedgerFrame, SettlesOnce

\* The only session of an honest payer's credential has stopped charging when it
\* is settled: the ledger holds all of it.
LEMMA CollectsAllStep ==
  ASSUME SessionAssumption, IInv, WithinLimits, Frozen, MovedForCall, CollectsAll, [Next]_vars
  PROVE  CollectsAll'
  <1> USE SessionAssumption DEF SessionAssumption
  <1> SUFFICES ASSUME NEW s \in Sessions, Honest(s)', moved'[CredOf[s]]
               PROVE  spent'[s] <= collected'[CredOf[s]]
    BY DEF CollectsAll
  <1> DEFINE k == CredOf[s]
  <1>0. TypeOK /\ TypeOK' /\ CallState
    BY TypeStep DEF IInv
  <1>a. /\ ~LateCharges /\ \A r \in Sessions : CredOf[r] = k => r = s
        /\ cap'[s] # Unlimited /\ cap'[s] <= terms[k].signed
    BY LedgerFrame DEF Honest
  <1>1. ASSUME NEW c \in Closers, ASSettles(c)
        PROVE  spent'[s] <= collected'[k]
    <2>1. spent' = spent /\ cap' = cap
      BY <1>1 DEF ASSettles, session
    <2>2. CASE moved[k]
      BY <1>0, <1>1, <1>a, <2>1, <2>2, SettlesOnce DEF CollectsAll, Honest
    <2>3. CASE ~moved[k]
      <3>1. k = CredOf[SessionOf[c]] /\ collected'[k] = Moves(SessionOf[c], snap[c])
        BY <1>0, <1>1, <2>3, SettlesOnce
      <3>2. SessionOf[c] = s /\ snap[c] = spent[s] /\ cap[s] # Unopened
        BY <1>0, <1>1, <1>a, <3>1 DEF Frozen, ASSettles, CallState, WithinLimits
      <3>3. spent[s] <= terms[k].signed
        <4>1. spent[s] <= cap[s] /\ cap[s] <= terms[k].signed
          BY <1>a, <2>1, <3>2 DEF WithinLimits
        <4>2. spent[s] \in Int /\ cap[s] \in Int /\ terms[k].signed \in Int
          BY <1>0, TermsAmounts DEF TypeOK, Amounts
        <4> QED BY <4>1, <4>2
      <3>4. snap[c] \in Amounts
        BY <1>0 DEF TypeOK
      <3> QED BY <1>0, <2>1, <3>1, <3>2, <3>3, <3>4, MovesBounds
    <2> QED BY <2>2, <2>3
  <1>2. CASE moved' = moved /\ collected' = collected
    <2>1. PICK c \in Closers : CredOf[SessionOf[c]] = k /\ wire[c] = "answered"
      <3>1. k \in Creds /\ moved[k]
        BY <1>2
      <3> QED BY <3>1 DEF MovedForCall
    <2>2. SessionOf[c] = s /\ pc[c] # "idle" /\ cap[s] # Unopened
      BY <1>0, <1>a, <2>1 DEF CallState, WithinLimits
    <2>3. ASSUME NEW r \in Sessions, NEW cost \in Costs, Charge(r, cost)
          PROVE  spent'[s] = spent[s]
      BY <1>0, <1>a, <2>2, <2>3 DEF Charge, InScope, TypeOK
    <2>4. Honest(s)
      BY <1>0, <1>a, <2>2, OpenedStays DEF Honest
    <2> QED BY <1>2, <2>3, <2>4, LedgerFrame DEF CollectsAll
  <1> QED BY <1>1, <1>2, LedgerFrame

\* An answer stays the answer of its call.
LEMMA AnswerStays ==
  ASSUME TypeOK, CallState, [Next]_vars, NEW c \in Closers, wire[c] = "answered"
  PROVE  wire'[c] = "answered" /\ answer'[c] = answer[c]
  <1> USE DEF TypeOK, session, closing, network, Return
  <1>1. ASSUME NEW d \in Closers, PostSettle(d) PROVE wire'[c] = "answered" /\ answer' = answer
    BY <1>1 DEF PostSettle, CallState
  <1>2. ASSUME NEW d \in Closers, ASSettles(d) \/ ASRefuses(d)
        PROVE  wire'[c] = "answered" /\ answer'[c] = answer[c]
    BY <1>2 DEF ASSettles, ASRefuses
  <1>3. ASSUME NEW d \in Closers,
               CloseNoop(d) \/ CloseBegin(d) \/ LookupFails(d) \/ SettleFails(d) \/ SettleAnswered(d)
        PROVE  UNCHANGED network
    BY <1>3 DEF CloseNoop, CloseBegin, LookupFails, SettleFails, SettleAnswered
  <1>4. ASSUME NEW s \in Sessions,
               \/ \E limit \in Caps, tells \in BOOLEAN : Open(s, limit, tells)
               \/ \E cost \in Costs : Charge(s, cost)
        PROVE  UNCHANGED network
    BY <1>4 DEF Charge, Open
  <1>5. CASE UNCHANGED vars
    BY <1>5 DEF vars
  <1> QED BY <1>1, <1>2, <1>3, <1>4, <1>5 DEF Next

\* What the ledger holds it holds for a call that was answered.
LEMMA MovedStep ==
  ASSUME SessionAssumption, TypeOK, CallState, MovedForCall, [Next]_vars
  PROVE  MovedForCall'
  <1> SUFFICES ASSUME NEW k \in Creds, moved'[k]
               PROVE  \E c \in Closers : CredOf[SessionOf[c]] = k /\ wire'[c] = "answered"
    BY DEF MovedForCall
  <1>1. CASE moved[k]
    BY <1>1, AnswerStays DEF MovedForCall
  <1>2. ASSUME NEW c \in Closers, ASSettles(c), ~moved[k]
        PROVE  CredOf[SessionOf[c]] = k /\ wire'[c] = "answered"
    BY <1>2, SettlesOnce DEF ASSettles, TypeOK
  <1> QED BY <1>1, <1>2, LedgerFrame

\* An honest payer is told it underpaid only by an answer nobody can read.
LEMMA ShortStep ==
  ASSUME SessionAssumption, IInv, WithinLimits, Frozen, CollectsAll, ShortOnlyIfUnread, [Next]_vars
  PROVE  ShortOnlyIfUnread'
  <1> USE SessionAssumption DEF SessionAssumption
  <1>0. TypeOK /\ CallState /\ AnswerFromLedger
    BY DEF IInv
  <1> SUFFICES ASSUME NEW c \in Closers, ret'[c] = "underpaid"
               PROVE  /\ wire'[c] = "answered"
                      /\ Honest(SessionOf[c])' => answer'[c] = Unparseable
    BY DEF ShortOnlyIfUnread
  <1>a. pc[c] # "idle" /\ Honest(SessionOf[c])' => Honest(SessionOf[c])
    BY <1>0, OpenedStays, LedgerFrame DEF Honest, WithinLimits
  <1>1. CASE ret[c] = "underpaid"
    BY <1>0, <1>1, <1>a, AnswerStays DEF ShortOnlyIfUnread, CallState
  <1>2. ASSUME ret[c] # "underpaid" PROVE SettleAnswered(c)
    BY <1>0, <1>2
       DEF TypeOK, Return, closing, Next, vars, Open, Charge, CloseNoop, CloseBegin, PostSettle,
           LookupFails, SettleFails, SettleAnswered, ASSettles, ASRefuses
  <1>3. CASE SettleAnswered(c)
    <2>1. wire[c] = "answered" /\ pc[c] \in Busy /\ wire' = wire /\ answer' = answer
      BY <1>3 DEF SettleAnswered, network, Busy
    <2>2. ret'[c] = IF Covers(answer[c], snap[c]) THEN "settled" ELSE "underpaid"
      BY <1>0, <1>3 DEF SettleAnswered, Return, TypeOK
    <2>3. ~Covers(answer[c], snap[c])
      BY <2>2
    <2>4. ASSUME Honest(SessionOf[c]), answer[c] # Unparseable PROVE FALSE
      <3>1. answer[c] = collected[CredOf[SessionOf[c]]] /\ moved[CredOf[SessionOf[c]]]
        BY <1>0, <2>1, <2>4 DEF AnswerFromLedger
      <3>2. snap[c] = spent[SessionOf[c]]
        BY <2>1, <2>4 DEF Honest, Frozen
      <3>3. spent[SessionOf[c]] <= collected[CredOf[SessionOf[c]]]
        BY <2>4, <3>1 DEF CollectsAll
      <3> QED BY <2>3, <2>4, <3>1, <3>2, <3>3 DEF Covers
    <2> QED BY <1>a, <2>1, <2>4 DEF Busy
  <1> QED BY <1>1, <1>2, <1>3
-------------------------------------------------------------------------------
\* The ledger's invariant holds throughout.
THEOREM LedgerInvariant == Spec => []LInv
  <1>1. Init => LInv
    BY SessionAssumption, LedgerInit
  <1>2. SessionAssumption /\ LInv /\ [Next]_vars => LInv'
    <2> SUFFICES ASSUME SessionAssumption, LInv, [Next]_vars PROVE LInv'
      OBVIOUS
    <2>1. TypeOK /\ CallState
      BY DEF LInv, IInv
    <2> QED
      BY <2>1, InvStep, LimitsStep, FrozenStep, ExplainedStep, CollectsStep, MovedStep,
         CollectsAllStep, ShortStep DEF LInv
  <1> QED BY <1>1, <1>2, SessionAssumption, PTL DEF Spec

\* Nobody is settled for more than was signed, and a credential whose sessions all
\* say what they charged for no more than one of them did, within its cap.
THEOREM CollectsNoMoreThanChargedHolds == Spec => []CollectsNoMoreThanCharged
  <1>1. LInv => CollectsNoMoreThanCharged
    BY DEF LInv
  <1> QED BY <1>1, LedgerInvariant, PTL

\* A payer who signed for the whole cap is told it underpaid only by an answer
\* that could not be read.
THEOREM HonestPayerNotShortHolds == Spec => []HonestPayerNotShort
  <1>1. LInv => HonestPayerNotShort
    BY SessionAssumption
       DEF SessionAssumption, LInv, ShortOnlyIfUnread, Honest, HonestPayerNotShort
  <1> QED BY <1>1, LedgerInvariant, PTL

\* The calls that close a session together never hide a failure: if none is under
\* way and none reported an error, everything charged was collected.
THEOREM NoSilentLossHolds == Spec => []NoSilentLoss
  <1>1. ASSUME SessionAssumption, LInv, NEW s \in Sessions, ~LateCharges, spent[s] > 0,
               NEW c \in Closers, SessionOf[c] = s, pc[c] = "done",
               \A d \in Closers : SessionOf[d] = s => pc[d] \notin Busy /\ ret[d] \notin Failures
        PROVE  moved[CredOf[s]] /\ spent[s] <= collected[CredOf[s]]
    <2>1. ret[c] \in {"noop", "settled"}
      BY <1>1 DEF LInv, IInv, TypeOK, Explained
    <2>2. PICK d \in Closers : SessionOf[d] = s /\ ret[d] = "settled"
      <3>1. CASE ret[c] = "settled"
        BY <1>1, <3>1
      <3>2. CASE ret[c] = "noop"
        <4>1. spent[s] # 0
          BY <1>1 DEF LInv, IInv, TypeOK, Amounts
        <4>2. PICK d \in Closers : Decides(d, s)
          BY <1>1, <3>2, <4>1 DEF LInv, Explained
        <4> QED BY <1>1, <4>2 DEF Decides
      <3> QED BY <2>1, <3>1, <3>2
    <2>3. /\ moved[CredOf[s]] /\ result[s] = collected[CredOf[s]]
          /\ snap[d] <= result[s] /\ snap[d] = spent[s]
      BY <1>1, <2>2 DEF LInv, IInv, SettledFor
    <2> QED BY <2>3
  <1>2. LInv => NoSilentLoss
    BY <1>1, SessionAssumption DEF NoSilentLoss
  <1> QED BY <1>2, LedgerInvariant, PTL
===============================================================================
