------------------------- MODULE ResourceClientProofs -------------------------
(***************************************************************************)
(* Proofs about the merchant's OAuth client, for any number of callers,    *)
(* restarts and revoked credentials and any behaviour of the server.       *)
(***************************************************************************)
EXTENDS ResourceClient, TLAPS

\* Credentials that callers, the store and registrations hold were issued.
Issued ==
    /\ store <= issued
    /\ \A c \in Callers : held[c] <= issued /\ regCred[c] <= issued

\* What the place of a caller says of its credential and its registration.
Positions ==
    \A c \in Callers :
        /\ pc[c] \in {"saving", "use", "stale", "retry"} => held[c] # NoCred
        /\ pc[c] \in {"published", "saving"} => regCred[c] = held[c]
        /\ pc[c] = "published" => done[c]
        /\ out[c] # "none" => pc[c] = "returned"

\* A registration that succeeded is in the store, or about to be.
Remembered ==
    \A c \in Callers :
        regCred[c] # NoCred => store # NoCred \/ pc[c] \in {"published", "saving"}

Willing == env.reliable /\ ~env.oncePerName

\* Where registrations succeed, so does every caller that made or joined one.
Registered ==
    Willing => \A c \in Callers :
        /\ pc[c] \in {"answered", "published", "reanswered"} => held[c] # NoCred
        /\ done[c] => regCred[c] # NoCred

\* A restarted merchant that kept its credential finds it, and until one is
\* revoked it is accepted.
Intact == active = 1..issued

Found ==
    kept =>
        /\ store # NoCred
        /\ \A c \in Callers :
              /\ pc[c] \in {"discover", "lookup", "use", "stale", "reanswered", "retry", "returned"}
              /\ env.reliable /\ Intact =>
                    pc[c] \notin {"stale", "reanswered", "retry"} /\ out[c] \in {"none", "ok"}

IInv ==
    /\ TypeOK /\ SingleFlight /\ Issued /\ Positions /\ Remembered /\ Registered /\ Found
    /\ NoSpuriousFailure
-------------------------------------------------------------------------------
\* The initial state satisfies the invariant.
LEMMA InitIInv == Init => IInv
  <1> SUFFICES ASSUME Init PROVE IInv
    OBVIOUS
  <1> USE ResourceAssumption DEF Init, NoCred
  <1>1. TypeOK
    <2>1. restarts \in 0..MaxRestarts
      BY DEF ResourceAssumption
    <2> QED BY <2>1 DEF TypeOK, Places, Outcomes, ResourceAssumption
  <1>2. SingleFlight
    BY DEF SingleFlight, Leading, ResourceAssumption
  <1>3. Issued /\ Positions /\ Remembered /\ Registered /\ Found /\ NoSpuriousFailure
    BY DEF Issued, Positions, Remembered, Registered, Found, NoSpuriousFailure
  <1> QED BY <1>1, <1>2, <1>3 DEF IInv

\* The restarts stay within their bound.
LEMMA RestartsBounded ==
  ASSUME TypeOK, Restart
  PROVE  restarts' \in 0..MaxRestarts
  <1>1. \A e \in Environments : e.restarts \in 0..MaxRestarts
    BY DEF Environments
  <1>2. env.restarts \in 0..MaxRestarts
    BY <1>1, ResourceAssumption DEF TypeOK, ResourceAssumption
  <1>3. restarts \in 0..MaxRestarts /\ MaxRestarts \in Nat
    BY ResourceAssumption DEF TypeOK, ResourceAssumption
  <1> QED BY <1>2, <1>3 DEF Restart

\* A caller goes from one place to another, or returns how the operation ended.
LEMMA GotoType ==
  ASSUME TypeOK, NEW c \in Callers, NEW from, NEW to \in Places, Goto(c, from, to)
  PROVE  /\ pc' \in [Callers -> Places]
         /\ \A d \in Callers : pc'[d] = IF d = c THEN to ELSE pc[d]
  <1>1. pc \in [Callers -> Places] /\ pc' = [pc EXCEPT ![c] = to]
    BY DEF TypeOK, Goto
  <1> QED BY <1>1

\* And so does one that returns from the call.
LEMMA ReturnType ==
  ASSUME TypeOK, NEW c \in Callers, NEW from, NEW outcome \in Outcomes, Return(c, from, outcome)
  PROVE  /\ pc' \in [Callers -> Places] /\ out' \in [Callers -> Outcomes]
         /\ \A d \in Callers : pc'[d] = "waiting" => pc[d] = "waiting"
  BY DEF TypeOK, Return, Goto, Places

\* Every step keeps the types.
LEMMA TypeStep == TypeOK /\ [Next]_vars => TypeOK'
  <1> SUFFICES ASSUME TypeOK, [Next]_vars PROVE TypeOK'
    OBVIOUS
  <1> USE ResourceAssumption DEF caller, client, server, process
  <1>a. {"discover", "lookup", "missed", "waiting", "saving", "use", "stale", "reanswered", "retry",
         "returned", "leading", "answered", "published"} \subseteq Places
    BY DEF Places, Leading
  <1>b. {"none", "ok", "error", "register_error", "unauthorized"} \subseteq Outcomes
    BY DEF Outcomes
  <1>1. ASSUME NEW c \in Callers, Discover(c) PROVE TypeOK'
    BY <1>1, <1>a, GotoType DEF TypeOK, Discover
  <1>2. ASSUME NEW c \in Callers, DiscoverFails(c) PROVE TypeOK'
    BY <1>2, <1>b, ReturnType DEF TypeOK, DiscoverFails
  <1>3. ASSUME NEW c \in Callers, LookUpStore(c) PROVE TypeOK'
    BY <1>3, <1>a, GotoType DEF TypeOK, LookUpStore
  <1>4. ASSUME NEW c \in Callers, Lead(c) PROVE TypeOK'
    BY <1>4, <1>a, GotoType DEF TypeOK, Lead
  <1>5. ASSUME NEW c \in Callers, Join(c) PROVE TypeOK'
    BY <1>5, <1>a, GotoType DEF TypeOK, Join
  <1>6. ASSUME NEW c \in Callers, WakeUp(c) PROVE TypeOK'
    <2>1. held' \in [Callers -> Nat]
      BY <1>6 DEF TypeOK, WakeUp
    <2> QED BY <1>6, <1>a, <1>b, <2>1, GotoType, ReturnType DEF TypeOK, WakeUp
  <1>7. ASSUME NEW c \in Callers, Registers(c) \/ RegisterFails(c) PROVE TypeOK'
    <2>1. Goto(c, pc[c], Answered[pc[c]]) /\ Answered[pc[c]] \in {"answered", "reanswered"}
      BY <1>7 DEF Registers, RegisterFails, Answered
    <2>2. /\ pc' \in [Callers -> Places]
          /\ \A d \in Callers : pc'[d] = "waiting" => pc[d] = "waiting"
      BY <1>a, <2>1, GotoType
    <2>3. CASE Registers(c)
      <3>1. issued' \in Nat /\ active' \subseteq 1..issued' /\ held' \in [Callers -> Nat]
        BY <2>3 DEF TypeOK, Registers, NoCred
      <3> QED BY <2>2, <2>3, <3>1 DEF TypeOK, Registers
    <2>4. CASE RegisterFails(c)
      BY <2>2, <2>4 DEF TypeOK, RegisterFails, NoCred
    <2> QED BY <1>7, <2>3, <2>4
  <1>8. ASSUME NEW c \in Callers, Publish(c) PROVE TypeOK'
    BY <1>8, <1>a, GotoType DEF TypeOK, Publish
  <1>9. ASSUME NEW c \in Callers, Retire(c) PROVE TypeOK'
    BY <1>9, <1>a, <1>b, GotoType, ReturnType DEF TypeOK, Retire
  <1>10. ASSUME NEW c \in Callers, Save(c) PROVE TypeOK'
    BY <1>10, <1>a, GotoType DEF TypeOK, Save
  <1>11. ASSUME NEW c \in Callers, UseSucceeds(c) PROVE TypeOK'
    BY <1>11, <1>b, ReturnType DEF TypeOK, UseSucceeds
  <1>12. ASSUME NEW c \in Callers, UseRejected(c) PROVE TypeOK'
    BY <1>12, <1>a, <1>b, GotoType, ReturnType DEF TypeOK, UseRejected
  <1>13. ASSUME NEW c \in Callers, UseFails(c) PROVE TypeOK'
    BY <1>13, <1>b, ReturnType DEF TypeOK, UseFails
  <1>14. ASSUME NEW c \in Callers, SaveAgain(c) PROVE TypeOK'
    BY <1>14, <1>a, <1>b, GotoType, ReturnType DEF TypeOK, SaveAgain
  <1>15. CASE Revoke
    BY <1>15 DEF TypeOK, Revoke
  <1>16. CASE Restart
    BY <1>16, <1>a, <1>b, RestartsBounded DEF TypeOK, Restart, NoCred
  <1>17. CASE UNCHANGED vars
    BY <1>17 DEF TypeOK, vars
  <1> QED
    BY <1>1, <1>2, <1>3, <1>4, <1>5, <1>6, <1>7, <1>8, <1>9, <1>10, <1>11, <1>12, <1>13, <1>14,
       <1>15, <1>16, <1>17 DEF Next, Step
-------------------------------------------------------------------------------
(***************************************************************************)
(* The invariant, one part at a time.                                      *)
(***************************************************************************)

\* What a caller's place says stays true: a credential is in its hands when it
\* is used, and published when the channel is closed.
LEMMA PositionsStep ==
  ASSUME TypeOK, Positions, [Next]_vars
  PROVE  Positions'
  <1> USE DEF TypeOK, Positions, Goto, Return, NoCred, caller, client, server
  <1>1. ASSUME NEW c \in Callers, Discover(c) \/ DiscoverFails(c) PROVE Positions'
    BY <1>1 DEF Discover, DiscoverFails
  <1>2. ASSUME NEW c \in Callers, LookUpStore(c) PROVE Positions'
    BY <1>2 DEF LookUpStore
  <1>3. ASSUME NEW c \in Callers, Lead(c) \/ Join(c) PROVE Positions'
    BY <1>3 DEF Lead, Join
  <1>4. ASSUME NEW c \in Callers, WakeUp(c) PROVE Positions'
    BY <1>4 DEF WakeUp
  <1>5. ASSUME NEW c \in Callers, Registers(c) \/ RegisterFails(c) PROVE Positions'
    <2>1. pc' = [pc EXCEPT ![c] = Answered[pc[c]]] /\ Answered[pc[c]] \in {"answered", "reanswered"}
      BY <1>5 DEF Registers, RegisterFails, Answered
    <2>2. \A d \in Callers : d # c => held'[d] = held[d]
      BY <1>5 DEF Registers, RegisterFails
    <2>3. regCred' = regCred /\ done' = done /\ out' = out /\ pc[c] \in {"leading", "stale"}
      BY <1>5 DEF Registers, RegisterFails
    <2> QED BY <2>1, <2>2, <2>3
  <1>6. ASSUME NEW c \in Callers, Publish(c) PROVE Positions'
    BY <1>6 DEF Publish
  <1>7. ASSUME NEW c \in Callers, Retire(c) \/ Save(c) PROVE Positions'
    BY <1>7 DEF Retire, Save
  <1>8. ASSUME NEW c \in Callers, UseSucceeds(c) \/ UseRejected(c) \/ UseFails(c) PROVE Positions'
    BY <1>8 DEF UseSucceeds, UseRejected, UseFails
  <1>9. ASSUME NEW c \in Callers, SaveAgain(c) PROVE Positions'
    BY <1>9 DEF SaveAgain
  <1>10. CASE Revoke
    BY <1>10 DEF Revoke
  <1>11. CASE Restart
    BY <1>11 DEF Restart
  <1>12. CASE UNCHANGED vars
    BY <1>12 DEF vars
  <1> QED
    BY <1>1, <1>2, <1>3, <1>4, <1>5, <1>6, <1>7, <1>8, <1>9, <1>10, <1>11, <1>12 DEF Next, Step

\* The entry of the map is its leader's, and who waits will be woken.
LEMMA SingleFlightStep ==
  ASSUME TypeOK, Positions, SingleFlight, [Next]_vars
  PROVE  SingleFlight'
  <1> USE ResourceAssumption
      DEF ResourceAssumption, TypeOK, SingleFlight, Goto, Return, Leading, caller, client, server
  <1>1. ASSUME NEW c \in Callers, Discover(c) \/ DiscoverFails(c) \/ LookUpStore(c) \/ WakeUp(c)
        PROVE  SingleFlight'
    BY <1>1 DEF Discover, DiscoverFails, LookUpStore, WakeUp
  <1>2. ASSUME NEW c \in Callers, Lead(c) PROVE SingleFlight'
    BY <1>2 DEF Lead
  <1>3. ASSUME NEW c \in Callers, Join(c) PROVE SingleFlight'
    BY <1>3 DEF Join
  <1>4. ASSUME NEW c \in Callers, Registers(c) \/ RegisterFails(c) PROVE SingleFlight'
    <2>1. /\ pc' = [pc EXCEPT ![c] = IF pc[c] = "leading" THEN "answered" ELSE "reanswered"]
          /\ pc[c] \in {"leading", "stale"}
          /\ credReg' = credReg /\ done' = done /\ joined' = joined
      BY <1>4 DEF Registers, RegisterFails, Answered
    <2> QED BY <2>1
  <1>5. ASSUME NEW c \in Callers, Publish(c) PROVE SingleFlight'
    BY <1>5 DEF Publish
  <1>6. ASSUME NEW c \in Callers, Retire(c) PROVE SingleFlight'
    <2>1. credReg = c /\ done[c]
      BY <1>6 DEF Retire, Positions
    <2> QED BY <1>6, <2>1 DEF Retire
  <1>7. ASSUME NEW c \in Callers, Save(c) \/ SaveAgain(c) PROVE SingleFlight'
    BY <1>7 DEF Save, SaveAgain
  <1>8. ASSUME NEW c \in Callers, UseSucceeds(c) \/ UseRejected(c) \/ UseFails(c)
        PROVE  SingleFlight'
    BY <1>8 DEF UseSucceeds, UseRejected, UseFails
  <1>9. CASE Revoke
    BY <1>9 DEF Revoke
  <1>10. CASE Restart
    BY <1>10 DEF Restart
  <1>11. CASE UNCHANGED vars
    BY <1>11 DEF vars
  <1> QED
    BY <1>1, <1>2, <1>3, <1>4, <1>5, <1>6, <1>7, <1>8, <1>9, <1>10, <1>11 DEF Next, Step

\* A credential comes from the server, and goes from hand to hand.
LEMMA IssuedStep ==
  ASSUME TypeOK, Issued, [Next]_vars
  PROVE  Issued' /\ issued <= issued'
  <1> USE DEF TypeOK, Issued, NoCred, caller, client, server
  <1>1. ASSUME NEW c \in Callers, Discover(c) \/ DiscoverFails(c) \/ Lead(c) \/ Join(c)
        PROVE  Issued' /\ issued' = issued
    BY <1>1 DEF Discover, DiscoverFails, Lead, Join
  <1>2. ASSUME NEW c \in Callers, LookUpStore(c) PROVE Issued' /\ issued' = issued
    BY <1>2 DEF LookUpStore
  <1>3. ASSUME NEW c \in Callers, WakeUp(c) PROVE Issued' /\ issued' = issued
    <2>1. joined[c] \in Callers
      BY <1>3 DEF WakeUp
    <2> QED BY <1>3, <2>1 DEF WakeUp
  <1>4. ASSUME NEW c \in Callers, Registers(c) PROVE Issued' /\ issued' = issued + 1
    BY <1>4 DEF Registers
  <1>5. ASSUME NEW c \in Callers, RegisterFails(c) PROVE Issued' /\ issued' = issued
    BY <1>5 DEF RegisterFails
  <1>6. ASSUME NEW c \in Callers, Publish(c) \/ Retire(c) PROVE Issued' /\ issued' = issued
    BY <1>6 DEF Publish, Retire
  <1>7. ASSUME NEW c \in Callers, Save(c) \/ SaveAgain(c) PROVE Issued' /\ issued' = issued
    BY <1>7 DEF Save, SaveAgain
  <1>8. ASSUME NEW c \in Callers, UseSucceeds(c) \/ UseRejected(c) \/ UseFails(c)
        PROVE  Issued' /\ issued' = issued
    BY <1>8 DEF UseSucceeds, UseRejected, UseFails
  <1>9. CASE Revoke
    BY <1>9 DEF Revoke
  <1>10. CASE Restart
    BY <1>10 DEF Restart
  <1>11. CASE UNCHANGED vars
    BY <1>11 DEF vars
  <1> QED
    BY <1>1, <1>2, <1>3, <1>4, <1>5, <1>6, <1>7, <1>8, <1>9, <1>10, <1>11 DEF Next, Step

\* A registration that succeeded reaches the store.
LEMMA RememberedStep ==
  ASSUME TypeOK, Positions, Remembered, [Next]_vars
  PROVE  Remembered'
  <1> USE DEF TypeOK, Remembered, Goto, Return, NoCred, caller, client, server
  <1>1. ASSUME NEW c \in Callers, Discover(c) \/ DiscoverFails(c) \/ LookUpStore(c) \/ WakeUp(c)
        PROVE  Remembered'
    BY <1>1 DEF Discover, DiscoverFails, LookUpStore, WakeUp
  <1>2. ASSUME NEW c \in Callers, Lead(c) \/ Join(c) PROVE Remembered'
    BY <1>2 DEF Lead, Join
  <1>3. ASSUME NEW c \in Callers, Registers(c) \/ RegisterFails(c) PROVE Remembered'
    <2>1. /\ pc' = [pc EXCEPT ![c] = Answered[pc[c]]] /\ pc[c] \in {"leading", "stale"}
          /\ regCred' = regCred /\ store' = store
      BY <1>3 DEF Registers, RegisterFails
    <2> QED BY <2>1
  <1>4. ASSUME NEW c \in Callers, Publish(c) PROVE Remembered'
    BY <1>4 DEF Publish
  <1>5. ASSUME NEW c \in Callers, Retire(c) PROVE Remembered'
    BY <1>5 DEF Retire, Positions
  <1>6. ASSUME NEW c \in Callers, Save(c) PROVE Remembered'
    BY <1>6 DEF Save, Positions
  <1>7. ASSUME NEW c \in Callers, SaveAgain(c) PROVE Remembered'
    BY <1>7 DEF SaveAgain
  <1>8. ASSUME NEW c \in Callers, UseSucceeds(c) \/ UseRejected(c) \/ UseFails(c)
        PROVE  Remembered'
    BY <1>8 DEF UseSucceeds, UseRejected, UseFails
  <1>9. CASE Revoke
    BY <1>9 DEF Revoke
  <1>10. CASE Restart
    BY <1>10 DEF Restart
  <1>11. CASE UNCHANGED vars
    BY <1>11 DEF vars
  <1> QED
    BY <1>1, <1>2, <1>3, <1>4, <1>5, <1>6, <1>7, <1>8, <1>9, <1>10, <1>11 DEF Next, Step

\* The environment is what it is.
LEMMA EnvStep == [Next]_vars => env' = env
  BY DEF Next, Step, vars, Discover, DiscoverFails, LookUpStore, Lead, Join, WakeUp, Registers,
         RegisterFails, Publish, Retire, Save, UseSucceeds, UseRejected, UseFails, SaveAgain, Revoke,
         Restart

\* A server that registers on request gives every leader a credential.
LEMMA RegisteredStep ==
  ASSUME TypeOK, Positions, Registered, [Next]_vars
  PROVE  Registered'
  <1> SUFFICES ASSUME Willing
               PROVE  \A d \in Callers :
                         /\ pc'[d] \in {"answered", "published", "reanswered"} => held'[d] # NoCred
                         /\ done'[d] => regCred'[d] # NoCred
    BY EnvStep DEF Registered, Willing
  <1> DEFINE Good ==
        \A d \in Callers :
            /\ pc'[d] \in {"answered", "published", "reanswered"} => held'[d] # NoCred
            /\ done'[d] => regCred'[d] # NoCred
  <1> USE DEF TypeOK, Registered, Goto, Return, NoCred, caller, client, server
  <1>1. ASSUME NEW c \in Callers, Discover(c) \/ DiscoverFails(c) \/ LookUpStore(c) PROVE Good
    BY <1>1 DEF Discover, DiscoverFails, LookUpStore
  <1>2. ASSUME NEW c \in Callers, Lead(c) \/ Join(c) \/ WakeUp(c) PROVE Good
    BY <1>2 DEF Lead, Join, WakeUp
  <1>3. ASSUME NEW c \in Callers, Registers(c) PROVE Good
    <2>1. held'[c] # NoCred /\ \A d \in Callers : d # c => held'[d] = held[d]
      BY <1>3 DEF Registers, Willing
    <2>2. /\ pc' = [pc EXCEPT ![c] = Answered[pc[c]]] /\ regCred' = regCred /\ done' = done
      BY <1>3 DEF Registers
    <2> QED BY <2>1, <2>2
  <1>4. ASSUME NEW c \in Callers, RegisterFails(c) PROVE FALSE
    BY <1>4 DEF RegisterFails, NameTaken, Willing
  <1>5. ASSUME NEW c \in Callers, Publish(c) PROVE Good
    BY <1>5 DEF Publish
  <1>6. ASSUME NEW c \in Callers, Retire(c) \/ Save(c) \/ SaveAgain(c) PROVE Good
    BY <1>6 DEF Retire, Save, SaveAgain
  <1>7. ASSUME NEW c \in Callers, UseSucceeds(c) \/ UseRejected(c) \/ UseFails(c) PROVE Good
    BY <1>7 DEF UseSucceeds, UseRejected, UseFails
  <1>8. CASE Revoke
    BY <1>8 DEF Revoke
  <1>9. CASE Restart
    BY <1>9 DEF Restart
  <1>10. CASE UNCHANGED vars
    BY <1>10 DEF vars
  <1> QED
    BY <1>1, <1>2, <1>3, <1>4, <1>5, <1>6, <1>7, <1>8, <1>9, <1>10 DEF Next, Step

\* No caller is told of a failure that is not one.
LEMMA NoSpuriousStep ==
  ASSUME TypeOK, Issued, Positions, Registered, NoSpuriousFailure, [Next]_vars
  PROVE  NoSpuriousFailure'
  <1> SUFFICES ASSUME Willing, NEW d \in Callers
               PROVE  /\ out'[d] \notin {"error", "register_error"}
                      /\ out'[d] = "unauthorized" => held'[d] # NoCred /\ held'[d] \notin active'
    BY EnvStep DEF NoSpuriousFailure, Willing
  <1> DEFINE Fair ==
        /\ out'[d] \notin {"error", "register_error"}
        /\ out'[d] = "unauthorized" => held'[d] # NoCred /\ held'[d] \notin active'
  <1>0. /\ out[d] \notin {"error", "register_error"}
        /\ out[d] = "unauthorized" => held[d] # NoCred /\ held[d] \notin active
    BY DEF NoSpuriousFailure, Willing
  <1>a. out[d] # "none" => pc[d] = "returned"
    BY DEF Positions
  <1> USE <1>0, <1>a DEF TypeOK, Goto, Return, NoCred, caller, client, server
  <1>1. ASSUME NEW c \in Callers, DiscoverFails(c) \/ UseFails(c) PROVE FALSE
    BY <1>1 DEF DiscoverFails, UseFails, Willing
  <1>2. ASSUME NEW c \in Callers, Discover(c) \/ LookUpStore(c) \/ Lead(c) \/ Join(c) PROVE Fair
    BY <1>2 DEF Discover, LookUpStore, Lead, Join
  <1>3. ASSUME NEW c \in Callers, WakeUp(c) PROVE Fair
    <2>1. regCred[joined[c]] # NoCred
      BY <1>3 DEF WakeUp, Registered
    <2> QED BY <1>3, <2>1 DEF WakeUp
  <1>4. ASSUME NEW c \in Callers, Registers(c) PROVE Fair
    <2>1. held[d] <= issued /\ issued' = issued + 1 /\ active' = active \cup {issued + 1}
      BY <1>4 DEF Registers, Issued
    <2>2. out' = out /\ pc[c] # "returned" /\ (d # c => held'[d] = held[d])
      BY <1>4 DEF Registers
    <2> QED BY <2>1, <2>2
  <1>5. ASSUME NEW c \in Callers, RegisterFails(c) PROVE FALSE
    BY <1>5 DEF RegisterFails, NameTaken, Willing
  <1>6. ASSUME NEW c \in Callers, Publish(c) \/ Save(c) PROVE Fair
    BY <1>6 DEF Publish, Save
  <1>7. ASSUME NEW c \in Callers, Retire(c) \/ SaveAgain(c) PROVE Fair
    <2>1. held[c] # NoCred
      BY <1>7 DEF Retire, SaveAgain, Registered
    <2> QED BY <1>7, <2>1 DEF Retire, SaveAgain
  <1>8. ASSUME NEW c \in Callers, UseSucceeds(c) \/ UseRejected(c) PROVE Fair
    BY <1>8 DEF UseSucceeds, UseRejected, Positions
  <1>9. CASE Revoke
    BY <1>9 DEF Revoke
  <1>10. CASE Restart
    BY <1>10 DEF Restart
  <1>11. CASE UNCHANGED vars
    BY <1>11 DEF vars
  <1> QED
    BY <1>1, <1>2, <1>3, <1>4, <1>5, <1>6, <1>7, <1>8, <1>9, <1>10, <1>11 DEF Next, Step

\* A revoked credential is not issued again.
LEMMA IntactBefore == TypeOK /\ [Next]_vars /\ Intact' => Intact
  <1> SUFFICES ASSUME TypeOK, [Next]_vars, Intact' PROVE Intact
    OBVIOUS
  <1> USE DEF TypeOK, Intact, server
  <1>1. ASSUME NEW c \in Callers, Registers(c) PROVE Intact
    <2>1. issued' = issued + 1 /\ active' = active \cup {issued + 1} /\ issued \in Nat
      BY <1>1 DEF Registers
    <2>2. active \subseteq 1..issued /\ active \cup {issued + 1} = 1..(issued + 1)
      BY <2>1
    <2>3. ASSUME NEW n \in 1..issued PROVE n \in active
      <3>1. n \in 1..(issued + 1) /\ n # issued + 1
        BY <2>1
      <3> QED BY <2>2, <3>1
    <2> QED BY <2>2, <2>3
  <1>2. CASE Revoke
    BY <1>2 DEF Revoke
  <1>3. CASE UNCHANGED <<issued, active>>
    BY <1>3
  <1>4. Revoke \/ (\E c \in Callers : Registers(c)) \/ UNCHANGED <<issued, active>>
    BY DEF Next, Step, vars, Discover, DiscoverFails, LookUpStore, Lead, Join, WakeUp,
           RegisterFails, Publish, Retire, Save, UseSucceeds, UseRejected, UseFails, SaveAgain,
           Restart
  <1> QED BY <1>1, <1>2, <1>3, <1>4

\* A merchant that restarted with its credential only ever uses it, or one that
\* replaces it.
LEMMA FoundStep ==
  ASSUME TypeOK, Issued, Positions, Found, [Next]_vars
  PROVE  Found'
  <1> DEFINE Kept ==
        /\ store' # NoCred
        /\ \A d \in Callers :
              /\ pc'[d] \in {"discover", "lookup", "use", "stale", "reanswered", "retry", "returned"}
              /\ env.reliable /\ Intact =>
                    pc'[d] \notin {"stale", "reanswered", "retry"} /\ out'[d] \in {"none", "ok"}
  <1>1. CASE Restart
    BY <1>1 DEF Restart, Found, TypeOK
  <1>2. CASE ~Restart
    <2>1. kept' = kept
      BY <1>2 DEF Next, Step, vars, process, Discover, DiscoverFails, LookUpStore, Lead, Join,
                  WakeUp, Registers, RegisterFails, Publish, Retire, Save, UseSucceeds,
                  UseRejected, UseFails, SaveAgain, Revoke
    <2> SUFFICES ASSUME kept PROVE Kept
      BY <2>1, EnvStep, IntactBefore DEF Found
    <2> USE DEF TypeOK, Found, Goto, Return, NoCred, caller, client, server
    <2>2. ASSUME NEW c \in Callers, Discover(c) \/ DiscoverFails(c) \/ LookUpStore(c) PROVE Kept
      BY <2>2 DEF Discover, DiscoverFails, LookUpStore
    <2>3. ASSUME NEW c \in Callers, Lead(c) \/ Join(c) \/ WakeUp(c) PROVE Kept
      BY <2>3 DEF Lead, Join, WakeUp
    <2>4. ASSUME NEW c \in Callers, Registers(c) \/ RegisterFails(c) PROVE Kept
      <3>1. /\ pc[c] = "stale" /\ pc' = [pc EXCEPT ![c] = "reanswered"]
            /\ store' = store /\ out' = out
        BY <2>4 DEF Registers, RegisterFails, Answered
      <3> QED BY <3>1
    <2>5. ASSUME NEW c \in Callers, Publish(c) \/ Retire(c) \/ Save(c) PROVE Kept
      BY <2>5 DEF Publish, Retire, Save
    <2>6. ASSUME NEW c \in Callers, UseSucceeds(c) \/ UseFails(c) PROVE Kept
      BY <2>6 DEF UseSucceeds, UseFails
    <2>7. ASSUME NEW c \in Callers, UseRejected(c) PROVE Kept
      <3>1. held[c] \in 1..issued /\ held[c] \notin active
        BY <2>7 DEF UseRejected, Positions, Issued
      <3>2. ~Intact
        BY <3>1 DEF Intact
      <3> QED BY <2>7, <3>2 DEF UseRejected
    <2>8. ASSUME NEW c \in Callers, SaveAgain(c) PROVE Kept
      BY <2>8 DEF SaveAgain
    <2>9. CASE Revoke
      BY <2>9 DEF Revoke
    <2>10. CASE UNCHANGED vars
      BY <2>10 DEF vars
    <2> QED
      BY <1>2, <2>2, <2>3, <2>4, <2>5, <2>6, <2>7, <2>8, <2>9, <2>10 DEF Next, Step
  <1> QED BY <1>1, <1>2
-------------------------------------------------------------------------------
(***************************************************************************)
(* The theorems.                                                           *)
(***************************************************************************)

\* The inductive invariant holds in every reachable state.
THEOREM Invariant == Spec => []IInv
  <1>1. IInv /\ [Next]_vars => IInv'
    BY TypeStep, PositionsStep, SingleFlightStep, IssuedStep, RememberedStep, RegisteredStep,
       FoundStep, NoSpuriousStep DEF IInv
  <1> QED BY InitIInv, <1>1, PTL DEF Spec

\* Every variable holds what its field or its step of the code can hold.
THEOREM TypeCorrect == Spec => []TypeOK
  <1>1. IInv => TypeOK
    BY DEF IInv
  <1> QED BY Invariant, <1>1, PTL

\* One leader holds the credReg entry from before its call until it published the
\* result, and nobody waits for a registration that left the map unpublished.
THEOREM SingleFlightHolds == Spec => []SingleFlight
  <1>1. IInv => SingleFlight
    BY DEF IInv
  <1> QED BY Invariant, <1>1, PTL

\* Where the network delivers and the server registers on request, an operation
\* fails only for a credential that was revoked, across restarts too.
THEOREM NoSpuriousFailureHolds == Spec => []NoSpuriousFailure
  <1>1. IInv => NoSpuriousFailure
    BY DEF IInv
  <1> QED BY Invariant, <1>1, PTL

\* A registration that succeeded is in the store once the callers are done.
THEOREM RegistrationKeptHolds == Spec => []RegistrationKept
  <1>1. IInv => RegistrationKept
    BY DEF IInv, Remembered, RegistrationKept
  <1> QED BY Invariant, <1>1, PTL

\* A merchant that restarts with its credential in a store that outlives it goes
\* on as before, until a credential is revoked.
THEOREM SurvivesRestartHolds == Spec => []SurvivesRestart
  <1>1. IInv => SurvivesRestart
    BY DEF IInv, Found, Intact, SurvivesRestart
  <1> QED BY Invariant, <1>1, PTL
===============================================================================
