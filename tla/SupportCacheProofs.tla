-------------------------- MODULE SupportCacheProofs --------------------------
(***************************************************************************)
(* What a challenge may advertise, proved for any TTL and fetch timeout,   *)
(* any number of concurrent challenges, chains and rotations: a bound that *)
(* holds when the lookup is over is later by no more than what the         *)
(* challenge may still wait for.                                           *)
(***************************************************************************)
EXTENDS SupportCache, TLAPS

Fetching(q) == pc[q] \in {"fetch", "answered"}

\* The times are in order, and what is under way is within its timeout.
Clocked ==
    /\ at <= now
    /\ at # Never => value # Nothing
    /\ \A q \in Challenges :
          /\ Fetching(q) => began[q] \in Times /\ began[q] <= now /\ now <= began[q] + FetchTime
          /\ pc[q] = "looked" => began[q] \in Times /\ began[q] <= now /\ now <= began[q] + After
          /\ pc[q] = "built" => built[q] \in Times /\ built[q] <= now

\* The keys in use differ, are among those taken into use, and were not dropped.
KeysInUse ==
    \A x \in Chains : published[x] # NoKey =>
        /\ published[x] <= rotations
        /\ gone[published[x]] = Never
        /\ born[published[x]] \in Times /\ born[published[x]] <= now
        /\ \A y \in Chains : published[y] = published[x] => y = x

\* The server has not dropped a key it has yet to take into use.
Unused == \A k \in Keys : k > rotations => gone[k] = Never

\* A key in an answer was in use after the fetch began; one in the cache was in
\* use no longer than a fetch before its timestamp.
Recent ==
    \A x \in Chains :
        /\ \A q \in Challenges :
              LET key == got[q][x] IN
              pc[q] = "answered" /\ key \in Keys /\ gone[key] # Never => began[q] <= gone[key]
        /\ at # Never /\ value[x] \in Keys /\ gone[value[x]] # Never
              => at <= gone[value[x]] + FetchTime

\* An answer that lacks a key in use is from before the key, and so is an entry,
\* by its timestamp less the time of a fetch.
Missing ==
    \A x \in Chains :
        LET key == published[x] IN
        key # NoKey /\ x \in complete =>
            /\ \A q \in Challenges :
                  pc[q] = "answered" /\ got[q][x] # key => began[q] <= born[key]
            /\ at # Never /\ value[x] # key => at <= born[key] + FetchTime

\* A key that a lookup ended with had not been dropped a TTL and one fetch before.
LookedRecent ==
    \A q \in Challenges, x \in Chains :
        LET key == got[q][x] IN
        pc[q] = "looked" /\ key \in Keys /\ gone[key] # Never
            => began[q] < gone[key] + TTL + FetchTime

\* A lookup that ended without a key in use ended before the key was in use for a
\* TTL and one fetch, and one with nothing at all within one fetch.
LookedMissing ==
    \A q \in Challenges, x \in Chains :
        LET key == published[x] IN
        pc[q] = "looked" /\ ~failed[q] /\ key # NoKey /\ x \in complete =>
            /\ got[q][x] # key => began[q] < born[key] + TTL + FetchTime
            /\ got[q] = Nothing => began[q] <= born[key] + FetchTime

IInv ==
    /\ TypeOK /\ Clocked /\ KeysInUse /\ Unused /\ Recent /\ Missing
    /\ LookedRecent /\ LookedMissing
    /\ BoundedStaleness /\ KeyArrives /\ NothingIsRetried
-------------------------------------------------------------------------------
\* The initial state satisfies the invariant.
LEMMA InitIInv == Init => IInv
  BY SupportAssumption
  DEF Init, IInv, TypeOK, Clocked, KeysInUse, Unused, Recent, Missing, LookedRecent, LookedMissing,
      BoundedStaleness, KeyArrives, NothingIsRetried, Fetching, Nothing, NoKey, Blank, Never, Times, Keys,
      KeyMaps

\* Every step keeps the types.
LEMMA TypeStep == TypeOK /\ [Next]_vars => TypeOK'
  <1> SUFFICES ASSUME TypeOK, [Next]_vars PROVE TypeOK'
    OBVIOUS
  <1> USE SupportAssumption DEF TypeOK, KeyMaps, Keys, Times, NoKey, Blank, Never, serverKeys, cache, challenge
  <1>1. CASE Tick
    BY <1>1 DEF Tick
  <1>2. ASSUME NEW x \in Chains, Rotate(x) PROVE TypeOK'
    BY <1>2 DEF Rotate, Withdrawn
  <1>3. ASSUME NEW x \in Chains, Withdraw(x) PROVE TypeOK'
    BY <1>3 DEF Withdraw, Withdrawn
  <1>4. ASSUME NEW q \in Challenges, Hit(q) PROVE TypeOK'
    BY <1>4 DEF Hit, LookedUp
  <1>5. ASSUME NEW q \in Challenges, Miss(q) PROVE TypeOK'
    BY <1>5 DEF Miss
  <1>6. ASSUME NEW q \in Challenges, Answer(q) PROVE TypeOK'
    BY <1>6 DEF Answer, Entry
  <1>7. ASSUME NEW q \in Challenges, FetchFails(q) PROVE TypeOK'
    BY <1>7 DEF FetchFails, LookedUp, Nothing
  <1>8. ASSUME NEW q \in Challenges, Set(q) PROVE TypeOK'
    BY <1>8 DEF Set, LookedUp
  <1>9. ASSUME NEW q \in Challenges, Build(q) \/ Begin(q) PROVE TypeOK'
    <2>1. Nothing \in KeyMaps
      BY DEF Nothing
    <2>2. CASE Build(q)
      BY <2>2 DEF Build
    <2>3. CASE Begin(q)
      <3>1. got' \in [Challenges -> KeyMaps]
        BY <2>1, <2>3 DEF Begin
      <3> QED BY <2>3, <3>1 DEF Begin
    <2> QED BY <1>9, <2>2, <2>3
  <1>10. CASE UNCHANGED vars
    BY <1>10 DEF vars
  <1> QED BY <1>1, <1>2, <1>3, <1>4, <1>5, <1>6, <1>7, <1>8, <1>9, <1>10 DEF Next
-------------------------------------------------------------------------------
\* Every step keeps the times in order.
LEMMA ClockedStep == TypeOK /\ Clocked /\ KeysInUse /\ [Next]_vars => Clocked'
  <1> SUFFICES ASSUME TypeOK, Clocked, [Next]_vars PROVE Clocked'
    OBVIOUS
  <1> USE SupportAssumption DEF After, TypeOK, Clocked, Fetching, KeyMaps, Keys, Times, NoKey, Blank, Never,
                                serverKeys, cache, challenge
  <1>1. CASE Tick
    BY <1>1 DEF Tick
  <1>2. ASSUME NEW x \in Chains, Rotate(x) PROVE Clocked'
    BY <1>2 DEF Rotate
  <1>3. ASSUME NEW x \in Chains, Withdraw(x) PROVE Clocked'
    BY <1>3 DEF Withdraw
  <1>4. ASSUME NEW q \in Challenges, Hit(q) PROVE Clocked'
    BY <1>4 DEF Hit, LookedUp
  <1>5. ASSUME NEW q \in Challenges, Miss(q) PROVE Clocked'
    BY <1>5 DEF Miss
  <1>6. ASSUME NEW q \in Challenges, Answer(q) PROVE Clocked'
    BY <1>6 DEF Answer
  <1>7. ASSUME NEW q \in Challenges, FetchFails(q) PROVE Clocked'
    BY <1>7 DEF FetchFails, LookedUp
  <1>8. ASSUME NEW q \in Challenges, Set(q) PROVE Clocked'
    BY <1>8 DEF Set, LookedUp
  <1>9. ASSUME NEW q \in Challenges, Build(q) \/ Begin(q) PROVE Clocked'
    BY <1>9 DEF Build, Begin
  <1>10. CASE UNCHANGED vars
    BY <1>10 DEF vars
  <1> QED BY <1>1, <1>2, <1>3, <1>4, <1>5, <1>6, <1>7, <1>8, <1>9, <1>10 DEF Next

\* Every step keeps what is known of the keys in use.
LEMMA KeysStep == TypeOK /\ KeysInUse /\ Unused /\ [Next]_vars => KeysInUse'
  <1> SUFFICES ASSUME TypeOK, KeysInUse, Unused, [Next]_vars PROVE KeysInUse'
    OBVIOUS
  <1> USE SupportAssumption DEF TypeOK, KeysInUse, KeyMaps, Keys, Times, NoKey, Blank, Never,
                                serverKeys, cache, challenge
  <1>1. CASE Tick
    BY <1>1 DEF Tick
  <1>2. ASSUME NEW x \in Chains, Rotate(x) PROVE KeysInUse'
    <2>1. /\ rotations' \in Keys /\ rotations' = rotations + 1 /\ now' = now
          /\ published' = [published EXCEPT ![x] = rotations']
          /\ born' = [born EXCEPT ![rotations'] = now]
      BY <1>2 DEF Rotate
    <2>2. ASSUME NEW y \in Chains, y # x, published[y] # NoKey
          PROVE gone'[published[y]] = Never
      BY <1>2, <2>2 DEF Rotate, Withdrawn
    <2>3. gone'[rotations'] = Never
      BY <1>2, <2>1 DEF Rotate, Withdrawn, Unused
    <2> QED BY <2>1, <2>2, <2>3
  <1>3. ASSUME NEW x \in Chains, Withdraw(x) PROVE KeysInUse'
    BY <1>3 DEF Withdraw, Withdrawn
  <1>4. ASSUME NEW q \in Challenges,
               Hit(q) \/ Miss(q) \/ Answer(q) \/ FetchFails(q) \/ Set(q) \/ Build(q) \/ Begin(q)
        PROVE KeysInUse'
    BY <1>4 DEF Hit, Miss, Answer, FetchFails, Set, LookedUp, Build, Begin
  <1>5. CASE UNCHANGED vars
    BY <1>5 DEF vars
  <1> QED BY <1>1, <1>2, <1>3, <1>4, <1>5 DEF Next

\* The server drops only keys in use.
LEMMA UnusedStep == TypeOK /\ KeysInUse /\ Unused /\ [Next]_vars => Unused'
  <1> SUFFICES ASSUME TypeOK, KeysInUse, Unused, [Next]_vars PROVE Unused'
    OBVIOUS
  <1> USE SupportAssumption DEF TypeOK, KeysInUse, Unused, KeyMaps, Keys, Times, NoKey, Blank, Never,
                                serverKeys, cache, challenge
  <1>1. ASSUME NEW x \in Chains, Rotate(x) PROVE Unused'
    BY <1>1 DEF Rotate, Withdrawn
  <1>2. ASSUME NEW x \in Chains, Withdraw(x) PROVE Unused'
    BY <1>2 DEF Withdraw, Withdrawn
  <1>3. CASE UNCHANGED serverKeys
    BY <1>3
  <1> QED
    BY <1>1, <1>2, <1>3
    DEF Next, Tick, Hit, Miss, Answer, FetchFails, Set, LookedUp, Build, Begin, vars

\* Every step keeps what is known of the keys that are around.
LEMMA RecentStep ==
    TypeOK /\ Clocked /\ KeysInUse /\ Recent /\ [Next]_vars => Recent'
  <1> SUFFICES ASSUME TypeOK, Clocked, KeysInUse, Recent, [Next]_vars PROVE Recent'
    OBVIOUS
  <1> USE SupportAssumption DEF TypeOK, Clocked, Fetching, KeysInUse, Recent, KeyMaps, Keys, Times,
                                NoKey, Blank, Never, serverKeys, cache, challenge
  <1>1. CASE Tick
    BY <1>1 DEF Tick
  <1>2. ASSUME NEW x \in Chains, Rotate(x) PROVE Recent'
    BY <1>2 DEF Rotate, Withdrawn
  <1>3. ASSUME NEW x \in Chains, Withdraw(x) PROVE Recent'
    BY <1>3 DEF Withdraw, Withdrawn
  <1>4. ASSUME NEW q \in Challenges, Hit(q) PROVE Recent'
    BY <1>4 DEF Hit, LookedUp
  <1>5. ASSUME NEW q \in Challenges, Miss(q) PROVE Recent'
    BY <1>5 DEF Miss
  <1>6. ASSUME NEW q \in Challenges, Answer(q) PROVE Recent'
    BY <1>6 DEF Answer, Entry
  <1>7. ASSUME NEW q \in Challenges, FetchFails(q) PROVE Recent'
    BY <1>7 DEF FetchFails, LookedUp
  <1>8. ASSUME NEW q \in Challenges, Set(q) PROVE Recent'
    BY <1>8 DEF Set, LookedUp
  <1>9. ASSUME NEW q \in Challenges, Build(q) \/ Begin(q) PROVE Recent'
    BY <1>9 DEF Build, Begin
  <1>10. CASE UNCHANGED vars
    BY <1>10 DEF vars
  <1> QED BY <1>1, <1>2, <1>3, <1>4, <1>5, <1>6, <1>7, <1>8, <1>9, <1>10 DEF Next

\* Every step keeps what is known of the keys that are not.
LEMMA MissingStep ==
    TypeOK /\ Clocked /\ KeysInUse /\ Missing /\ [Next]_vars => Missing'
  <1> SUFFICES ASSUME TypeOK, Clocked, KeysInUse, Missing, [Next]_vars PROVE Missing'
    OBVIOUS
  <1> USE SupportAssumption DEF TypeOK, Clocked, Fetching, KeysInUse, Missing, KeyMaps, Keys, Times,
                                NoKey, Blank, Never, serverKeys, cache, challenge
  <1>1. CASE Tick
    BY <1>1 DEF Tick
  <1>2. ASSUME NEW x \in Chains, Rotate(x) PROVE Missing'
    BY <1>2 DEF Rotate
  <1>3. ASSUME NEW x \in Chains, Withdraw(x) PROVE Missing'
    BY <1>3 DEF Withdraw
  <1>4. ASSUME NEW q \in Challenges, Hit(q) PROVE Missing'
    BY <1>4 DEF Hit, LookedUp
  <1>5. ASSUME NEW q \in Challenges, Miss(q) PROVE Missing'
    BY <1>5 DEF Miss
  <1>6. ASSUME NEW q \in Challenges, Answer(q) PROVE Missing'
    BY <1>6 DEF Answer, Entry
  <1>7. ASSUME NEW q \in Challenges, FetchFails(q) PROVE Missing'
    BY <1>7 DEF FetchFails, LookedUp
  <1>8. ASSUME NEW q \in Challenges, Set(q) PROVE Missing'
    BY <1>8 DEF Set, LookedUp
  <1>9. ASSUME NEW q \in Challenges, Build(q) \/ Begin(q) PROVE Missing'
    <2>1. \A r \in Challenges : pc'[r] = "answered" => pc[r] = "answered" /\ got'[r] = got[r]
      BY <1>9 DEF Build, Begin
    <2> QED BY <1>9, <2>1 DEF Build, Begin
  <1>10. CASE UNCHANGED vars
    BY <1>10 DEF vars
  <1> QED BY <1>1, <1>2, <1>3, <1>4, <1>5, <1>6, <1>7, <1>8, <1>9, <1>10 DEF Next

\* A lookup ends with what is known of the keys in the answer or in the entry, and
\* a step of the server finds it in the past.
LEMMA LookedStep == IInv /\ [Next]_vars => LookedRecent' /\ LookedMissing'
  <1> DEFINE Looked == LookedRecent /\ LookedMissing
  <1> SUFFICES ASSUME IInv, [Next]_vars PROVE Looked'
    OBVIOUS
  <1> USE SupportAssumption
      DEF IInv, TypeOK, Clocked, Fetching, KeysInUse, LookedRecent, LookedMissing, KeyMaps, Keys,
          Times, NoKey, Blank, Never, serverKeys, cache, challenge
  <1>1. CASE Tick
    BY <1>1 DEF Tick, Nothing
  <1>2. ASSUME NEW x \in Chains, Rotate(x) PROVE Looked'
    <2>1. LookedRecent'
      BY <1>2 DEF Rotate, Withdrawn
    <2>2. LookedMissing'
      BY <1>2 DEF Rotate, Nothing
    <2> QED BY <2>1, <2>2
  <1>3. ASSUME NEW x \in Chains, Withdraw(x) PROVE Looked'
    <2>1. LookedRecent'
      BY <1>3 DEF Withdraw, Withdrawn
    <2>2. LookedMissing'
      BY <1>3 DEF Withdraw, Nothing
    <2> QED BY <2>1, <2>2
  <1>4. ASSUME NEW q \in Challenges, Hit(q) PROVE Looked'
    <2>1. LookedRecent'
      BY <1>4 DEF Hit, LookedUp, Live, Recent
    <2>2. LookedMissing'
      BY <1>4 DEF Hit, LookedUp, Live, Missing, Nothing
    <2> QED BY <2>1, <2>2
  <1>5. ASSUME NEW q \in Challenges, Miss(q) \/ Answer(q) \/ Build(q) \/ Begin(q)
        PROVE Looked'
    <2>1. ASSUME NEW r \in Challenges, pc'[r] = "looked"
          PROVE  /\ pc[r] = "looked" /\ got'[r] = got[r]
                 /\ began'[r] = began[r] /\ failed'[r] = failed[r]
      BY <1>5, <2>1 DEF Miss, Answer, Build, Begin
    <2>2. UNCHANGED serverKeys
      BY <1>5 DEF Miss, Answer, Build, Begin
    <2> HIDE DEF IInv, TypeOK, Clocked
    <2>3. LookedRecent'
      BY <2>1, <2>2 DEF IInv
    <2>4. LookedMissing'
      BY <2>1, <2>2 DEF IInv, Nothing
    <2> QED BY <2>3, <2>4
  <1>6. ASSUME NEW q \in Challenges, FetchFails(q) PROVE Looked'
    BY <1>6 DEF FetchFails, LookedUp, Nothing
  <1>7. ASSUME NEW q \in Challenges, Set(q) PROVE Looked'
    <2>1. LookedRecent'
      BY <1>7 DEF Set, LookedUp, Recent
    <2>2. LookedMissing'
      BY <1>7 DEF Set, LookedUp, Missing, Nothing
    <2> QED BY <2>1, <2>2
  <1>8. CASE UNCHANGED vars
    BY <1>8 DEF vars, Nothing
  <1> QED BY <1>1, <1>2, <1>3, <1>4, <1>5, <1>6, <1>7, <1>8 DEF Next

\* A challenge is built no later than its lookup may have ended, and a step of the
\* server finds all built challenges in the past.
LEMMA BuiltStep ==
    IInv /\ [Next]_vars => BoundedStaleness' /\ KeyArrives' /\ NothingIsRetried'
  <1> DEFINE Advertised == BoundedStaleness /\ KeyArrives /\ NothingIsRetried
  <1> SUFFICES ASSUME IInv, [Next]_vars PROVE Advertised'
    OBVIOUS
  <1> USE SupportAssumption
      DEF IInv, TypeOK, Clocked, Fetching, KeysInUse, BoundedStaleness, KeyArrives,
          NothingIsRetried, KeyMaps, Keys, Times, NoKey, Blank, Never, serverKeys, cache, challenge
  <1>a. After \in Nat /\ (endpoint' = endpoint => After' = After)
    BY DEF After
  <1>1. CASE Tick
    BY <1>1, <1>a DEF Tick, Nothing
  <1>2. ASSUME NEW x \in Chains, Rotate(x) PROVE Advertised'
    <2>1. BoundedStaleness'
      BY <1>2, <1>a DEF Rotate, Withdrawn
    <2>2. KeyArrives'
      BY <1>2, <1>a DEF Rotate
    <2>3. NothingIsRetried'
      BY <1>2, <1>a DEF Rotate, Nothing
    <2> QED BY <2>1, <2>2, <2>3
  <1>3. ASSUME NEW x \in Chains, Withdraw(x) PROVE Advertised'
    BY <1>3, <1>a DEF Withdraw, Withdrawn, Nothing
  <1>4. ASSUME NEW q \in Challenges,
               Hit(q) \/ Miss(q) \/ Answer(q) \/ FetchFails(q) \/ Set(q) \/ Begin(q)
        PROVE Advertised'
    <2>1. ASSUME NEW r \in Challenges, pc'[r] = "built"
          PROVE  pc[r] = "built" /\ got'[r] = got[r] /\ built'[r] = built[r] /\ failed'[r] = failed[r]
      BY <1>4, <2>1 DEF Hit, Miss, Answer, FetchFails, Set, LookedUp, Begin
    <2>2. endpoint' = endpoint /\ UNCHANGED serverKeys
      BY <1>4 DEF Hit, Miss, Answer, FetchFails, Set, LookedUp, Begin
    <2> HIDE DEF IInv, TypeOK, Clocked
    <2>3. BoundedStaleness'
      BY <1>a, <2>1, <2>2 DEF IInv
    <2>4. KeyArrives'
      BY <1>a, <2>1, <2>2 DEF IInv
    <2>5. NothingIsRetried'
      BY <1>a, <2>1, <2>2 DEF IInv, Nothing
    <2> QED BY <2>3, <2>4, <2>5
  <1>5. ASSUME NEW q \in Challenges, Build(q) PROVE Advertised'
    <2>1. BoundedStaleness'
      BY <1>5, <1>a DEF Build, LookedRecent
    <2>2. KeyArrives'
      BY <1>5, <1>a DEF Build, LookedMissing
    <2>3. NothingIsRetried'
      <3> SUFFICES ASSUME NEW r \in Challenges, NEW x \in Chains, pc'[r] = "built", ~failed'[r],
                          got'[r] = Nothing, published[x] # NoKey, x \in complete
                   PROVE  built'[r] <= born[published[x]] + FetchTime + After
        BY <1>5, <1>a DEF Build, Nothing
      <3>1. CASE r # q
        BY <1>5, <1>a, <3>1 DEF Build
      <3>2. CASE r = q
        BY <1>5, <1>a, <3>2 DEF Build, LookedMissing
      <3> QED BY <3>1, <3>2
    <2> QED BY <2>1, <2>2, <2>3
  <1>6. CASE UNCHANGED vars
    BY <1>6, <1>a DEF vars, Nothing
  <1> QED BY <1>1, <1>2, <1>3, <1>4, <1>5, <1>6 DEF Next

\* The inductive invariant: what the times of a fetch and of the entry say of the
\* keys in an answer, in the cache and in the challenges.
THEOREM Invariant == Spec => []IInv
  <1>1. Init => IInv
    BY InitIInv
  <1>2. IInv /\ [Next]_vars => IInv'
    BY TypeStep, ClockedStep, KeysStep, UnusedStep, RecentStep, MissingStep, LookedStep, BuiltStep
    DEF IInv
  <1> QED BY <1>1, <1>2, PTL DEF Spec

\* Every variable keeps its type.
THEOREM TypeCorrect == Spec => []TypeOK
  <1>1. IInv => TypeOK
    BY DEF IInv
  <1> QED BY <1>1, Invariant, PTL

\* No challenge advertises a channel signer the server dropped a TTL and one fetch
\* ago, nor a facilitator it dropped a TTL and two fetches ago.
THEOREM BoundedStalenessHolds == Spec => []BoundedStaleness
  <1>1. IInv => BoundedStaleness
    BY DEF IInv
  <1> QED BY <1>1, Invariant, PTL

\* A key in use for a TTL and one fetch, two for a facilitator, is in every challenge
\* built since, unless the challenge's own fetch failed.
THEOREM KeyArrivesHolds == Spec => []KeyArrives
  <1>1. IInv => KeyArrives
    BY DEF IInv
  <1> QED BY <1>1, Invariant, PTL

\* An empty or failed answer never stands in for the fetch of a later challenge.
THEOREM NothingIsRetriedHolds == Spec => []NothingIsRetried
  <1>1. IInv => NothingIsRetried
    BY DEF IInv
  <1> QED BY <1>1, Invariant, PTL
===============================================================================
