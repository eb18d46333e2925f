--------------------------- MODULE RoundTripProofs ---------------------------
(***************************************************************************)
(* What the client's round tripper and the resource's token check promise  *)
(* together, proved for any number of requests, paths and sends, any       *)
(* environment and any interleaving.                                       *)
(***************************************************************************)
EXTENDS RoundTrip, SequenceTheorems, WellFoundedInduction, NaturalsInduction, TLAPS

Checked == env.resource # "open"

\* The walk of the request's path finds a token.
Covered(q) == \E up \in 0..Len(Url[q]) : token[Above(Url[q], up)] # None

\* The token of the resource the request is for is in the store.
Named(q) == token[Resource(q)] # None

\* The verifier of a handshake is under its own state until the exchange.
VerifierKept == \A q \in Trips : pc[q] \in {"code", "exchange"} => Verified(q)

\* A token is stored under the resource it was issued for.
TokensNamed == \A path \in Paths : token[path] # None => Resource(token[path][1]) = path

\* MPP's credential and a bearer token are never sent together.
OneAuthorization ==
    \A q \in Trips :
        "mpp" \in headers[q] /\ pc[q] \in {"sent", "introspect", "gate"} => bearer[q] = None

\* A token that was carried is in the store, and goes along again.
CarriedBy(q) ==
    /\ bearer[q] # None => Covered(q) /\ token[Resource(bearer[q][1])] # None
    /\ pc[q] \in {"introspect", "gate"} => bearer[q] # None
    /\ Checked /\ pc[q] = "pay" => bearer[q] # None
    /\ Checked /\ settled[q] # "none" => "mpp" \in headers[q] \/ bearer[q] # None
    /\ handshook[q] => Named(q)
    /\ handshook[q] /\ pc[q] = "sent" => "mpp" \in headers[q] \/ bearer[q] # None

Carried == \A q \in Trips : CarriedBy(q)

\* Once the trip has had its handshake, or passed the check, it carries the token
\* of its resource.
RightAudienceFor(q) ==
    env.audience /\ Checked =>
        /\ pc[q] = "pay" \/ settled[q] # "none" => Named(q)
        /\ /\ bearer[q] # None
           /\ \/ pc[q] = "gate"
              \/ pc[q] \in {"sent", "introspect"} /\ (handshook[q] \/ settled[q] # "none")
           => Resource(bearer[q][1]) = Resource(q)

RightAudience == \A q \in Trips : RightAudienceFor(q)

LateIsExpired == \A q \in Trips : late[q] => expired # {}

\* A response that only what passed the check can get.
Admitting == {"200", "402", "unpayable"}

\* A token that had expired when its attempt was sent has expired, and the check that
\* has begun found it so; and what passes the check returns only from there.
StaleFor(q) ==
    /\ stale[q] => bearer[q] \in expired
    /\ stale[q] /\ pc[q] = "introspect" => late[q]
    /\ outcome[q] \in Admitting => pc[q] = "returned"
    /\ /\ env.stated /\ Checked
       /\ pc[q] \in {"gate", "pay"} \/ outcome[q] \in Admitting
       => ~stale[q]

StaleInv == \A q \in Trips : StaleFor(q)

\* Only a resource that checks tokens has them introspected, or brings about a
\* handshake.
AskedForToken ==
    \A q \in Trips :
        pc[q] \in {"introspect", "discover", "credentials", "register", "registered", "challenge",
                  "code", "exchange", "save"} => Checked

IInv ==
    /\ TypeOK /\ VerifierKept /\ TokensNamed /\ OneAuthorization /\ Carried
    /\ RightAudience /\ LateIsExpired /\ AskedForToken
    /\ FailsOnlyUnidentified /\ UnauthorizedOnlyIfExpired /\ StaleInv
-------------------------------------------------------------------------------
(***************************************************************************)
(* The walk over parent paths (store.go).                                  *)
(***************************************************************************)

\* A nonempty set of numbers of levels has a least one, where the walk stops.
LEMMA Least ==
  ASSUME NEW S \in SUBSET Nat, S # {}
  PROVE  \E n \in S : \A m \in S : n <= m
  <1>1. PICK n \in S : \A m \in S : ~(<<m, n>> \in OpToRel(<, Nat))
    BY NatLessThanWellFounded, WFMin
  <1>2. \A m \in S : ~(m < n)
    BY <1>1 DEF OpToRel
  <1> QED BY <1>2

\* The paths above a request's path begin with itself and end with the origin,
\* and the resource a 401 names is one of them.
LEMMA PathFacts ==
  ASSUME NEW q \in Trips
  PROVE  /\ Url[q] \in Seq(STRING) /\ Len(Url[q]) \in Nat
         /\ Above(Url[q], 0) = Url[q]
         /\ \A up \in 0..Len(Url[q]) : Above(Url[q], up) \in Paths
         /\ Resource(q) \in Paths
         /\ \E up \in 0..Len(Url[q]) : Resource(q) = Above(Url[q], up)
  <1>1. Url[q] \in Seq(STRING) /\ Len(Url[q]) \in Nat
    BY TripAssumption, LenProperties
  <1>2. Above(Url[q], 0) = Url[q]
    BY <1>1, SubSeqFull DEF Above
  <1>3. Above(Url[q], Len(Url[q])) = <<>>
    BY <1>1, SubSeqEmpty DEF Above
  <1>4. \A up \in 0..Len(Url[q]) : Above(Url[q], up) \in Paths
    BY DEF Paths
  <1>5. 0 \in 0..Len(Url[q]) /\ Len(Url[q]) \in 0..Len(Url[q])
    BY <1>1
  <1>6. \E up \in 0..Len(Url[q]) : Resource(q) = Above(Url[q], up)
    BY <1>2, <1>3, <1>5 DEF Resource
  <1> QED BY <1>1, <1>2, <1>4, <1>6

\* The walk finds a token if there is one on the path or above it, which is one
\* of those, and the path's own before all others.
LEMMA WalkFinds ==
  ASSUME NEW q \in Trips
  PROVE  /\ ~Covered(q) => GetAccessToken(Url[q]) = None
         /\ Covered(q) =>
               \E up \in 0..Len(Url[q]) :
                   /\ GetAccessToken(Url[q]) = token[Above(Url[q], up)]
                   /\ token[Above(Url[q], up)] # None
         /\ token[Url[q]] # None => Covered(q) /\ GetAccessToken(Url[q]) = token[Url[q]]
  <1> DEFINE found == {up \in 0..Len(Url[q]) : token[Above(Url[q], up)] # None}
             least == CHOOSE up \in found : \A more \in found : up <= more
  <1>1. GetAccessToken(Url[q]) = IF found = {} THEN None ELSE token[Above(Url[q], least)]
    BY DEF GetAccessToken
  <1>2. Covered(q) <=> found # {}
    BY DEF Covered
  <1>3. found \in SUBSET Nat
    BY PathFacts
  <1>4. found # {} => least \in found /\ \A more \in found : least <= more
    BY <1>3, Least
  <1>5. ASSUME token[Url[q]] # None PROVE 0 \in found
    BY <1>5, PathFacts
  <1>6. ASSUME token[Url[q]] # None PROVE least = 0
    BY <1>3, <1>4, <1>5, <1>6
  <1> HIDE DEF found, least
  <1>7. Covered(q) => least \in 0..Len(Url[q]) /\ token[Above(Url[q], least)] # None
    BY <1>2, <1>4 DEF found
  <1>8. token[Url[q]] # None => Covered(q) /\ GetAccessToken(Url[q]) = token[Url[q]]
    BY <1>1, <1>2, <1>5, <1>6, PathFacts
  <1> QED BY <1>1, <1>2, <1>7, <1>8

\* What the walk returns is a token or none.
LEMMA WalkType ==
  ASSUME TypeOK, NEW q \in Trips
  PROVE  GetAccessToken(Url[q]) \in Handshakes \cup {None}
  <1>1. \A up \in 0..Len(Url[q]) : token[Above(Url[q], up)] \in Handshakes \cup {None}
    BY PathFacts DEF TypeOK
  <1> QED BY <1>1, WalkFinds
-------------------------------------------------------------------------------
(***************************************************************************)
(* Types.                                                                  *)
(***************************************************************************)

\* The initial state satisfies the invariant.
LEMMA InitIInv == Init => IInv
  <1> SUFFICES ASSUME Init PROVE IInv
    OBVIOUS
  <1> USE DEF Init
  <1>1. TypeOK
    BY TripAssumption DEF TypeOK, Places, Outcomes, Protocols, Handshakes
  <1>2. VerifierKept /\ TokensNamed /\ OneAuthorization /\ Carried /\ RightAudience
        /\ LateIsExpired /\ AskedForToken
    BY DEF VerifierKept, TokensNamed, OneAuthorization, Carried, CarriedBy, RightAudience,
           RightAudienceFor, LateIsExpired, AskedForToken
  <1>3. FailsOnlyUnidentified /\ UnauthorizedOnlyIfExpired /\ StaleInv
    BY DEF FailsOnlyUnidentified, UnauthorizedOnlyIfExpired, StaleInv, StaleFor, Admitting
  <1> QED BY <1>1, <1>2, <1>3 DEF IInv

\* A trip goes from one place to another, or returns one of the outcomes.
LEMMA GotoType ==
  ASSUME TypeOK, NEW q \in Trips, NEW from, NEW to \in Places, Goto(q, from, to)
  PROVE  pc' \in [Trips -> Places]
  BY DEF TypeOK, Goto

\* And so does one that returns from RoundTrip.
LEMMA ReturnType ==
  ASSUME TypeOK, NEW q \in Trips, NEW from, NEW result \in Outcomes, Return(q, from, result)
  PROVE  pc' \in [Trips -> Places] /\ outcome' \in [Trips -> Outcomes]
  BY DEF TypeOK, Return, Goto, Places

\* And what RoundTrip does with a response it is refused by.
LEMMA RefusedType ==
  ASSUME TypeOK, NEW q \in Trips, NEW from, NEW problem, Refused(q, from, Status(problem))
  PROVE  pc' \in [Trips -> Places] /\ outcome' \in [Trips -> Outcomes]
  <1>1. Status(problem) \in Outcomes
    BY DEF Status, Outcomes
  <1>2. "discover" \in Places
    BY DEF Places, Calls
  <1> QED BY <1>1, <1>2, GotoType, ReturnType DEF Refused, TypeOK

\* Every step keeps the types.
LEMMA TypeStep == TypeOK /\ [Next]_vars => TypeOK'
  <1> SUFFICES ASSUME TypeOK, [Next]_vars PROVE TypeOK'
    OBVIOUS
  <1> USE TripAssumption DEF call, seen, store, servers
  <1>a. {"account", "send", "sent", "introspect", "gate", "discover", "credentials", "register",
         "registered", "challenge", "code", "exchange", "save", "pay", "returned"} \subseteq Places
    BY DEF Places, Calls
  <1>b. {"200", "402", "error", "unpayable", "none"} \subseteq Outcomes
    BY DEF Outcomes
  <1>c. \A q \in Trips : Handshake(q) \in Handshakes
    BY DEF TypeOK, Handshake, Handshakes
  <1>1. ASSUME NEW q \in Trips, Send(q) PROVE TypeOK'
    BY <1>1, <1>a, <1>b, GotoType DEF TypeOK, Send
  <1>2. ASSUME NEW q \in Trips, ResolveAccount(q) PROVE TypeOK'
    BY <1>2, <1>a, GotoType DEF TypeOK, ResolveAccount
  <1>3. ASSUME NEW q \in Trips, Attempt(q) PROVE TypeOK'
    <2>1. Attached(q) \in Handshakes \cup {None}
      BY WalkType DEF TypeOK, Attached
    <2>2. bearer' \in [Trips -> Handshakes \cup {None}] /\ stale' \in [Trips -> BOOLEAN]
      BY <1>3, <2>1 DEF TypeOK, Attempt
    <2> QED BY <1>3, <2>1, <2>2, <1>a, GotoType DEF TypeOK, Attempt
  <1>4. ASSUME NEW q \in Trips, CheckToken(q) PROVE TypeOK'
    <2>1. pc' \in [Trips -> Places] /\ outcome' \in [Trips -> Outcomes]
      BY <1>4, <1>a, GotoType, RefusedType DEF CheckToken, TypeOK
    <2>2. late' \in [Trips -> BOOLEAN]
      <3>1. (bearer[q] \in expired) \in BOOLEAN
        OBVIOUS
      <3> QED BY <1>4, <3>1 DEF TypeOK, CheckToken
    <2> QED BY <1>4, <2>1, <2>2 DEF TypeOK, CheckToken
  <1>5. ASSUME NEW q \in Trips, Introspected(q) PROVE TypeOK'
    <2>1. pc' \in [Trips -> Places] /\ outcome' \in [Trips -> Outcomes]
      BY <1>5, <1>a, GotoType, RefusedType DEF Introspected, TypeOK
    <2> QED BY <1>5, <2>1 DEF TypeOK, Introspected
  <1>6. ASSUME NEW q \in Trips, IntrospectFails(q) PROVE TypeOK'
    BY <1>6, RefusedType DEF TypeOK, IntrospectFails
  <1>7. ASSUME NEW q \in Trips, Challenged(q) PROVE TypeOK'
    <2>1. pc' \in [Trips -> Places] /\ outcome' \in [Trips -> Outcomes]
      BY <1>7, <1>a, <1>b, GotoType, ReturnType DEF Challenged, TypeOK
    <2> QED BY <1>7, <2>1 DEF TypeOK, Challenged
  <1>8. ASSUME NEW q \in Trips, Served(q) PROVE TypeOK'
    BY <1>8, <1>b, ReturnType DEF TypeOK, Served
  <1>9. ASSUME NEW q \in Trips, Discover(q) \/ LookUpClient(q) PROVE TypeOK'
    BY <1>9, <1>a, GotoType DEF TypeOK, Discover, LookUpClient
  <1>10. ASSUME NEW q \in Trips, Register(q) \/ SaveClient(q) PROVE TypeOK'
    BY <1>10, <1>a, <1>c, GotoType DEF TypeOK, Register, SaveClient
  <1>11. ASSUME NEW q \in Trips, SavePKCE(q) PROVE TypeOK'
    BY <1>11, <1>a, <1>c, GotoType DEF TypeOK, SavePKCE, StateOf
  <1>12. ASSUME NEW q \in Trips, RequestCode(q) PROVE TypeOK'
    BY <1>12, <1>a, GotoType DEF TypeOK, RequestCode
  <1>13. ASSUME NEW q \in Trips, SignFails(q) \/ Unpayable(q) PROVE TypeOK'
    BY <1>13, <1>b, ReturnType DEF TypeOK, SignFails, Unpayable
  <1>14. ASSUME NEW q \in Trips, ExchangeCode(q) PROVE TypeOK'
    <2>1. pc' \in [Trips -> Places] /\ outcome' \in [Trips -> Outcomes]
      BY <1>14, <1>a, <1>b, GotoType, ReturnType DEF ExchangeCode, TypeOK
    <2> QED BY <1>14, <2>1, <1>c DEF TypeOK, ExchangeCode
  <1>15. ASSUME NEW q \in Trips, SaveToken(q) PROVE TypeOK'
    BY <1>15, <1>a, <1>c, GotoType DEF TypeOK, SaveToken
  <1>16. ASSUME NEW q \in Trips, Authorize(q) PROVE TypeOK'
    BY <1>16, <1>a, GotoType DEF TypeOK, Authorize, Pays, Protocols
  <1>17. ASSUME NEW q \in Trips, CallFails(q) PROVE TypeOK'
    BY <1>17, <1>b, <1>c, ReturnType DEF TypeOK, CallFails
  <1>18. CASE Expire
    BY <1>18 DEF TypeOK, Expire
  <1>19. CASE UNCHANGED vars
    BY <1>19 DEF TypeOK, vars
  <1> QED
    BY <1>1, <1>2, <1>3, <1>4, <1>5, <1>6, <1>7, <1>8, <1>9, <1>10, <1>11, <1>12, <1>13, <1>14,
       <1>15, <1>16, <1>17, <1>18, <1>19 DEF Next, Step
-------------------------------------------------------------------------------
(***************************************************************************)
(* Who changes what.                                                       *)
(***************************************************************************)
Mine(q) == <<pc[q], sends[q], handshook[q], settled[q], headers[q], bearer[q],
             stale[q], late[q], outcome[q]>>

\* An attempt carries the token that is found, and marks it if it has expired.
LEMMA AttemptDoes ==
  ASSUME TypeOK, NEW q \in Trips, Attempt(q)
  PROVE  /\ pc[q] = "send" /\ pc' = [pc EXCEPT ![q] = "sent"]
         /\ bearer' = [bearer EXCEPT ![q] = Attached(q)] /\ bearer'[q] = Attached(q)
         /\ \E b : stale' = [stale EXCEPT ![q] = b]
         /\ stale'[q] <=> Attached(q) \in expired
         /\ UNCHANGED <<env, call, late, outcome, ready, store, servers>>
  <1>1. /\ pc[q] = "send" /\ pc' = [pc EXCEPT ![q] = "sent"]
        /\ bearer' = [bearer EXCEPT ![q] = Attached(q)]
        /\ stale' = [stale EXCEPT ![q] = Attached(q) \in expired]
        /\ UNCHANGED <<env, call, late, outcome, ready, store, servers>>
    BY DEF Attempt, Goto
  <1>2. bearer'[q] = Attached(q)
    BY <1>1 DEF TypeOK
  <1>3. stale'[q] <=> Attached(q) \in expired
    BY <1>1 DEF TypeOK
  <1>4. \E b : stale' = [stale EXCEPT ![q] = b]
    BY <1>1, Zenon
  <1> QED BY <1>1, <1>2, <1>3, <1>4

\* A step of a trip leaves what is the others' alone, and no step changes the
\* environment.
LEMMA Frame ==
  ASSUME TypeOK, [Next]_vars
  PROVE  /\ env' = env
         /\ \A r \in Trips : Mine(r)' # Mine(r) => Send(r) \/ Step(r)
  <1> USE DEF TypeOK, Mine, call, seen, Goto, Return, Refused
  <1>1. ASSUME NEW q \in Trips, Send(q) \/ Step(q)
        PROVE  env' = env /\ \A r \in Trips \ {q} : Mine(r)' = Mine(r)
    <2>1. CASE Send(q)
      BY <2>1 DEF Send
    <2>2. CASE ResolveAccount(q)
      BY <2>2 DEF ResolveAccount
    <2>a. CASE Attempt(q)
      <3>1. /\ \E x : bearer' = [bearer EXCEPT ![q] = x]
            /\ \E b : stale' = [stale EXCEPT ![q] = b]
            /\ pc' = [pc EXCEPT ![q] = "sent"]
            /\ UNCHANGED <<env, call, late, outcome>>
        BY <2>a, AttemptDoes
      <3> QED BY <3>1
    <2>3. CASE CheckToken(q)
      BY <2>3 DEF CheckToken
    <2>4. CASE Introspected(q)
      BY <2>4 DEF Introspected
    <2>5. CASE IntrospectFails(q)
      BY <2>5 DEF IntrospectFails
    <2>6. CASE Challenged(q) \/ Served(q)
      BY <2>6 DEF Challenged, Served
    <2>7. CASE Discover(q) \/ LookUpClient(q) \/ Register(q) \/ SaveClient(q)
      BY <2>7 DEF Discover, LookUpClient, Register, SaveClient
    <2>8. CASE SavePKCE(q) \/ RequestCode(q) \/ SignFails(q) \/ ExchangeCode(q)
      BY <2>8 DEF SavePKCE, RequestCode, SignFails, ExchangeCode
    <2>9. CASE SaveToken(q) \/ Authorize(q) \/ Unpayable(q) \/ CallFails(q)
      BY <2>9 DEF SaveToken, Authorize, Unpayable, CallFails
    <2> QED BY <1>1, <2>1, <2>2, <2>a, <2>3, <2>4, <2>5, <2>6, <2>7, <2>8, <2>9 DEF Step
  <1>2. CASE Expire
    BY <1>2 DEF Expire
  <1>3. CASE UNCHANGED vars
    BY <1>3 DEF vars
  <1> QED BY <1>1, <1>2, <1>3 DEF Next

\* Only SaveToken changes the stored tokens, and only SavePKCE the verifiers.
LEMMA StoreFrame ==
  ASSUME TypeOK, [Next]_vars
  PROVE  /\ token' # token => \E q \in Trips : SaveToken(q)
         /\ pkce' # pkce => \E q \in Trips : SavePKCE(q)
  <1> USE DEF store
  <1>1. ASSUME NEW q \in Trips, Send(q) \/ Step(q)
        PROVE  (token' = token \/ SaveToken(q)) /\ (pkce' = pkce \/ SavePKCE(q))
    <2>1. CASE Send(q) \/ ResolveAccount(q) \/ Attempt(q) \/ CheckToken(q) \/ Introspected(q)
      BY <2>1 DEF Send, ResolveAccount, Attempt, CheckToken, Introspected
    <2>2. CASE IntrospectFails(q) \/ Challenged(q) \/ Served(q) \/ Discover(q) \/ LookUpClient(q)
      BY <2>2 DEF IntrospectFails, Challenged, Served, Discover, LookUpClient
    <2>3. CASE Register(q) \/ SaveClient(q) \/ RequestCode(q) \/ SignFails(q) \/ ExchangeCode(q)
      BY <2>3 DEF Register, SaveClient, RequestCode, SignFails, ExchangeCode
    <2>4. CASE Authorize(q) \/ Unpayable(q) \/ CallFails(q)
      BY <2>4 DEF Authorize, Unpayable, CallFails
    <2>5. CASE SavePKCE(q)
      BY <2>5 DEF SavePKCE
    <2>6. CASE SaveToken(q)
      BY <2>6 DEF SaveToken
    <2> QED BY <1>1, <2>1, <2>2, <2>3, <2>4, <2>5, <2>6 DEF Step
  <1>2. CASE Expire
    BY <1>2 DEF Expire
  <1>3. CASE UNCHANGED vars
    BY <1>3 DEF vars
  <1> QED BY <1>1, <1>2, <1>3 DEF Next

\* A stored token is replaced but never removed, and keeps its resource.
LEMMA TokensStep ==
  ASSUME TypeOK, TokensNamed, [Next]_vars
  PROVE  /\ TokensNamed'
         /\ \A path \in Paths : token[path] # None => token'[path] # None
  <1>1. env' = env
    BY Frame
  <1>2. \A q : Resource(q)' = Resource(q)
    BY <1>1 DEF Resource
  <1>3. ASSUME NEW q \in Trips, SaveToken(q)
        PROVE  /\ TokensNamed'
               /\ \A path \in Paths : token[path] # None => token'[path] # None
    <2>1. Handshake(q) # None /\ Handshake(q)[1] = q
      BY TripAssumption DEF TypeOK, Handshake
    <2>2. Resource(q) \in Paths
      BY PathFacts
    <2>3. \A path \in Paths : token'[path] = IF path = Resource(q) THEN Handshake(q) ELSE token[path]
      BY <1>3, <2>2 DEF SaveToken, TypeOK
    <2> QED BY <1>2, <2>1, <2>3 DEF TokensNamed
  <1>4. CASE token' = token
    BY <1>2, <1>4 DEF TokensNamed
  <1> QED BY <1>3, <1>4, StoreFrame

\* So what the walk or a resource's name found, it finds after every step.
LEMMA StillCovered ==
  ASSUME TypeOK, TokensNamed, [Next]_vars, NEW q \in Trips
  PROVE  (Covered(q) => Covered(q)') /\ (Named(q) => Named(q)')
  <1>1. \A path \in Paths : token[path] # None => token'[path] # None
    BY TokensStep
  <1>2. Resource(q)' = Resource(q)
    BY Frame DEF Resource
  <1> QED BY <1>1, <1>2, PathFacts DEF Covered, Named
-------------------------------------------------------------------------------
(***************************************************************************)
(* The invariant, one part at a time, for one trip r: a step either leaves *)
(* the trip alone or is its own.                                           *)
(***************************************************************************)

\* A verifier stays where its flow will look for it.
LEMMA VerifierStep == TypeOK /\ VerifierKept /\ [Next]_vars => VerifierKept'
  <1> SUFFICES ASSUME TypeOK, VerifierKept, [Next]_vars, NEW r \in Trips,
                      pc'[r] \in {"code", "exchange"}
               PROVE  Verified(r)'
    BY DEF VerifierKept
  <1> USE DEF Verified, StateOf, Handshake
  <1>1. CASE Mine(r)' = Mine(r)
    <2>1. Verified(r) /\ pc'[r] = pc[r] /\ sends'[r] = sends[r]
      BY <1>1 DEF Mine, VerifierKept
    <2>2. ASSUME NEW q \in Trips, SavePKCE(q) PROVE Verified(r)'
      BY <2>1, <2>2 DEF SavePKCE
    <2>3. CASE pkce' = pkce
      BY <2>1, <2>3
    <2> QED BY <2>2, <2>3, StoreFrame
  <1>2. CASE Send(r) \/ Step(r)
    <2> USE DEF TypeOK, Goto, Return, Refused, call, store
    <2>1. CASE SavePKCE(r)
      BY <2>1 DEF SavePKCE
    <2>2. CASE RequestCode(r)
      BY <2>2 DEF RequestCode, VerifierKept
    <2>3. CASE Send(r) \/ ResolveAccount(r) \/ Attempt(r) \/ CheckToken(r) \/ Introspected(r)
      BY <2>3 DEF Send, ResolveAccount, Attempt, CheckToken, Introspected
    <2>4. CASE IntrospectFails(r) \/ Challenged(r) \/ Served(r) \/ Discover(r) \/ LookUpClient(r)
      BY <2>4 DEF IntrospectFails, Challenged, Served, Admitted, Discover, LookUpClient
    <2>5. CASE Register(r) \/ SaveClient(r) \/ SignFails(r) \/ ExchangeCode(r) \/ SaveToken(r)
      BY <2>5 DEF Register, SaveClient, SignFails, ExchangeCode, SaveToken
    <2>6. CASE Authorize(r) \/ Unpayable(r) \/ CallFails(r)
      BY <2>6 DEF Authorize, Unpayable, CallFails
    <2> QED BY <1>2, <2>1, <2>2, <2>3, <2>4, <2>5, <2>6 DEF Step
  <1> QED BY <1>1, <1>2, Frame

\* An attempt carries MPP's credential or a token.
LEMMA OneAuthorizationStep == TypeOK /\ OneAuthorization /\ [Next]_vars => OneAuthorization'
  <1> SUFFICES ASSUME TypeOK, OneAuthorization, [Next]_vars, NEW r \in Trips,
                      "mpp" \in headers'[r], pc'[r] \in {"sent", "introspect", "gate"}
               PROVE  bearer'[r] = None
    BY DEF OneAuthorization
  <1>1. CASE Mine(r)' = Mine(r)
    BY <1>1 DEF Mine, OneAuthorization
  <1>2. CASE Send(r) \/ Step(r)
    <2> USE DEF TypeOK, Goto, Return, Refused, call, seen
    <2>1. CASE Attempt(r)
      BY <2>1 DEF Attempt, Attached
    <2>2. CASE CheckToken(r) \/ Introspected(r)
      BY <2>2 DEF CheckToken, Introspected, OneAuthorization
    <2>3. CASE Send(r) \/ ResolveAccount(r) \/ IntrospectFails(r) \/ Challenged(r) \/ Served(r)
      BY <2>3 DEF Send, ResolveAccount, IntrospectFails, Challenged, Served, Admitted
    <2>4. CASE Discover(r) \/ LookUpClient(r) \/ Register(r) \/ SaveClient(r) \/ SavePKCE(r)
      BY <2>4 DEF Discover, LookUpClient, Register, SaveClient, SavePKCE
    <2>5. CASE RequestCode(r) \/ SignFails(r) \/ ExchangeCode(r) \/ SaveToken(r)
      BY <2>5 DEF RequestCode, SignFails, ExchangeCode, SaveToken
    <2>6. CASE Authorize(r) \/ Unpayable(r) \/ CallFails(r)
      BY <2>6 DEF Authorize, Unpayable, CallFails
    <2> QED BY <1>2, <2>1, <2>2, <2>3, <2>4, <2>5, <2>6 DEF Step
  <1> QED BY <1>1, <1>2, Frame

\* A token that has expired stays so.
LEMMA ExpiredStays ==
  ASSUME [Next]_vars
  PROVE  expired \subseteq expired'
  BY DEF Next, Step, vars, servers, Send, ResolveAccount, Attempt, CheckToken, Introspected,
     IntrospectFails, Challenged, Served, Discover, LookUpClient, Register, SaveClient, SavePKCE,
     RequestCode, SignFails, ExchangeCode, SaveToken, Authorize, Unpayable, CallFails, Expire

\* A trip's record that a token had expired is right.
LEMMA LateStep == TypeOK /\ LateIsExpired /\ [Next]_vars => LateIsExpired'
  <1> SUFFICES ASSUME TypeOK, LateIsExpired, [Next]_vars, NEW r \in Trips, late'[r]
               PROVE  expired' # {}
    BY DEF LateIsExpired
  <1>2. expired \subseteq expired'
    BY ExpiredStays
  <1>3. late[r] \/ bearer[r] \in expired
    <2>1. CASE Mine(r)' = Mine(r)
      BY <2>1 DEF Mine
    <2>2. CASE Send(r) \/ Step(r)
      <3> USE DEF TypeOK, seen
      <3>1. CASE CheckToken(r)
        BY <3>1 DEF CheckToken
      <3>2. CASE Send(r) \/ ResolveAccount(r) \/ Attempt(r) \/ Introspected(r) \/ IntrospectFails(r)
        BY <3>2 DEF Send, ResolveAccount, Attempt, Introspected, IntrospectFails
      <3>3. CASE Challenged(r) \/ Served(r) \/ Discover(r) \/ LookUpClient(r) \/ Register(r)
        BY <3>3 DEF Challenged, Served, Discover, LookUpClient, Register
      <3>4. CASE SaveClient(r) \/ SavePKCE(r) \/ RequestCode(r) \/ SignFails(r) \/ ExchangeCode(r)
        BY <3>4 DEF SaveClient, SavePKCE, RequestCode, SignFails, ExchangeCode
      <3>5. CASE SaveToken(r) \/ Authorize(r) \/ Unpayable(r) \/ CallFails(r)
        BY <3>5 DEF SaveToken, Authorize, Unpayable, CallFails
      <3> QED BY <2>2, <3>1, <3>2, <3>3, <3>4, <3>5 DEF Step
    <2> QED BY <2>1, <2>2, Frame
  <1> QED BY <1>2, <1>3 DEF LateIsExpired

\* Only a resource that checks tokens starts what follows from one.
LEMMA AskedStep == TypeOK /\ AskedForToken /\ [Next]_vars => AskedForToken'
  <1> SUFFICES ASSUME TypeOK, AskedForToken, [Next]_vars, NEW r \in Trips,
                      pc'[r] \in {"introspect", "discover", "credentials", "register", "registered",
                                  "challenge", "code", "exchange", "save"}
               PROVE  Checked'
    BY DEF AskedForToken
  <1>1. Checked' = Checked
    BY Frame DEF Checked
  <1>2. CASE Mine(r)' = Mine(r)
    BY <1>1, <1>2 DEF Mine, AskedForToken
  <1>3. CASE Send(r) \/ Step(r)
    <2> USE <1>1 DEF TypeOK, Goto, Return, Refused, AskedForToken
    <2>1. CASE Send(r) \/ ResolveAccount(r) \/ Attempt(r) \/ CheckToken(r)
      BY <2>1 DEF Send, ResolveAccount, Attempt, CheckToken, Checked
    <2>2. CASE Introspected(r) \/ IntrospectFails(r)
      BY <2>2 DEF Introspected, IntrospectFails
    <2>3. CASE Challenged(r) \/ Served(r) \/ Discover(r) \/ LookUpClient(r) \/ Register(r)
      BY <2>3 DEF Challenged, Served, Admitted, Discover, LookUpClient, Register
    <2>4. CASE SaveClient(r) \/ SavePKCE(r) \/ RequestCode(r) \/ SignFails(r) \/ ExchangeCode(r)
      BY <2>4 DEF SaveClient, SavePKCE, RequestCode, SignFails, ExchangeCode
    <2>5. CASE SaveToken(r) \/ Authorize(r) \/ Unpayable(r) \/ CallFails(r)
      BY <2>5 DEF SaveToken, Authorize, Unpayable, CallFails
    <2> QED BY <1>3, <2>1, <2>2, <2>3, <2>4, <2>5 DEF Step
  <1> QED BY <1>2, <1>3, Frame

\* What the other steps of a trip leave alone, and the places they lead to.
Plain(r) ==
    /\ <<handshook[r], settled[r], headers[r], bearer[r], stale[r]>>' =
       <<handshook[r], settled[r], headers[r], bearer[r], stale[r]>>
    /\ pc'[r] # "sent"
    /\ pc'[r] = "introspect" => CheckToken(r) /\ pc[r] = "sent" /\ bearer[r] # None
    /\ pc'[r] = "gate" => Introspected(r) /\ Passes(r, TRUE) /\ pc[r] = "introspect" /\ late'[r] = late[r]
    /\ pc'[r] = "pay" => pc[r] = Admitted

\* A trip sends, attempts, saves a token, pays, or takes a plain step.
LEMMA OwnStep ==
  ASSUME TypeOK, NEW r \in Trips, Send(r) \/ Step(r)
  PROVE  Send(r) \/ Attempt(r) \/ SaveToken(r) \/ Authorize(r) \/ Plain(r)
  <1> USE DEF TypeOK, Goto, Return, Refused, call, seen, Plain
  <1>1. CASE CheckToken(r)
    BY <1>1 DEF CheckToken
  <1>2. CASE Introspected(r)
    BY <1>2 DEF Introspected, Passes
  <1>3. CASE ResolveAccount(r) \/ IntrospectFails(r) \/ Discover(r) \/ LookUpClient(r)
    BY <1>3 DEF ResolveAccount, IntrospectFails, Discover, LookUpClient
  <1>4. CASE Challenged(r) \/ Served(r)
    BY <1>4 DEF Challenged, Served
  <1>5. CASE Register(r) \/ SaveClient(r) \/ SavePKCE(r) \/ RequestCode(r) \/ SignFails(r)
    BY <1>5 DEF Register, SaveClient, SavePKCE, RequestCode, SignFails
  <1>6. CASE ExchangeCode(r) \/ Unpayable(r) \/ CallFails(r)
    BY <1>6 DEF ExchangeCode, Unpayable, CallFails
  <1> QED BY <1>1, <1>2, <1>3, <1>4, <1>5, <1>6 DEF Step

\* Saving a token stores it under the resource the request is for.
LEMMA SaveNames ==
  ASSUME TypeOK, NEW r \in Trips, SaveToken(r)
  PROVE  /\ Named(r)' /\ handshook'[r] /\ pc'[r] = "send"
         /\ settled' = settled /\ headers' = headers /\ bearer' = bearer
  <1>1. Handshake(r) # None /\ Resource(r) \in Paths
    BY PathFacts, TripAssumption DEF TypeOK, Handshake
  <1>2. Resource(r)' = Resource(r)
    BY DEF SaveToken, Resource
  <1> QED BY <1>1, <1>2 DEF SaveToken, Goto, Named, TypeOK, seen

\* An attempt carries a token that is in the store if the walk finds one, the
\* resource's own if it is there, and MPP's credential has not taken its place.
LEMMA AttemptCarries ==
  ASSUME TypeOK, TokensNamed, NEW r \in Trips, Attempt(r)
  PROVE  /\ pc'[r] = "sent" /\ token' = token /\ headers' = headers /\ settled' = settled
         /\ handshook' = handshook
         /\ bearer'[r] # None =>
               Covered(r) /\ bearer'[r][1] \in Trips /\ token[Resource(bearer'[r][1])] # None
         /\ Covered(r) \/ Named(r) => "mpp" \in headers[r] \/ bearer'[r] # None
         /\ Named(r) /\ bearer'[r] # None => Resource(bearer'[r][1]) = Resource(r)
  <1>1. /\ pc'[r] = "sent" /\ token' = token /\ headers' = headers /\ settled' = settled
        /\ handshook' = handshook /\ bearer'[r] = Attached(r)
    BY DEF Attempt, Goto, TypeOK, call, store
  <1>2. \A up \in 0..Len(Url[r]) :
            /\ Above(Url[r], up) \in Paths
            /\ token[Above(Url[r], up)] \in Handshakes \cup {None}
    BY PathFacts DEF TypeOK
  <1>3. ASSUME bearer'[r] # None
        PROVE  Covered(r) /\ bearer'[r][1] \in Trips /\ token[Resource(bearer'[r][1])] # None
    <2>1. bearer'[r] = GetAccessToken(Url[r]) /\ Covered(r)
      BY <1>1, <1>3, WalkFinds DEF Attached
    <2>2. PICK up \in 0..Len(Url[r]) : /\ bearer'[r] = token[Above(Url[r], up)]
                                       /\ token[Above(Url[r], up)] # None
      BY <2>1, WalkFinds
    <2>3. bearer'[r] \in Handshakes
      BY <1>2, <2>2
    <2>4. bearer'[r][1] \in Trips
      BY <2>3 DEF Handshakes
    <2>5. Resource(bearer'[r][1]) = Above(Url[r], up)
      BY <1>2, <2>2 DEF TokensNamed
    <2> QED BY <2>1, <2>2, <2>4, <2>5
  <1>4. Named(r) => Covered(r)
    BY PathFacts DEF Named, Covered
  <1>5. Covered(r) => "mpp" \in headers[r] \/ bearer'[r] # None
    BY <1>1, WalkFinds DEF Attached
  <1>6. ASSUME Named(r), bearer'[r] # None PROVE Resource(bearer'[r][1]) = Resource(r)
    <2>1. CASE env.metadata = "path"
      <3>1. Resource(r) = Url[r] /\ Resource(r) \in Paths
        BY <2>1, PathFacts DEF Resource
      <3>2. bearer'[r] = token[Url[r]]
        BY <1>1, <1>6, <3>1, WalkFinds DEF Attached, Named
      <3> QED BY <1>6, <3>1, <3>2 DEF TokensNamed
    <2>2. CASE env.metadata # "path"
      BY <2>2 DEF Resource
    <2> QED BY <2>1, <2>2
  <1> QED BY <1>1, <1>3, <1>4, <1>5, <1>6

\* What was carried stays in the store, and goes along with the next attempt.
LEMMA CarriedStep == TypeOK /\ TokensNamed /\ Carried /\ [Next]_vars => Carried'
  <1> SUFFICES ASSUME TypeOK, TokensNamed, Carried, [Next]_vars, NEW r \in Trips
               PROVE  CarriedBy(r)'
    BY DEF Carried
  <1>1. Checked' = Checked /\ \A q : Resource(q)' = Resource(q)
    BY Frame DEF Checked, Resource
  <1>2. (Covered(r) => Covered(r)') /\ (Named(r) => Named(r)')
    BY StillCovered
  <1>3. CarriedBy(r)
    BY DEF Carried
  <1>4. ASSUME bearer[r] # None
        PROVE  Covered(r)' /\ token'[Resource(bearer[r][1])] # None
    <2>1. bearer[r] \in Handshakes
      BY <1>4 DEF TypeOK
    <2>2. Resource(bearer[r][1]) \in Paths
      BY <2>1, PathFacts DEF Handshakes
    <2> QED BY <1>2, <1>3, <1>4, <2>2, TokensStep DEF CarriedBy
  <1>5. CASE Mine(r)' = Mine(r)
    BY <1>1, <1>2, <1>3, <1>4, <1>5 DEF Mine, CarriedBy
  <1>6. CASE Send(r)
    BY <1>6 DEF Send, TypeOK, CarriedBy, Goto
  <1>7. CASE Attempt(r)
    <2>1. Covered(r)' = Covered(r) /\ Named(r)' = Named(r)
      BY <1>1, <1>7, AttemptCarries DEF Covered, Named
    <2> QED BY <1>1, <1>3, <1>7, <2>1, AttemptCarries DEF CarriedBy
  <1>8. CASE SaveToken(r)
    BY <1>1, <1>3, <1>4, <1>8, SaveNames DEF CarriedBy
  <1>9. CASE Authorize(r)
    <2>1. /\ pc[r] = "pay" /\ pc'[r] = "send"
          /\ bearer' = bearer /\ handshook' = handshook
      BY <1>9 DEF Authorize, Goto, TypeOK, seen
    <2> QED BY <1>1, <1>2, <1>3, <1>4, <2>1 DEF CarriedBy
  <1>10. CASE Plain(r)
    <2>1. pc'[r] = "pay" /\ Checked => pc[r] = "gate"
      BY <1>10 DEF Plain, Admitted, Checked
    <2>2. /\ handshook'[r] = handshook[r] /\ settled'[r] = settled[r]
          /\ headers'[r] = headers[r] /\ bearer'[r] = bearer[r]
      BY <1>10 DEF Plain
    <2> QED BY <1>1, <1>2, <1>3, <1>4, <1>10, <2>1, <2>2 DEF Plain, CarriedBy
  <1> QED BY <1>5, <1>6, <1>7, <1>8, <1>9, <1>10, Frame, OwnStep

\* The token a trip carries after its handshake, or after the check, is that of
\* its resource.
LEMMA AudienceStep ==
  TypeOK /\ TokensNamed /\ Carried /\ RightAudience /\ [Next]_vars => RightAudience'
  <1> SUFFICES ASSUME TypeOK, TokensNamed, Carried, RightAudience, [Next]_vars, NEW r \in Trips,
                      env.audience, Checked
               PROVE  RightAudienceFor(r)'
    BY Frame DEF RightAudience, RightAudienceFor, Checked
  <1>1. \A q : Resource(q)' = Resource(q)
    BY Frame DEF Resource
  <1>2. Named(r) => Named(r)'
    BY StillCovered
  <1>3. RightAudienceFor(r) /\ CarriedBy(r)
    BY DEF RightAudience, Carried
  <1>4. CASE Mine(r)' = Mine(r)
    BY <1>1, <1>2, <1>3, <1>4 DEF Mine, RightAudienceFor
  <1>5. CASE Send(r)
    BY <1>5 DEF Send, TypeOK, RightAudienceFor, Goto
  <1>6. CASE Attempt(r)
    <2>1. handshook[r] \/ settled[r] # "none" => Named(r)
      BY <1>3 DEF RightAudienceFor, CarriedBy
    <2> QED BY <1>1, <1>2, <1>3, <1>6, <2>1, AttemptCarries DEF RightAudienceFor
  <1>7. CASE SaveToken(r)
    BY <1>7, SaveNames DEF RightAudienceFor
  <1>8. CASE Authorize(r)
    <2>1. pc[r] = "pay" /\ pc'[r] = "send"
      BY <1>8 DEF Authorize, Goto, TypeOK
    <2> QED BY <1>2, <1>3, <2>1 DEF RightAudienceFor
  <1>9. CASE Plain(r)
    <2>1. /\ handshook'[r] = handshook[r] /\ settled'[r] = settled[r]
          /\ headers'[r] = headers[r] /\ bearer'[r] = bearer[r]
      BY <1>9 DEF Plain
    <2>2. pc'[r] = "pay" => Named(r)
      BY <1>3, <1>9 DEF Plain, Admitted, Checked, RightAudienceFor, CarriedBy, Named
    <2>3. pc'[r] = "gate" => Resource(bearer[r][1]) = Resource(r)
      BY <1>9 DEF Plain, Passes
    <2> QED BY <1>1, <1>2, <1>3, <1>9, <2>1, <2>2, <2>3 DEF Plain, RightAudienceFor
  <1> QED BY <1>4, <1>5, <1>6, <1>7, <1>8, <1>9, Frame, OwnStep

\* A call that is under way returns what only passes the check from the gate or from
\* the payment its challenge asked for.
LEMMA Returning ==
  ASSUME TypeOK, NEW r \in Trips, Step(r)
  PROVE  /\ pc[r] # "returned"
         /\ \/ outcome'[r] = outcome[r]
            \/ /\ pc'[r] = "returned"
               /\ outcome'[r] \in Admitting => pc[r] \in {Admitted, "pay"}
  <1> USE DEF TypeOK, Goto, Return, Refused, Admitting, call
  <1>1. \A problem : Status(problem) \notin Admitting
    BY DEF Status
  <1>2. CASE CheckToken(r) \/ Introspected(r) \/ IntrospectFails(r)
    BY <1>1, <1>2 DEF CheckToken, Introspected, IntrospectFails
  <1>3. CASE Challenged(r) \/ Served(r)
    BY <1>3 DEF Challenged, Served, Admitted
  <1>4. CASE ResolveAccount(r) \/ Attempt(r) \/ Discover(r) \/ LookUpClient(r) \/ Register(r)
    BY <1>4 DEF ResolveAccount, Attempt, Discover, LookUpClient, Register
  <1>5. CASE SaveClient(r) \/ SavePKCE(r) \/ RequestCode(r) \/ SignFails(r) \/ ExchangeCode(r)
    BY <1>5 DEF SaveClient, SavePKCE, RequestCode, SignFails, ExchangeCode
  <1>6. CASE SaveToken(r) \/ Authorize(r) \/ Unpayable(r) \/ CallFails(r)
    BY <1>6 DEF SaveToken, Authorize, Unpayable, CallFails, Calls
  <1> QED BY <1>2, <1>3, <1>4, <1>5, <1>6 DEF Step

\* A token that had expired when it was sent is found so by the check, which reads
\* its clock later, and so gets nowhere.
LEMMA StaleStep == TypeOK /\ StaleInv /\ [Next]_vars => StaleInv'
  <1> SUFFICES ASSUME TypeOK, StaleInv, [Next]_vars, NEW r \in Trips
               PROVE  StaleFor(r)'
    BY DEF StaleInv
  <1>1. StaleFor(r) /\ env' = env /\ Checked' = Checked /\ expired \subseteq expired'
    BY Frame, ExpiredStays DEF StaleInv, Checked
  <1>2. CASE Mine(r)' = Mine(r)
    BY <1>1, <1>2 DEF Mine, StaleFor, Admitting
  <1>3. CASE Send(r)
    <2>1. pc'[r] = "account" /\ ~stale'[r] /\ outcome'[r] = "none"
      <3>1. pc' = [pc EXCEPT ![r] = "account"] /\ outcome' = [outcome EXCEPT ![r] = "none"]
        BY <1>3 DEF Send, Goto
      <3>2. stale' = [stale EXCEPT ![r] = FALSE]
        BY <1>3 DEF Send
      <3>3. pc'[r] = "account" /\ outcome'[r] = "none"
        BY <3>1 DEF TypeOK
      <3>4. ~stale'[r]
        BY <3>2 DEF TypeOK
      <3> QED BY <3>3, <3>4
    <2> QED BY <2>1 DEF StaleFor, Admitting
  <1>4. ASSUME Step(r) PROVE outcome'[r] \in Admitting =>
                                 pc'[r] = "returned" /\ pc[r] \in {Admitted, "pay"}
    BY <1>1, <1>4, Returning DEF StaleFor
  <1>5. CASE Attempt(r)
    <2>1. /\ pc'[r] = "sent" /\ bearer'[r] = Attached(r)
          /\ stale'[r] <=> Attached(r) \in expired
      <3>1. pc'[r] = "sent"
        BY <1>5, AttemptDoes DEF TypeOK
      <3> QED BY <1>5, <3>1, AttemptDoes
    <2>2. outcome'[r] \notin Admitting
      BY <1>4, <1>5, <2>1 DEF Step
    <2> QED BY <1>1, <2>1, <2>2 DEF StaleFor
  <1>6. CASE SaveToken(r) \/ Authorize(r)
    <2>1. pc'[r] = "send" /\ bearer' = bearer /\ stale' = stale
      BY <1>6 DEF SaveToken, Authorize, Goto, TypeOK, seen
    <2>2. outcome'[r] \notin Admitting
      BY <1>4, <1>6, <2>1 DEF Step
    <2> QED BY <1>1, <2>1, <2>2 DEF StaleFor
  <1>7. ASSUME Plain(r), Step(r) PROVE StaleFor(r)'
    <2>1. bearer'[r] = bearer[r] /\ stale'[r] = stale[r]
      BY <1>7 DEF Plain
    <2>2. pc'[r] = "introspect" => late'[r] = (bearer[r] \in expired)
      BY <1>7 DEF Plain, CheckToken, TypeOK
    <2>3. pc'[r] = "gate" => pc[r] = "introspect" /\ ~(env.stated /\ late[r])
      BY <1>7 DEF Plain, Passes
    <2>4. Checked /\ (pc'[r] = "pay" \/ outcome'[r] \in Admitting) => pc[r] \in {"gate", "pay"}
      BY <1>4, <1>7 DEF Plain, Admitted, Checked
    <2> QED BY <1>1, <1>4, <1>7, <2>1, <2>2, <2>3, <2>4 DEF StaleFor
  <1> QED BY <1>2, <1>3, <1>5, <1>6, <1>7, Frame, OwnStep
-------------------------------------------------------------------------------
(***************************************************************************)
(* How calls end.                                                          *)
(***************************************************************************)

\* With servers that answer, only an account without identity makes a call fail.
LEMMA FailsStep ==
  TypeOK /\ VerifierKept /\ AskedForToken /\ FailsOnlyUnidentified /\ [Next]_vars
    => FailsOnlyUnidentified'
  <1> SUFFICES ASSUME TypeOK, VerifierKept, AskedForToken, FailsOnlyUnidentified, [Next]_vars,
                      NEW r \in Trips, env.reliable, outcome'[r] = "error"
               PROVE  env.account = "signer" /\ Checked
    BY Frame DEF FailsOnlyUnidentified, Checked
  <1>1. CASE outcome'[r] = outcome[r]
    BY <1>1 DEF FailsOnlyUnidentified, Checked
  <1>2. CASE outcome'[r] # outcome[r] /\ (Send(r) \/ Step(r))
    <2> USE <1>2 DEF TypeOK, Goto, Return, call, seen
    <2>1. CASE SignFails(r)
      BY <2>1 DEF SignFails, AskedForToken
    <2>2. CASE ExchangeCode(r)
      BY <2>2 DEF ExchangeCode, VerifierKept
    <2>3. CASE CheckToken(r) \/ Introspected(r) \/ IntrospectFails(r)
      <3>1. \A problem : Status(problem) # "error"
        BY DEF Status
      <3> QED BY <2>3, <3>1 DEF CheckToken, Introspected, IntrospectFails, Refused
    <2>4. CASE Send(r) \/ ResolveAccount(r) \/ Attempt(r) \/ Challenged(r) \/ Served(r)
      BY <2>4 DEF Send, ResolveAccount, Attempt, Challenged, Served
    <2>5. CASE Discover(r) \/ LookUpClient(r) \/ Register(r) \/ SaveClient(r) \/ SavePKCE(r)
      BY <2>5 DEF Discover, LookUpClient, Register, SaveClient, SavePKCE
    <2>6. CASE RequestCode(r) \/ SaveToken(r) \/ Authorize(r) \/ Unpayable(r) \/ CallFails(r)
      BY <2>6 DEF RequestCode, SaveToken, Authorize, Unpayable, CallFails
    <2> QED BY <1>2, <2>1, <2>2, <2>3, <2>4, <2>5, <2>6 DEF Step
  <1>3. outcome'[r] = outcome[r] \/ Send(r) \/ Step(r)
    BY Frame DEF Mine
  <1> QED BY <1>1, <1>2, <1>3

\* What excuses a 401 stays.
Excused(r) ==
    \/ expired # {}
    \/ "mpp" \in headers[r]
    \/ env.resource = "middleware" /\ ~env.reliable

\* A 401 that a trip returns is the answer to a token that had expired, to MPP's
\* credential, or to an introspection that failed behind a middleware.
LEMMA UnauthorizedStep ==
  /\ TypeOK /\ Carried /\ RightAudience /\ LateIsExpired /\ AskedForToken
  /\ UnauthorizedOnlyIfExpired /\ [Next]_vars
  => UnauthorizedOnlyIfExpired'
  <1> SUFFICES ASSUME TypeOK, Carried, RightAudience, LateIsExpired, AskedForToken,
                      UnauthorizedOnlyIfExpired, [Next]_vars,
                      NEW r \in Trips, outcome'[r] = "401"
               PROVE  Excused(r)'
    BY DEF UnauthorizedOnlyIfExpired, Excused
  <1>1. env' = env
    BY Frame
  <1>2. expired \subseteq expired'
    BY ExpiredStays
  <1>3. headers[r] \subseteq headers'[r]
    <2>1. CASE Mine(r)' = Mine(r)
      BY <2>1 DEF Mine
    <2>2. CASE Attempt(r)
      BY <2>2, AttemptDoes DEF call
    <2>3. CASE Authorize(r)
      BY <2>3 DEF Authorize, TypeOK
    <2>4. CASE Send(r) \/ SaveToken(r)
      BY <2>4 DEF Send, SaveToken
    <2>5. CASE Plain(r)
      BY <2>5 DEF Plain
    <2> QED BY <2>1, <2>2, <2>3, <2>4, <2>5, Frame, OwnStep
  <1>4. Excused(r) => Excused(r)'
    BY <1>1, <1>2, <1>3 DEF Excused
  <1>5. CASE outcome'[r] = outcome[r]
    BY <1>4, <1>5 DEF UnauthorizedOnlyIfExpired, Excused
  <1>6. CASE outcome'[r] # outcome[r] /\ (Send(r) \/ Step(r))
    <2> USE <1>6 DEF TypeOK, Goto, Return
    <2>1. CASE CheckToken(r)
      <3>1. /\ pc[r] = "sent" /\ bearer[r] = None /\ Checked
            /\ handshook[r] \/ settled[r] # "none"
        BY <2>1 DEF CheckToken, Refused, Checked
      <3> QED BY <1>4, <3>1 DEF Carried, CarriedBy, Excused
    <2>2. CASE Introspected(r)
      <3>1. /\ pc[r] = "introspect" /\ (handshook[r] \/ settled[r] # "none")
            /\ \E active \in BOOLEAN : (bearer[r] \notin expired => active) /\ ~Passes(r, active)
        BY <2>2 DEF Introspected, Refused
      <3>2. bearer[r] # None /\ Checked
        BY <3>1 DEF Carried, CarriedBy, AskedForToken
      <3>3. env.audience => Resource(bearer[r][1]) = Resource(r)
        BY <3>1, <3>2 DEF RightAudience, RightAudienceFor
      <3> QED BY <1>4, <3>1, <3>3 DEF Passes, LateIsExpired, Excused
    <2>3. CASE IntrospectFails(r)
      <3>1. Status("INTROSPECT-ERROR") = "401" => env.resource = "middleware"
        BY DEF Status
      <3> QED BY <1>4, <2>3, <3>1 DEF IntrospectFails, Refused, Excused
    <2>4. CASE Send(r) \/ ResolveAccount(r) \/ Attempt(r) \/ Challenged(r) \/ Served(r)
      BY <2>4 DEF Send, ResolveAccount, Attempt, Challenged, Served
    <2>5. CASE Discover(r) \/ LookUpClient(r) \/ Register(r) \/ SaveClient(r) \/ SavePKCE(r)
      BY <2>5 DEF Discover, LookUpClient, Register, SaveClient, SavePKCE
    <2>6. CASE RequestCode(r) \/ SaveToken(r) \/ Authorize(r) \/ Unpayable(r) \/ CallFails(r)
      BY <2>6 DEF RequestCode, SaveToken, Authorize, Unpayable, CallFails
    <2>7. CASE SignFails(r) \/ ExchangeCode(r)
      BY <2>7 DEF SignFails, ExchangeCode
    <2> QED BY <1>6, <2>1, <2>2, <2>3, <2>4, <2>5, <2>6, <2>7 DEF Step
  <1>7. outcome'[r] = outcome[r] \/ Send(r) \/ Step(r)
    BY Frame DEF Mine
  <1> QED BY <1>5, <1>6, <1>7
-------------------------------------------------------------------------------
(***************************************************************************)
(* A call goes forward.                                                    *)
(***************************************************************************)
SigningIn == {"discover", "credentials", "register", "registered", "challenge", "code",
              "exchange", "save"}

\* A call that signs in has not done so before, and one that signs in or pays has
\* not paid before.
OnceEach(q) ==
    /\ pc[q] \in SigningIn \cup {"account"} => ~handshook[q] /\ settled[q] = "none"
    /\ pc[q] = "pay" => settled[q] = "none"

Once == \A q \in Trips : OnceEach(q)

\* The steps after the attempt a call is at.
Owed(q) == IF settled[q] # "none" THEN 0 ELSE IF handshook[q] THEN 5 ELSE 17

\* The cases of StepsLeft.
Countdown(q) ==
    /\ pc[q] = "returned" => StepsLeft(q) = 0
    /\ pc[q] = "gate" => StepsLeft(q) = 1 + Owed(q)
    /\ pc[q] = "introspect" => StepsLeft(q) = 2 + Owed(q)
    /\ pc[q] = "sent" => StepsLeft(q) = 3 + Owed(q)
    /\ pc[q] = "send" => StepsLeft(q) = 4 + Owed(q)
    /\ pc[q] = "pay" => StepsLeft(q) = 5
    /\ pc[q] = "save" => StepsLeft(q) = 10
    /\ pc[q] = "exchange" => StepsLeft(q) = 11
    /\ pc[q] = "code" => StepsLeft(q) = 12
    /\ pc[q] = "challenge" => StepsLeft(q) = 13
    /\ pc[q] = "registered" => StepsLeft(q) = 14
    /\ pc[q] = "register" => StepsLeft(q) = 15
    /\ pc[q] = "credentials" => StepsLeft(q) = 16
    /\ pc[q] = "discover" => StepsLeft(q) = 17
    /\ pc[q] = "account" => StepsLeft(q) = 22

\* They are.
LEMMA StepsLeftIs ==
  ASSUME NEW q \in Trips
  PROVE  (TypeOK => Countdown(q)) /\ (TypeOK' => Countdown(q)')
  BY DEF StepsLeft, Countdown, Owed, TypeOK

\* A step of a call leads forward: each place it can lead to leaves fewer steps.
LEMMA OwnAdvance ==
  ASSUME TypeOK, TypeOK', NEW r \in Trips, OnceEach(r), Send(r) \/ Step(r)
  PROVE  /\ OnceEach(r)'
         /\ Send(r) \/ StepsLeft(r)' < StepsLeft(r)
  <1> USE DEF TypeOK, Goto, Return, call, OnceEach, SigningIn, Owed, Countdown
  <1>1. Countdown(r) /\ Countdown(r)'
    BY StepsLeftIs
  <1>2. CASE Send(r) \/ ResolveAccount(r) \/ Attempt(r)
    BY <1>1, <1>2 DEF Send, ResolveAccount, Attempt
  <1>3. CASE CheckToken(r)
    BY <1>1, <1>3 DEF CheckToken, Refused
  <1>4. CASE Introspected(r) \/ IntrospectFails(r)
    BY <1>1, <1>4 DEF Introspected, IntrospectFails, Refused
  <1>5. CASE Challenged(r) \/ Served(r)
    BY <1>1, <1>5 DEF Challenged, Served, Admitted
  <1>6. CASE Discover(r) \/ LookUpClient(r) \/ Register(r) \/ SaveClient(r)
    BY <1>1, <1>6 DEF Discover, LookUpClient, Register, SaveClient
  <1>7. CASE SavePKCE(r) \/ RequestCode(r) \/ SignFails(r) \/ ExchangeCode(r)
    BY <1>1, <1>7 DEF SavePKCE, RequestCode, SignFails, ExchangeCode
  <1>8. CASE SaveToken(r)
    BY <1>1, <1>8 DEF SaveToken
  <1>9. CASE Authorize(r) \/ Unpayable(r)
    BY <1>1, <1>9 DEF Authorize, Unpayable, Pays, Protocols
  <1>10. CASE CallFails(r)
    BY <1>1, <1>10 DEF CallFails, Calls
  <1> QED BY <1>2, <1>3, <1>4, <1>5, <1>6, <1>7, <1>8, <1>9, <1>10 DEF Step

\* The steps of others leave a call where it is.
LEMMA OnceStep == TypeOK /\ TypeOK' /\ Once /\ [Next]_vars => Once'
  <1> SUFFICES ASSUME TypeOK, TypeOK', Once, [Next]_vars, NEW r \in Trips
               PROVE  OnceEach(r)'
    BY DEF Once
  <1>1. OnceEach(r)
    BY DEF Once
  <1>2. CASE Mine(r)' = Mine(r)
    BY <1>1, <1>2 DEF Mine, OnceEach
  <1> QED BY <1>1, <1>2, OwnAdvance, Frame

-------------------------------------------------------------------------------
(***************************************************************************)
(* The theorems.                                                           *)
(***************************************************************************)

\* The inductive invariant holds in every reachable state.
THEOREM Invariant == Spec => []IInv
  <1>1. IInv /\ [Next]_vars => IInv'
    BY TypeStep, VerifierStep, TokensStep, OneAuthorizationStep, CarriedStep, AudienceStep, LateStep,
       AskedStep, FailsStep, UnauthorizedStep, StaleStep DEF IInv
  <1> QED BY InitIInv, <1>1, PTL DEF Spec

\* Every variable holds what its field or its step of the code can hold.
THEOREM TypeCorrect == Spec => []TypeOK
  <1>1. IInv => TypeOK
    BY DEF IInv
  <1> QED BY Invariant, <1>1, PTL

\* With servers that answer, a call fails only where the account cannot identify
\* itself: a verifier stays in the store until its own exchange reads it.
THEOREM FailsOnlyUnidentifiedHolds == Spec => []FailsOnlyUnidentified
  <1>1. IInv => FailsOnlyUnidentified
    BY DEF IInv
  <1> QED BY Invariant, <1>1, PTL

\* The attempt that follows a payment carries an access token where the resource
\* wants one: the token that passed the check before the challenge is still found.
THEOREM PaidAndIdentifiedHolds == Spec => []PaidAndIdentified
  <1>1. IInv => PaidAndIdentified
    BY DEF IInv, Carried, CarriedBy, Checked, PaidAndIdentified, Settled
  <1> QED BY Invariant, <1>1, PTL

\* The payment just authorized is the one the gate detects.
THEOREM PresentsItsPaymentHolds == Spec => []PresentsItsPayment
  <1>1. ASSUME IInv, NEW q \in Trips, Settled(q), headers[q] = {settled[q]}
        PROVE  Detected(q) = settled[q]
    <2>1. settled[q] \in Protocols
      BY <1>1 DEF IInv, TypeOK, Settled
    <2>2. settled[q] = "mpp" => bearer[q] = None
      BY <1>1 DEF IInv, OneAuthorization, Settled
    <2> QED BY <1>1, <2>1, <2>2 DEF Detected, Protocols
  <1>2. IInv => PresentsItsPayment
    BY <1>1 DEF PresentsItsPayment
  <1> QED BY Invariant, <1>2, PTL

\* While tokens last, a call that could perform the handshake does not end in a
\* 401, however the trips of the account interleave and whatever their paths.
THEOREM UnauthorizedOnlyIfExpiredHolds == Spec => []UnauthorizedOnlyIfExpired
  <1>1. IInv => UnauthorizedOnlyIfExpired
    BY DEF IInv
  <1> QED BY Invariant, <1>1, PTL

\* A call whose token had expired when its attempt was sent is neither served nor
\* asked to pay.
THEOREM ExpiredNeverPassesHolds == Spec => []ExpiredNeverPasses
  <1>1. IInv => ExpiredNeverPasses
    BY DEF IInv, StaleInv, StaleFor, Admitting, Checked, ExpiredNeverPasses
  <1> QED BY Invariant, <1>1, PTL

\* Each step of a call brings it nearer to its return, however the calls of the
\* account interleave and whatever the servers answer: at most one handshake, one
\* payment and three attempts, so at most 22 steps.
THEOREM CallAdvancesHolds == Spec => CallAdvances
  <1>1. Init => Once
    BY DEF Init, Once, OnceEach, SigningIn
  <1>2. Spec => []Once
    BY <1>1, OnceStep, TypeCorrect, PTL DEF Spec
  <1>3. ASSUME TypeOK, TypeOK', Once, [Next]_vars, NEW r \in Trips, pc'[r] # pc[r]
        PROVE  sends'[r] # sends[r] \/ StepsLeft(r)' < StepsLeft(r)
    <2>1. Send(r) \/ Step(r)
      BY <1>3, Frame DEF Mine
    <2>2. Send(r) => sends'[r] # sends[r]
      BY <1>3 DEF Send, TypeOK
    <2> QED BY <1>3, <2>1, <2>2, OwnAdvance DEF Once
  <1>4. TypeOK /\ TypeOK' /\ Once /\ [Next]_vars =>
            [\A q \in Trips : pc'[q] # pc[q] =>
                sends'[q] # sends[q] \/ StepsLeft(q)' < StepsLeft(q)]_vars
    BY <1>3
  <1> QED BY <1>2, <1>4, TypeCorrect, PTL DEF Spec, CallAdvances
===============================================================================
