----------------------------- MODULE SupportCache -----------------------------
(***************************************************************************)
(* server/supported.go: one of the process-wide ttlCaches behind the       *)
(* challenges of a merchant, and the authorization server whose keys (the  *)
(* upto facilitator's address, the MPP channel signers) it keeps.          *)
(* Challenges that miss at the same time all fetch; a fetch may fail, and  *)
(* its answer may be old by the time it is set.  A challenge looks up the  *)
(* facilitators first and the channel signers next, and is built then: its *)
(* facilitators may be older by the whole of the second lookup.            *)
(*                                                                         *)
(* A step is one critical section of ttlCache.mu, the moment the server    *)
(* answers, the end of a challenge's lookups, a rotation of a key, or a    *)
(* tick of the clock.                                                      *)
(***************************************************************************)
EXTENDS Integers, FiniteSets

CONSTANTS
    Challenges,    \* the challenges being built: one buildOmniError call each
    Chains,        \* what the endpoint lists: networks, or tempo and solana
    TTL,           \* supportedCacheTTL, in ticks
    FetchTime,     \* the HTTP client's timeout, in ticks
    MaxRotations,  \* bound on the changes of the server's keys
    MaxTime        \* bound on the clock

ASSUME SupportAssumption ==
    /\ TTL \in Nat \ {0}
    /\ FetchTime \in Nat
    /\ MaxRotations \in Nat
    /\ MaxTime \in Nat

\* Keys are numbered in the order the server takes them into use.  A chain has no
\* key when it is not supported; an entry may also name an empty one.
NoKey == 0
Blank == -1
Keys == 1..MaxRotations
Times == 0..MaxTime
Never == -1     \* the time of what has not happened

VARIABLES
    endpoint,   \* whose cache it is: of /x402/supported or of /mpp/supported
    now,        \* the clock
    published,  \* the key of each chain at the server
    complete,   \* the chains whose entry at the server has every field
    rotations,  \* the number of keys the server has taken into use
    born,       \* when a key was taken into use
    gone,       \* when it was replaced or withdrawn
    at,         \* ttlCache.at of the endpoint, Never without an entry
    value,      \* ttlCache.value of the endpoint
    pc,         \* where the challenge is
    began,      \* when its fetch began, or the lookup that follows
    got,        \* the keys it has: from the cache, or from its fetch
    built,      \* when the challenge was built
    failed      \* its own fetch failed

serverKeys == <<published, complete, rotations, born, gone>>
cache == <<at, value>>
challenge == <<pc, began, got, built, failed>>
vars == <<endpoint, now, serverKeys, cache, challenge>>

\* How long buildOmniError may still be looking up the channel signers.
After == IF endpoint = "x402" THEN FetchTime ELSE 0

Nothing == [x \in Chains |-> NoKey]

Init ==
    /\ endpoint \in {"x402", "mpp"}
    /\ now = 0
    /\ published = Nothing
    /\ complete = Chains
    /\ rotations = 0
    /\ born = [k \in Keys |-> Never]
    /\ gone = [k \in Keys |-> Never]
    /\ at = Never
    /\ value = Nothing
    /\ pc = [q \in Challenges |-> "get"]
    /\ began = [q \in Challenges |-> Never]
    /\ got = [q \in Challenges |-> Nothing]
    /\ built = [q \in Challenges |-> Never]
    /\ failed = [q \in Challenges |-> FALSE]
-------------------------------------------------------------------------------
\* Variant: an entry lives one tick longer.
LiveAtTTL == at # Never /\ now - at <= TTL

\* get: the entry, unless its TTL is over.
Live == at # Never /\ now - at < TTL

\* The lookup is over, with or without a fetch.
LookedUp(q) ==
    /\ pc' = [pc EXCEPT ![q] = "looked"]
    /\ began' = [began EXCEPT ![q] = now]
    /\ UNCHANGED <<endpoint, now, serverKeys, built>>

\* Variant: an entry that is used lives on.
HitRefreshes(q) ==
    /\ pc[q] = "get" /\ Live
    /\ at' = now
    /\ got' = [got EXCEPT ![q] = value]
    /\ LookedUp(q)
    /\ UNCHANGED <<value, failed>>

Hit(q) ==
    /\ pc[q] = "get" /\ Live
    /\ got' = [got EXCEPT ![q] = value]
    /\ LookedUp(q)
    /\ UNCHANGED <<cache, failed>>

Miss(q) ==
    /\ pc[q] = "get" /\ ~Live
    /\ pc' = [pc EXCEPT ![q] = "fetch"]
    /\ began' = [began EXCEPT ![q] = now]
    /\ UNCHANGED <<endpoint, now, serverKeys, cache, got, built, failed>>

\* The GET.  The server's answer is what it publishes at that moment.  An entry
\* without one of its fields is dropped; the map of facilitators has no fields to
\* miss, and may map a network to an empty address.
Entry(x) ==
    IF published[x] = NoKey \/ x \in complete THEN published[x]
    ELSE IF endpoint = "x402" THEN Blank ELSE NoKey

Answer(q) ==
    /\ pc[q] = "fetch"
    /\ pc' = [pc EXCEPT ![q] = "answered"]
    /\ got' = [got EXCEPT ![q] = [x \in Chains |-> Entry(x)]]
    /\ UNCHANGED <<endpoint, now, serverKeys, cache, began, built, failed>>

\* No connection, a bad status, a body that is cut short or no JSON, the timeout.
FetchFails(q) ==
    /\ pc[q] \in {"fetch", "answered"}
    /\ got' = [got EXCEPT ![q] = Nothing]
    /\ failed' = [failed EXCEPT ![q] = TRUE]
    /\ LookedUp(q)
    /\ UNCHANGED cache

\* Variants: the entry gets the time it ends at; is kept even if it lists nothing.
SetDeadline(q) ==
    /\ pc[q] = "answered"
    /\ IF got[q] # Nothing
       THEN at' = now + TTL /\ value' = got[q]
       ELSE UNCHANGED cache
    /\ LookedUp(q)
    /\ UNCHANGED <<got, failed>>
SetEmpty(q) ==
    /\ pc[q] = "answered"
    /\ at' = now /\ value' = got[q]
    /\ LookedUp(q)
    /\ UNCHANGED <<got, failed>>

\* set, with the present time and only if there is something to keep, be it a map
\* of empty addresses.
Set(q) ==
    /\ pc[q] = "answered"
    /\ IF got[q] # Nothing
       THEN at' = now /\ value' = got[q]
       ELSE UNCHANGED cache
    /\ LookedUp(q)
    /\ UNCHANGED <<got, failed>>

\* buildOmniError has what it needs and builds the challenge.
Build(q) ==
    /\ pc[q] = "looked"
    /\ pc' = [pc EXCEPT ![q] = "built"]
    /\ built' = [built EXCEPT ![q] = now]
    /\ began' = [began EXCEPT ![q] = Never]
    /\ UNCHANGED <<endpoint, now, serverKeys, cache, got, failed>>

\* Another challenge takes the place of one that is built.
Begin(q) ==
    /\ pc[q] = "built"
    /\ pc' = [pc EXCEPT ![q] = "get"]
    /\ got' = [got EXCEPT ![q] = Nothing]
    /\ built' = [built EXCEPT ![q] = Never]
    /\ failed' = [failed EXCEPT ![q] = FALSE]
    /\ UNCHANGED <<endpoint, now, serverKeys, cache, began>>
-------------------------------------------------------------------------------
(***************************************************************************)
(* The authorization server takes a new key into use for a chain, or       *)
(* withdraws its key, or publishes an entry without one of its fields.     *)
(***************************************************************************)
Withdrawn(x) ==
    IF published[x] = NoKey THEN gone ELSE [gone EXCEPT ![published[x]] = now]

Rotate(x) ==
    /\ rotations < MaxRotations
    /\ rotations' = rotations + 1
    /\ published' = [published EXCEPT ![x] = rotations']
    /\ complete' \in {complete \cup {x}, complete \ {x}}
    /\ born' = [born EXCEPT ![rotations'] = now]
    /\ gone' = Withdrawn(x)
    /\ UNCHANGED <<endpoint, now, cache, challenge>>

Withdraw(x) ==
    /\ published[x] # NoKey
    /\ published' = [published EXCEPT ![x] = NoKey]
    /\ gone' = Withdrawn(x)
    /\ UNCHANGED <<endpoint, now, complete, rotations, born, cache, challenge>>

\* Time passes; a fetch that is under way has ended before its timeout is over.
Tick ==
    /\ now < MaxTime
    /\ \A q \in Challenges :
          /\ pc[q] \in {"fetch", "answered"} => now - began[q] < FetchTime
          /\ pc[q] = "looked" => now - began[q] < After
    /\ now' = now + 1
    /\ UNCHANGED <<endpoint, serverKeys, cache, challenge>>

Next ==
    \/ Tick
    \/ \E x \in Chains : Rotate(x) \/ Withdraw(x)
    \/ \E q \in Challenges :
          Hit(q) \/ Miss(q) \/ Answer(q) \/ FetchFails(q) \/ Set(q)
          \/ Build(q) \/ Begin(q)

Spec == Init /\ [][Next]_vars
-------------------------------------------------------------------------------
(***************************************************************************)
(* Correctness.                                                            *)
(***************************************************************************)
KeyMaps == [Chains -> Keys \cup {NoKey, Blank}]

\* Every variable holds what its Go field, or the server, can hold.
TypeOK ==
    /\ endpoint \in {"x402", "mpp"}
    /\ now \in Times
    /\ published \in [Chains -> Keys \cup {NoKey}]
    /\ complete \subseteq Chains
    /\ rotations \in 0..MaxRotations
    /\ born \in [Keys -> Times \cup {Never}]
    /\ gone \in [Keys -> Times \cup {Never}]
    /\ at \in Times \cup {Never}
    /\ value \in KeyMaps
    /\ pc \in [Challenges -> {"get", "fetch", "answered", "looked", "built"}]
    /\ began \in [Challenges -> Times \cup {Never}]
    /\ got \in [Challenges -> KeyMaps]
    /\ built \in [Challenges -> Times \cup {Never}]
    /\ failed \in [Challenges -> BOOLEAN]

\* "A long-lived merchant process must not advertise a stale one indefinitely":
\* a key is in no challenge built a TTL and one fetch after the server dropped it,
\* though a late set gives an old answer a new timestamp; a facilitator's address,
\* which is looked up first, in none built another fetch later.
BoundedStaleness ==
    \A q \in Challenges, x \in Chains :
        LET key == got[q][x] IN
        pc[q] = "built" /\ key \in Keys /\ gone[key] # Never
            => built[q] < gone[key] + TTL + FetchTime + After

\* A key with a complete entry is in every challenge built a TTL and one fetch
\* (two, of a facilitator) after the server took it into use, unless the
\* challenge's own fetch failed: neither an answer kept for another chain nor an
\* empty address hides it for longer.
KeyArrives ==
    \A q \in Challenges, x \in Chains :
        LET key == published[x] IN
        /\ pc[q] = "built" /\ ~failed[q]
        /\ key # NoKey /\ x \in complete
        /\ built[q] >= born[key] + TTL + FetchTime + After
        => got[q][x] = key

\* "The empty/failed result is not cached, so a later call can retry": a challenge
\* that got an empty result, though its fetch worked, was built within one fetch
\* (two, of the facilitators) of the moment the server had nothing to offer; no
\* other's failure is behind it.
NothingIsRetried ==
    \A q \in Challenges, x \in Chains :
        LET key == published[x] IN
        /\ pc[q] = "built" /\ ~failed[q] /\ got[q] = Nothing
        /\ key # NoKey /\ x \in complete
        => built[q] <= born[key] + FetchTime + After
===============================================================================
