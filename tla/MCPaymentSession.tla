--------------------------- MODULE MCPaymentSession ---------------------------
(***************************************************************************)
(* Instances of PaymentSession small enough for TLC.                       *)
(***************************************************************************)
EXTENDS PaymentSession, TLC

CONSTANTS s1, s2, k1, c1, c2, c3

\* One session closed by up to three calls.
OneCred == [s \in {s1} |-> k1]
ThreeCloses == [c \in {c1, c2, c3} |-> s1]

\* A retried request: two sessions for one credential, the first closed twice.
SharedCred == [s \in {s1, s2} |-> k1]
TwoRequests == c1 :> s1 @@ c2 :> s1 @@ c3 :> s2

\* The two calls that close s1 are interchangeable.
Calls == Permutations({c1, c2})
===============================================================================
