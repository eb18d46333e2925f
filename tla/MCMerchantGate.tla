----------------------------- MODULE MCMerchantGate -----------------------------
(***************************************************************************)
(* Instances of MerchantGate small enough for TLC.                         *)
(***************************************************************************)
EXTENDS MerchantGate, TLC

CONSTANTS t1, t2, k1, k2, u1, u2

\* Two trips, each with its session; with a credential each, or one for both.
OwnCred == t1 :> k1 @@ t2 :> k2
SharedCred == [t \in {t1, t2} |-> k1]
OwnSession == [t \in {t1, t2} |-> t]

OneUser == [t \in {t1, t2} |-> u1]
TwoUsers == t1 :> u1 @@ t2 :> u2
===============================================================================
