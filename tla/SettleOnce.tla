------------------------------ MODULE SettleOnce ------------------------------
(***************************************************************************)
(* What a payment session promises the merchant that opened it, without    *)
(* saying how: charges accumulate, and the outcome is decided by a single  *)
(* attempt at a time, for the amount charged when that attempt began.      *)
(*                                                                         *)
(*   open     charges accumulate, nothing has been decided                 *)
(*   closing  one attempt has begun, for the amount due                    *)
(*   asking   the attempt may have reached the authorization server        *)
(*   paid     at least the amount due was collected (final)                *)
(*   short    less than the amount due was collected (final)               *)
(*   failed   the attempt failed and will not be repeated (final)          *)
(*                                                                         *)
(* Only a channel goes back from asking to open: a one-shot credential is  *)
(* never presented for settlement twice.                                   *)
(***************************************************************************)
EXTENDS Integers

CONSTANT Sessions

VARIABLES
    channel,   \* the sessions opened for a channel credential (never changes)
    charged,   \* charged[s]: the sum of the charges accepted
    phase,     \* phase[s]: how far the session's outcome is decided
    due,       \* due[s]: what the attempt under way must collect, 0 without one
    taken      \* taken[s]: what the authorization server says it collected

vars == <<channel, charged, phase, due, taken>>

Init ==
    /\ channel \in SUBSET Sessions
    /\ charged = [s \in Sessions |-> 0]
    /\ phase = [s \in Sessions |-> "open"]
    /\ due = [s \in Sessions |-> 0]
    /\ taken \in [Sessions -> Int]

Charge(s) ==
    /\ charged'[s] > charged[s]
    /\ charged' = [charged EXCEPT ![s] = charged'[s]]
    /\ UNCHANGED <<channel, phase, due, taken>>

Begin(s) ==
    /\ phase[s] = "open"
    /\ charged[s] > 0 \/ s \in channel
    /\ phase' = [phase EXCEPT ![s] = "closing"]
    /\ due' = [due EXCEPT ![s] = charged[s]]
    /\ UNCHANGED <<channel, charged, taken>>

Ask(s) ==
    /\ phase[s] = "closing"
    /\ phase' = [phase EXCEPT ![s] = "asking"]
    /\ UNCHANGED <<channel, charged, due, taken>>

\* The attempt ends undecided, and a later one may begin.
Withdraw(s) ==
    /\ \/ phase[s] = "closing"
       \/ phase[s] = "asking" /\ s \in channel
    /\ phase' = [phase EXCEPT ![s] = "open"]
    /\ due' = [due EXCEPT ![s] = 0]
    /\ UNCHANGED <<channel, charged, taken>>

Fail(s) ==
    /\ phase[s] \in {"closing", "asking"} /\ s \notin channel
    /\ phase' = [phase EXCEPT ![s] = "failed"]
    /\ due' = [due EXCEPT ![s] = 0]
    /\ UNCHANGED <<channel, charged, taken>>

Collect(s) ==
    /\ phase[s] = "asking"
    /\ taken' = [taken EXCEPT ![s] = taken'[s]]
    /\ phase' = [phase EXCEPT ![s] = IF taken'[s] >= due[s] THEN "paid" ELSE "short"]
    /\ due' = [due EXCEPT ![s] = 0]
    /\ UNCHANGED <<channel, charged>>

Next == \E s \in Sessions :
    Charge(s) \/ Begin(s) \/ Ask(s) \/ Withdraw(s) \/ Fail(s) \/ Collect(s)

Spec == Init /\ [][Next]_vars
===============================================================================
