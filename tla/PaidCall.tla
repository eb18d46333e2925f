-------------------------------- MODULE PaidCall --------------------------------
(***************************************************************************)
(* What a paid call promises its caller and its merchant, without saying   *)
(* how: it is paid by one means, the handler runs only for a call that is  *)
(* paid in full, one that is turned away was not paid, and what the caller *)
(* was told is final.                                                      *)
(*                                                                         *)
(* A payment is taken at most once, and only for a call that asked for it. *)
(* It may be taken after an error was returned, for an answer that did not *)
(* come says nothing of the payment, but not after the call was served or  *)
(* turned away.  Calls that present one payment may all be served for it:  *)
(* nothing is promised of how often it is presented.                       *)
(***************************************************************************)
CONSTANTS
    Calls,
    Payments,    \* what callers authorized
    PaymentOf    \* the payment a call presents, if it presents one

VARIABLES
    debited,   \* debited[c]: paid by the account, on demand
    asked,     \* asked[c]: the settlement of its payment was asked for
    taken,     \* taken[p]: "nothing", "short" or "full", of the payment
    told      \* told[c]: what the caller got, "none" until then

vars == <<debited, asked, taken, told>>

Unpaid(c) == ~debited[c] /\ ~asked[c]

Init ==
    /\ debited = [c \in Calls |-> FALSE]
    /\ asked = [c \in Calls |-> FALSE]
    /\ taken = [p \in Payments |-> "nothing"]
    /\ told = [c \in Calls |-> "none"]

Tell(c, outcome) ==
    /\ told[c] = "none"
    /\ told' = [told EXCEPT ![c] = outcome]

\* The account is debited, and the answer arrives or ends the call.
Debit(c) ==
    /\ Unpaid(c) /\ told[c] = "none"
    /\ debited' = [debited EXCEPT ![c] = TRUE]
    /\ UNCHANGED told \/ Tell(c, "error")
    /\ UNCHANGED <<asked, taken>>

Ask(c) ==
    /\ Unpaid(c) /\ told[c] = "none"
    /\ asked' = [asked EXCEPT ![c] = TRUE]
    /\ UNCHANGED <<debited, taken, told>>

\* The payment is taken for a call that asked, perhaps for less than the price and
\* perhaps only after its merchant gave up.
Take(c) ==
    LET p == PaymentOf[c] IN
    /\ asked[c] /\ told[c] \in {"none", "error", "unsettled"}
    /\ taken[p] = "nothing"
    /\ \E amount \in {"short", "full"} : taken' = [taken EXCEPT ![p] = amount]
    /\ UNCHANGED <<debited, asked, told>>

Serve(c) ==
    /\ debited[c] \/ (asked[c] /\ taken[PaymentOf[c]] = "full")
    /\ Tell(c, "served")
    /\ UNCHANGED <<debited, asked, taken>>

TurnAway(c) ==
    /\ Unpaid(c)
    /\ Tell(c, "challenged") \/ Tell(c, "unpaid")
    /\ UNCHANGED <<debited, asked, taken>>

\* The settlement of its payment is not known to have covered the price.
LeaveUnsettled(c) ==
    /\ ~debited[c]
    /\ Tell(c, "unsettled")
    /\ UNCHANGED <<debited, asked, taken>>

\* Calls end together when their merchant restarts.
Fail(failing) ==
    /\ \A c \in failing : told[c] = "none"
    /\ told' = [c \in Calls |-> IF c \in failing THEN "error" ELSE told[c]]
    /\ UNCHANGED <<debited, asked, taken>>

Next ==
    \/ \E c \in Calls :
          Debit(c) \/ Ask(c) \/ Take(c) \/ Serve(c) \/ TurnAway(c) \/ LeaveUnsettled(c)
    \/ \E failing \in SUBSET Calls : Fail(failing)

Spec == Init /\ [][Next]_vars
===============================================================================
