------------------------------- MODULE MCChallenge -------------------------------
(***************************************************************************)
(* Instances of Challenge small enough for TLC.                            *)
(***************************************************************************)
EXTENDS Challenge

At(chain, address) == [chain |-> chain, address |-> address]

\* A merchant paid on Base or into an ATXP account.
MCPrimaries == {At("base", "0x1"), At("atxp", "acct")}

\* A second address on its chain, a second chain of each kind, and an address
\* that is of no use to x402.
MCPool == {At("base", "0x2"), At("base", "b1"), At("base_sepolia", "0x2"),
           At("solana", "b1"), At("tempo", "0x3")}

MCSupports == {[upto |-> {}, solana |-> FALSE, tempo |-> FALSE],
               [upto |-> {"base"}, solana |-> FALSE, tempo |-> TRUE],
               [upto |-> {"base", "base_sepolia"}, solana |-> TRUE, tempo |-> TRUE]}
===============================================================================
