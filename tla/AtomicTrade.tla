---------------------------- MODULE AtomicTrade ----------------------------
(***************************************************************************)
(* What a cycle of the bot promises its user: one step, or none, in which  *)
(* both swaps paid their minimum, the loan, its fee and every older debt   *)
(* are paid, and the account is left with nothing in it.  Nothing of the   *)
(* six instructions it takes, of the simulation or of the markets is seen. *)
(***************************************************************************)
EXTENDS Integers

CONSTANTS LOAN, Fee, PoolOutputs,
          LeastSol, LeastUsdc  \* the least each swap pays

VARIABLES purse,   \* USDC and SOL of the user
          position \* the user's marginfi account

Closed == [debt |-> 0, active |-> {}, inFlashloan |-> FALSE]

Init ==
    /\ purse.usdc \in Nat /\ purse.sol \in Nat
    /\ position.debt \in Nat /\ ~position.inFlashloan

\* `sol` and `usdc` are what the swaps paid.  The second swap sells only what the first
\* was bound to pay: the user keeps the rest.
Settle(sol, usdc) ==
    /\ sol >= LeastSol /\ usdc >= LeastUsdc
    /\ position.active \subseteq {"usdc"}
    /\ purse.usdc + usdc >= position.debt + LOAN + Fee
    /\ purse' = [usdc |-> purse.usdc + usdc - (position.debt + LOAN + Fee),
                 sol |-> purse.sol + sol - LeastSol]
    /\ position' = Closed

Spec == Init /\ [][\E sol, usdc \in PoolOutputs : Settle(sol, usdc)]_<<purse, position>>
=============================================================================
