------------------------------- MODULE MCBank -------------------------------
(***************************************************************************)
(* A small bank: two accounts, one unit a quarter of a token.  A bank with *)
(* an origination fee earns interest and has its debts liquidated; one     *)
(* without is being wound up: the admin changes its state, allows          *)
(* repayments without tokens and takes that back, and no interest accrues. *)
(***************************************************************************)
EXTENDS Bank

MCFeeRates == [insurance |-> [rate |-> 2, fixed |-> 0],
               group |-> [rate |-> 0, fixed |-> 0],
               program |-> [rate |-> 0, fixed |-> 0]]

MCLiquidations == {<<8, 4>>}

MCSupply == [u1 |-> 2, u2 |-> 2]

Sunset == bank.originationRate = 0

MCNext ==
    /\ \/ \E u \in Users : OneAccountStep(u)
       \/ ~ Sunset /\ \E by, u \in Users : LiquidationStep(by, u)
       \/ Sunset /\ \E by, u \in Users, n \in Amounts : LiquidateCollateral(by, u, n)
       \/ BankStep
    /\ IF Sunset THEN bank'.liabValue = Unit
       ELSE bank'.flags = {} /\ bank'.state \in {bank.state, "KilledByBankruptcy"}

MCSpec == Init /\ [][MCNext]_vars
=============================================================================
