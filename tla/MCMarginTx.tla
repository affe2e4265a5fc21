----------------------------- MODULE MCMarginTx -----------------------------
(***************************************************************************)
(* MarginTx for TLC: two owners with an account each, and the transactions *)
(* that set the scene, borrow in flashloans, and liquidate.                *)
(***************************************************************************)
EXTENDS MarginTx

CONSTANTS a1, a2, a3, u1, u2

Owner(a) == IF a = a1 THEN u1 ELSE u2

I(via, op, a, b, w, n) ==
    [via |-> via, op |-> op, acct |-> a, to |-> b, who |-> w, n |-> n]
\* A direct instruction on account a, and one through another program.
M(op, a, n) == I("marginfi", op, a, a, None, n)
Via(p, op, a, n) == I(p, op, a, a, None, n)
Signed(ss, ixs) == [signers |-> ss, ixs |-> ixs]

UpTo(S, n) == UNION {[1 .. k -> S] : k \in 0 .. n}

-----------------------------------------------------------------------------
(* One instruction at a time, by the owner of the account *)

Initializations ==
    {Signed({Owner(a)}, <<I("marginfi", "initialize", a, a, Owner(a), 0)>>) : a \in {a1, a2}}
Deposits(as) == {Signed({Owner(a)}, <<M("deposit", a, 1)>>) : a \in as}
Borrows(as) == {Signed({Owner(a)}, <<M("borrow", a, 8)>>) : a \in as}
Withdrawals(as) == {Signed({Owner(a)}, <<M("withdraw", a, 1)>>) : a \in as}
Repayments(as) == {Signed({Owner(a)}, <<M("repay", a, 8)>>) : a \in as}
Freezes == {Signed({Admin}, <<M(op, a1, 0)>>) : op \in {"freeze", "unfreeze"}}
Records == {Signed({u2}, <<M("init_liq_record", a, 0)>>) : a \in {a1, a2}}

-----------------------------------------------------------------------------
(* Flashloans of a1: any three instructions after any start *)

FlashOps ==
    {M("borrow", a1, 8), M("withdraw", a1, 1), M("deposit", a1, 1),
     M("end_flashloan", a1, 0), M("end_flashloan", a2, 0),
     Via("other", "end_flashloan", a1, 0), Via("swap", "none", a1, 0),
     I("marginfi", "transfer", a1, a3, u1, 0), M("freeze", a1, 0),
     M("start_flashloan", a1, 4)}

Flashloans ==
    {Signed(ss, <<M("start_flashloan", a1, end)>> \o rest) :
        ss \in {{u1}, {u1, u2, Admin}}, end \in {3, 4}, rest \in UpTo(FlashOps, 3)}

FlashTxs ==
    Initializations \union Deposits({a1}) \union Borrows({a1})
        \union Withdrawals({a1}) \union Freezes
        \union Flashloans
-----------------------------------------------------------------------------
(* Liquidations of a1 by the owner of a2, and deleverages by the risk admin *)

Scene ==
    Initializations \union Deposits({a1, a2}) \union Borrows({a1, a2})
        \union Freezes \union Records
        \union {Signed({u2}, <<I("marginfi", "liquidate", a2, a1, None, 1)>>),
                Signed({RiskAdmin}, <<M("handle_bankruptcy", a1, 0)>>),
                Signed({u1}, <<I("marginfi", "transfer", a1, a3, u1, 0)>>),
                Signed({u1}, <<M("close", a1, 0)>>)}

Preludes == {<<>>, <<Via("compute", "none", a1, 0)>>, <<M("init_liq_record", a1, 0)>>}

ReceivershipOps ==
    {M("withdraw", a1, 1), M("repay", a1, 8), M("repay", a1, 5),
     M("end_liquidation", a1, 0), I("marginfi", "start_liquidation", a2, a2, u2, 0),
     Via("swap", "none", a1, 0), Via("other", "borrow", a1, 8),
     I("swap", "liquidate", a2, a1, None, 1), Via("swap", "end_liquidation", a1, 0)}

Receiverships ==
    {Signed({u2}, prelude
                    \o <<I("marginfi", "start_liquidation", a1, a1, u2, 0)>>
                    \o middle \o end) :
        prelude \in Preludes, middle \in UpTo(ReceivershipOps, 2),
        end \in {<<>>, <<M("end_liquidation", a1, 0)>>, <<M("end_liquidation", a2, 0)>>}}

Deleverages ==
    {Signed({RiskAdmin}, <<M("start_deleverage", a1, 0)>> \o middle
                            \o <<M(end, a1, 0)>>) :
        middle \in UpTo({M("withdraw", a1, 1), M("repay", a1, 8)}, 2),
        end \in {"end_deleverage", "end_liquidation"}}

LiquidationTxs == Scene \union Receiverships \union Deleverages
AllTxs == FlashTxs \union LiquidationTxs

-----------------------------------------------------------------------------
(* A behaviour submits transactions of one family or of the other *)

VARIABLE family

MCInit == Init /\ family \in {"flashloans", "liquidations"}

MCNext ==
    /\ Next
    /\ pc = 0 /\ pc' = 1 => tx' \in (IF family = "flashloans" THEN FlashTxs ELSE LiquidationTxs)
    /\ UNCHANGED family

MCSpec == MCInit /\ [][MCNext]_<<vars, family>>
=============================================================================
