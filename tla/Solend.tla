------------------------------- MODULE Solend -------------------------------
(***************************************************************************)
(* The handlers of a bank that deposits into a Solend reserve.  They read  *)
(* the obligation's bytes themselves: one deposit, in this reserve, that   *)
(* is not zero, and no borrow.  A stale reserve is refused by marginfi.    *)
(***************************************************************************)
EXTENDS VenueBank

\* validate_solend_obligation; is_stale
ValidObligation == position.open /\ position.units > 0
ReserveFresh == market.fresh

\* The calls of solend_init_obligation; Solend refuses a stale reserve.
SolendOpen(u, amount) ==
    /\ ReserveFresh
    /\ PaidIn(u, amount)
    /\ \E minted \in Answers(ToUnits(market, amount)) :
           minted > 0 /\ position' = [position EXCEPT !.open = TRUE, !.units = minted]

\* solend_init_obligation: the deposit is of no account and stays out of the books.
SolendInitObligation(u, amount) ==
    /\ venue = "Solend" /\ ~ position.open /\ amount >= InitMin
    /\ SolendOpen(u, amount)
    /\ UNCHANGED <<venue, market, bank, balances, mode, window, now>>

\* The calls of solend_deposit
SolendAccept(u, amount, minted) ==
    /\ PaidIn(u, amount)
    /\ position' = [position EXCEPT !.units = @ + minted]

\* What the accounts of solend_deposit must be
SolendDepositable(u) ==
    venue = "Solend" /\ ValidObligation /\ ReserveFresh /\ MayDeposit(u)

\* solend_deposit: books what the obligation gained.
SolendDeposit(u, amount) ==
    /\ SolendDepositable(u)
    /\ \E minted \in Answers(ToUnits(market, amount)) :
           /\ SolendAccept(u, amount, minted)
           /\ WithinOne(minted, ToUnits(market, amount))
           /\ Book(u, minted)
    /\ UNCHANGED <<venue, market, mode, window, now>>

\* The calls of solend_withdraw
SolendRelease(u, taken, received) ==
    /\ taken <= position.units
    /\ position' = [position EXCEPT !.units = @ - taken, !.open = taken < position.units]
    /\ PaidOut(u, received)

\* What the accounts of solend_withdraw must be
SolendWithdrawable(u) ==
    venue = "Solend" /\ ValidObligation /\ ReserveFresh /\ MayWithdraw(u)

\* solend_withdraw of units the books gave up: what the obligation lost and what the
\* vault received are each within one of those and of their worth.
SolendTakeOut(u, units) ==
    /\ Count(u, units)
    /\ \E taken \in Answers(units), received \in Answers(ToTokens(market, units)) :
           /\ SolendRelease(u, taken, received)
           /\ WithinOne(taken, units)
           /\ WithinOne(received, ToTokens(market, units))
    /\ UNCHANGED <<venue, market, mode, now>>

SolendWithdraw(u, units) ==
    SolendWithdrawable(u) /\ Unbook(u, units) /\ SolendTakeOut(u, units)

SolendWithdrawAll(u) ==
    SolendWithdrawable(u) /\ UnbookAll(u) /\ SolendTakeOut(u, balances[u].shares)

SolendNext ==
    \/ \E u \in Users, n \in Amounts :
           \/ SolendInitObligation(u, n)
           \/ SolendDeposit(u, n)
           \/ SolendWithdraw(u, n)
    \/ \E u \in Users : SolendWithdrawAll(u)
=============================================================================
