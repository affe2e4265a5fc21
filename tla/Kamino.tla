------------------------------- MODULE Kamino -------------------------------
(***************************************************************************)
(* The handlers of a bank that deposits into a Kamino reserve.  Kamino     *)
(* refuses a reserve that was not refreshed in the slot.  The position is  *)
(* the obligation's first deposit, in collateral tokens.                   *)
(***************************************************************************)
EXTENDS VenueBank

\* The calls of kamino_init_obligation: the reserve is refreshed, the obligation made,
\* and a deposit put into it that must not be nothing to Kamino.
KaminoOpen(u, amount) ==
    /\ market' = [market EXCEPT !.fresh = TRUE]
    /\ PaidIn(u, amount)
    /\ \E minted \in Answers(ToUnits(market, amount)) :
           minted > 0 /\ position' = [position EXCEPT !.open = TRUE, !.units = minted]

\* kamino_init_obligation: the deposit is of no account and stays out of the books.
KaminoInitObligation(u, amount) ==
    /\ venue = "Kamino" /\ ~ position.open /\ amount >= InitMin
    /\ KaminoOpen(u, amount)
    /\ UNCHANGED <<venue, bank, balances, mode, window, now>>

\* The calls of kamino_deposit
KaminoAccept(u, amount, minted) ==
    /\ PaidIn(u, amount)
    /\ position' = [position EXCEPT !.units = @ + minted]

\* What the accounts of kamino_deposit must be
KaminoDepositable(u) ==
    venue = "Kamino" /\ MayDeposit(u) /\ position.open /\ market.fresh

\* Wrong variant: books what marginfi expected the obligation to gain.
KaminoDepositExpected(u, amount) ==
    /\ KaminoDepositable(u)
    /\ \E minted \in Answers(ToUnits(market, amount)) :
           /\ KaminoAccept(u, amount, minted)
           /\ WithinOne(minted, ToUnits(market, amount))
           /\ Book(u, ToUnits(market, amount))
    /\ UNCHANGED <<venue, market, mode, window, now>>

\* kamino_deposit: books what the obligation gained.
KaminoDeposit(u, amount) ==
    /\ KaminoDepositable(u)
    /\ \E minted \in Answers(ToUnits(market, amount)) :
           /\ KaminoAccept(u, amount, minted)
           /\ WithinOne(minted, ToUnits(market, amount))
           /\ Book(u, minted)
    /\ UNCHANGED <<venue, market, mode, window, now>>

\* The calls of kamino_withdraw: the obligation loses `taken` and the vault receives
\* `received`, which it pays on.  Kamino closes an obligation that is empty.
KaminoRelease(u, taken, received) ==
    /\ taken <= position.units
    /\ position' = [position EXCEPT !.units = @ - taken, !.open = taken < position.units]
    /\ PaidOut(u, received)

\* What the accounts of kamino_withdraw must be
KaminoWithdrawable(u) ==
    venue = "Kamino" /\ MayWithdraw(u) /\ position.open /\ market.fresh

\* kamino_withdraw of units the books gave up: the obligation must have lost just
\* those, and the vault received what they are worth, give or take a token.
KaminoTakeOut(u, units) ==
    /\ Count(u, units)
    /\ \E taken \in Answers(units), received \in Answers(ToTokens(market, units)) :
           /\ KaminoRelease(u, taken, received)
           /\ taken = units
           /\ WithinOne(received, ToTokens(market, units))
    /\ UNCHANGED <<venue, market, mode, now>>

KaminoWithdraw(u, units) ==
    KaminoWithdrawable(u) /\ Unbook(u, units) /\ KaminoTakeOut(u, units)

KaminoWithdrawAll(u) ==
    KaminoWithdrawable(u) /\ UnbookAll(u) /\ KaminoTakeOut(u, balances[u].shares)

KaminoNext ==
    \/ \E u \in Users, n \in Amounts :
           \/ KaminoInitObligation(u, n)
           \/ KaminoDeposit(u, n)
           \/ KaminoWithdraw(u, n)
    \/ \E u \in Users : KaminoWithdrawAll(u)
=============================================================================
