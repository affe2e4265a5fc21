-------------------------------- MODULE Drift --------------------------------
(***************************************************************************)
(* The handlers of a bank that deposits into a Drift spot market.  They    *)
(* bring the market's cumulative interest up to date first, count scaled   *)
(* balances, and rounding goes against the one who withdraws: what leaves  *)
(* the user is rounded up.  Drift's admins may put reward deposits of      *)
(* other markets into the bank's user; anyone may harvest them for the     *)
(* wallet of the fee state.                                                *)
(***************************************************************************)
EXTENDS VenueBank

\* Wrong variant: rounded down.
DecrementDown(m, amount) == ToUnits(m, amount)

\* get_scaled_balance_increment, get_scaled_balance_decrement
Increment(m, amount) == ToUnits(m, amount)
Decrement(m, amount) ==
    IF ToUnits(m, amount) = 0 THEN 0 ELSE ToUnits(m, amount) + 1

\* count_active_deposits
ActiveDeposits == position.extra + (IF position.units > 0 THEN 1 ELSE 0)

\* validate_reward_accounts, with `given` reward markets among the accounts
RewardAccounts(given) ==
    (ActiveDeposits >= 2 => given >= 1) /\ (ActiveDeposits >= 3 => given >= 2)

\* validate_not_bricked_by_admin_deposits
NotBricked == ActiveDeposits <= 3

\* The calls of drift_init_user
DriftOpen(u, amount) ==
    /\ PaidIn(u, amount)
    /\ \E scaled \in Answers(Increment(market, amount)) :
           scaled > 0 /\ position' = [position EXCEPT !.open = TRUE, !.units = scaled]

\* drift_init_user: the deposit is of no account and stays out of the books.
DriftInitUser(u, amount) ==
    /\ venue = "Drift" /\ ~ position.open /\ amount >= InitMin
    /\ DriftOpen(u, amount)
    /\ UNCHANGED <<venue, market, bank, balances, mode, window, now>>

\* The calls of drift_deposit, after the one that updates the market
DriftAccept(u, amount, scaled) ==
    /\ PaidIn(u, amount)
    /\ position' = [position EXCEPT !.units = @ + scaled]

\* What the accounts of drift_deposit must be
DriftDepositable(u) == venue = "Drift" /\ MayDeposit(u) /\ position.open

\* drift_deposit: Drift's answer must be exactly what was expected.
DriftDeposit(u, amount) ==
    /\ DriftDepositable(u)
    /\ market' \in Accrued
    /\ \E scaled \in Answers(Increment(market', amount)) :
           /\ DriftAccept(u, amount, scaled)
           /\ scaled = Increment(market', amount)
           /\ Book(u, scaled)
    /\ UNCHANGED <<venue, mode, window, now>>

\* The calls of drift_withdraw
DriftRelease(u, taken, received) ==
    /\ taken <= position.units
    /\ position' = [position EXCEPT !.units = @ - taken]
    /\ PaidOut(u, received)

\* Wrong variant: the rounding is not corrected.
AllOfUncorrected(m, shares) == ToTokens(m, shares)

\* The amount a withdrawal of all asks for, and a withdrawal of `amount` by one who
\* holds `shares`: one token less, or what the shares are worth, when rounding up
\* would take one unit more than there is.
AllOf(m, shares) ==
    IF Decrement(m, ToTokens(m, shares)) = shares + 1
    THEN ToTokens(m, shares) - 1 ELSE ToTokens(m, shares)
PartOf(m, shares, amount) ==
    IF Decrement(m, amount) = shares + 1 THEN ToTokens(m, shares) ELSE amount

\* What the accounts of drift_withdraw must be
DriftWithdrawable(u) ==
    /\ venue = "Drift" /\ MayWithdraw(u) /\ position.open
    /\ \E given \in 0 .. 2 : RewardAccounts(given)
    /\ NotBricked

\* drift_withdraw of tokens for which the books gave up `scaled`, at least: Drift's
\* answer must be exactly what was expected.
DriftTakeOut(u, amount, scaled) ==
    /\ Count(u, scaled)
    /\ \E taken \in Answers(scaled), received \in Answers(amount) :
           /\ DriftRelease(u, taken, received)
           /\ taken = scaled /\ received = amount
    /\ UNCHANGED <<venue, mode, now>>

\* drift_withdraw of an amount
DriftWithdraw(u, amount) ==
    /\ DriftWithdrawable(u)
    /\ market' \in Accrued
    /\ Decrement(market', amount) <= balances[u].shares + 1
    /\ LET asked == PartOf(market', balances[u].shares, amount)
           scaled == Decrement(market', asked)
       IN Unbook(u, scaled) /\ DriftTakeOut(u, asked, scaled)

\* drift_withdraw of all; when that is worth no token, Drift is not called.
DriftWithdrawAll(u) ==
    /\ DriftWithdrawable(u)
    /\ market' \in Accrued
    /\ LET asked == AllOf(market', balances[u].shares)
           scaled == Decrement(market', asked)
       IN /\ scaled <= balances[u].shares
          /\ UnbookAll(u)
          /\ IF asked > 0 THEN DriftTakeOut(u, asked, scaled)
             ELSE Count(u, scaled) /\ UNCHANGED <<venue, position, tokens, mode, now>>

\* An admin deposit of Drift's, in another market.
AdminDeposit ==
    /\ venue = "Drift" /\ position.open /\ position.extra < MaxExtra
    /\ position' = [position EXCEPT !.extra = @ + 1]
    /\ UNCHANGED <<venue, market, bank, balances, tokens, mode, window, now>>

\* drift_harvest_reward: all of one reward market goes to the fee wallet.
DriftHarvestReward ==
    /\ venue = "Drift" /\ position.extra > 0
    /\ position' = [position EXCEPT !.extra = @ - 1]
    /\ UNCHANGED <<venue, market, bank, balances, tokens, mode, window, now>>

DriftNext ==
    \/ \E u \in Users, n \in Amounts :
           DriftInitUser(u, n) \/ DriftDeposit(u, n) \/ DriftWithdraw(u, n)
    \/ \E u \in Users : DriftWithdrawAll(u)
    \/ AdminDeposit \/ DriftHarvestReward

-----------------------------------------------------------------------------
(* Properties *)

\* What an account is worth at a market, in tokens and its scale.
Worth(m, t, n) == t * m.rate[2] + n * m.rate[1]

\* The step leaves u no more than it had, or less than a unit more, for nothing.
KeepsWorth(u) ==
    LET before == Worth(market', tokens[u], balances[u].shares)
        after == Worth(market', tokens'[u], balances'[u].shares)
    IN after <= before \/ (after < before + market'.rate[1] /\ UNCHANGED position)

\* No deposit or withdrawal at Drift makes an account worth more at the market's new
\* rate: every rounding goes to the position the others share.  The exception is an
\* amount that is less than one unit, which leaves the position for nothing.
NoFreeTokens ==
    [][\A u \in Users : DriftNext => KeepsWorth(u)]_<<market, tokens, balances>>

\* An account that may withdraw can withdraw everything: whatever its shares and the
\* rate, the correction leaves nothing that the sanity check would refuse.
LeavesAtAnyRate ==
    \A u \in Users, m \in MarketType :
        Decrement(m, AllOf(m, balances[u].shares)) <= balances[u].shares

=============================================================================
