-------------------------------- MODULE Bank --------------------------------
(***************************************************************************)
(* The books of one bank: share accounting, interest, fees, bad debt.      *)
(*                                                                         *)
(* Depositors hold asset shares and borrowers liability shares; a share is *)
(* worth the bank's share value, which interest raises and socialized      *)
(* losses lower.  The code computes in fixed point (I80F48) and rounds     *)
(* down at every multiplication and division; here a number x stands for   *)
(* x / Unit and rounds in the same places.  Tokens move in whole numbers.  *)
(*                                                                         *)
(* Whether an account is healthy, liquidatable or bankrupt depends on its  *)
(* balances in other banks and on prices, and any of the three may be the  *)
(* case whenever a handler asks.                                           *)
(***************************************************************************)
EXTENDS Integers, FiniteSetsExt, Functions

CONSTANTS
    Users,            \* accounts, each with the wallet of its owner
    Unit,             \* one: 2^48 in the code
    Threshold,        \* ZERO_AMOUNT_THRESHOLD
    CompleteBelow,    \* ZERO_AMOUNT_THRESHOLD * 10
    EmptyThreshold,   \* EMPTY_BALANCE_THRESHOLD
    Supply,           \* tokens in each wallet at first
    Amounts,          \* numbers of tokens users move
    AdminStates,      \* operational states the admin sets
    AdminFlags,       \* whether the admin sets TOKENLESS_REPAYMENTS_ALLOWED, clears it
    Rates,            \* interest a period may bring, before fees
    FeeRates,         \* [insurance, group, program |-> [rate, fixed]] of interest
    OriginationRates, \* what protocol_origination_fee of the bank may be
    ProgramShare,     \* FeeStateCache.program_fee_rate
    DepositLimit, BorrowLimit,  \* of the bank, in tokens
    Liquidations,     \* pairs: debt a liquidator takes over, debt it repays
    MaxValue,         \* bound on the share values
    MaxBelow          \* bound on how far below zero a count of positions goes

FeeKinds == {"insurance", "group", "program"}
States == {"Paused", "Operational", "ReduceOnly", "KilledByBankruptcy"}

\* liquidity_vault, insurance_vault, fee_vault, the fee_ata of the program and the
\* account the admin withdraws to
Vaults == {"liquidity", "insurance", "fee", "program", "admin"}

ASSUME BankAssumption ==
    /\ Unit \in Nat /\ Threshold \in Nat \ {0} /\ Threshold <= CompleteBelow
    /\ CompleteBelow \in Nat /\ CompleteBelow < Unit
    /\ EmptyThreshold \in Nat /\ Threshold <= EmptyThreshold
    /\ IsFiniteSet(Users) /\ Users \intersect Vaults = {}
    /\ Supply \in [Users -> Nat] /\ Amounts \subseteq Nat
    /\ AdminStates \subseteq States \ {"KilledByBankruptcy"}
    /\ AdminFlags \subseteq BOOLEAN
    /\ Rates \subseteq Nat /\ Rates # {} /\ MaxValue \in Nat
    /\ Liquidations \subseteq {l \in Nat \X Nat : l[2] <= l[1]} /\ MaxBelow \in Nat
    /\ FeeRates \in [FeeKinds -> [rate : Nat, fixed : Nat]]
    /\ OriginationRates \subseteq Nat /\ ProgramShare \in 0 .. Unit
    /\ DepositLimit \in Nat /\ BorrowLimit \in Nat

VARIABLES
    bank,      \* the Bank account
    balances,  \* each account's Balance in this bank
    disabled,  \* accounts with ACCOUNT_DISABLED
    tokens     \* tokens in the vaults of the bank and the wallets

vars == <<bank, balances, disabled, tokens>>

TokenlessFlags == {"ALLOWED", "COMPLETE"}

\* `current` says whether last_update is now; `open` whether the bank exists.
BankType == [open : BOOLEAN, state : States, flags : SUBSET TokenlessFlags,
             originationRate : OriginationRates,
             current : BOOLEAN, assets : Nat, liabs : Nat,
             assetValue : Nat, liabValue : Nat,
             fees : [FeeKinds -> Nat], lending : Int, borrowing : Int]

Balance == [active : BOOLEAN, asset : Nat, liab : Nat]
Closed == [active |-> FALSE, asset |-> 0, liab |-> 0]

Min2(m, n) == IF m <= n THEN m ELSE n
Excess(m, n) == IF m <= n THEN 0 ELSE m - n

-----------------------------------------------------------------------------
(* Shares and amounts *)

\* get_asset_amount, get_liability_amount
Amount(shares, value) == (shares * value) \div Unit

\* get_asset_shares, get_liability_shares: shares of a dead bank cost nothing and
\* are none.
Shares(amount, value) == IF value = 0 THEN 0 ELSE (amount * Unit) \div value

TotalAssets(b) == Amount(b.assets, b.assetValue)
TotalLiabs(b) == Amount(b.liabs, b.liabValue)

\* check_utilization_ratio
Utilized(b) == TotalAssets(b) >= TotalLiabs(b)

\* change_asset_shares, change_liability_shares
WithinDepositLimit(b) == TotalAssets(b) < DepositLimit * Unit
WithinBorrowLimit(b) == TotalLiabs(b) < BorrowLimit * Unit

\* How a position count changes when a balance goes from one number of shares to
\* another.
CountChange(before, after) ==
    (IF after > Threshold THEN 1 ELSE 0) - (IF before > Threshold THEN 1 ELSE 0)

\* Balance x of bank b after its shares change by da and dl, and the bank's totals.
Moved(b, x, da, dl) ==
    LET y == [x EXCEPT !.asset = @ + da, !.liab = @ + dl]
    IN [balance |-> y,
        bank |-> [b EXCEPT !.assets = @ + da, !.liabs = @ + dl,
                           !.lending = @ + CountChange(x.asset, y.asset),
                           !.borrowing = @ + CountChange(x.liab, y.liab)]]

\* increase_balance_internal: debt is repaid first, the rest is deposited.
Repaid(b, x, delta) == Min2(Amount(x.liab, b.liabValue), delta)
Deposited(b, x, delta) == Excess(delta, Amount(x.liab, b.liabValue))
Increase(b, x, delta) ==
    Moved(b, x, Shares(Deposited(b, x, delta), b.assetValue),
          - Shares(Repaid(b, x, delta), b.liabValue))

\* decrease_balance_internal: assets are withdrawn first, the rest is borrowed.
Withdrawn(b, x, delta) == Min2(Amount(x.asset, b.assetValue), delta)
Borrowed(b, x, delta) == Excess(delta, Amount(x.asset, b.assetValue))
Decrease(b, x, delta) ==
    Moved(b, x, - Shares(Withdrawn(b, x, delta), b.assetValue),
          Shares(Borrowed(b, x, delta), b.liabValue))

\* find_or_create
Opened(u) == IF balances[u].active THEN balances[u]
             ELSE [active |-> TRUE, asset |-> 0, liab |-> 0]

\* Balance::get_side asserts it, in every health check.
OneSided(x) == x.asset < EmptyThreshold \/ x.liab < EmptyThreshold

-----------------------------------------------------------------------------
(* Interest *)

\* calc_fee_rate
FeeApr(kind, rate) == (rate * FeeRates[kind].rate) \div Unit + FeeRates[kind].fixed

\* calc_interest_rate: what borrowers pay
BorrowingApr(rate) ==
    (rate * (Unit + SumFunction([k \in FeeKinds |-> FeeRates[k].rate]))) \div Unit
        + SumFunction([k \in FeeKinds |-> FeeRates[k].fixed])

\* calc_interest_rate: depositors earn the rate on the part that is lent out.
LendingApr(b, rate) == (rate * ((TotalLiabs(b) * Unit) \div TotalAssets(b))) \div Unit

\* accrue_interest
AccrueInterest(b, rate) ==
    IF b.current \/ TotalAssets(b) = 0 \/ TotalLiabs(b) = 0
    THEN [b EXCEPT !.current = TRUE]
    ELSE [b EXCEPT
            !.current = TRUE,
            !.assetValue = (@ * (Unit + LendingApr(b, rate))) \div Unit,
            !.liabValue = (@ * (Unit + BorrowingApr(rate))) \div Unit,
            !.fees = [k \in FeeKinds |->
                        @[k] + (TotalLiabs(b) * FeeApr(k, rate)) \div Unit]]

\* What the bank may be once a handler has accrued its interest.
Accrued == {b \in {AccrueInterest(bank, rate) : rate \in Rates} :
                b.assetValue <= MaxValue /\ b.liabValue <= MaxValue}

\* Bound on the counts, which every decrement may take below zero.
Counted(b) == b.lending + MaxBelow >= 0 /\ b.borrowing + MaxBelow >= 0

-----------------------------------------------------------------------------

\* validate_bank_state
Is(states) == bank.open /\ bank.state \in states
Unpaused == {"Operational", "ReduceOnly"}

Transfer(from, to, n) ==
    /\ n <= tokens[from]
    /\ tokens' = [tokens EXCEPT ![from] = @ - n, ![to] = @ + n]

\* The bank and the balance of u become those of p.
Book(u, p) ==
    /\ Counted(p.bank)
    /\ bank' = p.bank
    /\ balances' = [balances EXCEPT ![u] = p.balance]

Init ==
    /\ \E rate \in OriginationRates :
       bank = [open |-> TRUE, state |-> "Operational", flags |-> {},
               originationRate |-> rate, current |-> TRUE, assets |-> 0, liabs |-> 0,
               assetValue |-> Unit, liabValue |-> Unit,
               fees |-> [k \in FeeKinds |-> 0], lending |-> 0, borrowing |-> 0]
    /\ balances = [u \in Users |-> Closed]
    /\ disabled = {}
    /\ tokens = [t \in Vaults \union Users |-> IF t \in Users THEN Supply[t] ELSE 0]

\* Wrong variant: the last to come gets everything there is.
PayoutAll(n) == IF "COMPLETE" \in bank.flags THEN tokens["liquidity"] ELSE n

\* Once tokenless repayments are complete, a withdrawal gets what there is.
Payout(n) == IF "COMPLETE" \in bank.flags THEN Min2(n, tokens["liquidity"]) ELSE n

\* n is what deposit_up_to_limit leaves of the amount.
Deposit(u, n) ==
    /\ Is({"Operational"}) /\ "ALLOWED" \notin bank.flags
    /\ u \notin disabled
    /\ n > 0
    /\ \E b \in Accrued :
         LET p == Increase(b, Opened(u), n * Unit) IN
         /\ Repaid(b, Opened(u), n * Unit) < Threshold
         /\ p.bank.assets > b.assets => WithinDepositLimit(p.bank)
         /\ Book(u, p)
    /\ Transfer(u, "liquidity", n)
    /\ UNCHANGED disabled

Withdraw(u, n) ==
    /\ Is(Unpaused)
    /\ u \notin disabled /\ balances[u].active
    /\ \E b \in Accrued :
         LET p == Decrease(b, balances[u], n * Unit) IN
         /\ Borrowed(b, balances[u], n * Unit) < Threshold
         /\ p.bank.liabs > b.liabs => WithinBorrowLimit(p.bank)
         /\ Utilized(p.bank)
         /\ OneSided(p.balance)
         /\ Book(u, p)
    /\ Transfer("liquidity", u, Payout(n))
    /\ UNCHANGED disabled

\* Wrong variant: the shares of the balance stay in the total of the bank.
WithdrawnAllOffBooks(b, x) ==
    [balance |-> Closed, bank |-> [b EXCEPT !.lending = @ - 1]]

\* BankAccountWrapper::withdraw_all: the fraction of a token goes to the insurance
\* fund.
WithdrawnAll(b, x) ==
    [balance |-> Closed,
     bank |-> [b EXCEPT !.assets = @ - x.asset, !.lending = @ - 1,
                        !.fees["insurance"] = @ + (Amount(x.asset, b.assetValue) % Unit)]]

WithdrawAll(u) ==
    /\ Is(Unpaused)
    /\ u \notin disabled /\ balances[u].active
    /\ \E b \in Accrued :
         LET x == balances[u]
             p == WithdrawnAll(b, x)
             amount == Amount(x.asset, b.assetValue) \div Unit
         IN
         /\ Amount(x.asset, b.assetValue) > Threshold
         /\ Amount(x.liab, b.liabValue) < Threshold
         /\ Utilized(p.bank)
         /\ Book(u, p)
         /\ Transfer("liquidity", u, Payout(amount))
    /\ UNCHANGED disabled

Borrow(u, n) ==
    /\ Is({"Operational"}) /\ "ALLOWED" \notin bank.flags
    /\ u \notin disabled
    /\ \E b \in Accrued :
         LET fee == n * bank.originationRate
             program == (fee * ProgramShare) \div Unit
             p == Decrease(b, Opened(u), n * Unit + fee)
         IN
         /\ Withdrawn(b, Opened(u), n * Unit + fee) < Threshold
         /\ p.bank.liabs > b.liabs => WithinBorrowLimit(p.bank)
         /\ Utilized(p.bank)
         /\ OneSided(p.balance)
         /\ Book(u, [p EXCEPT !.bank.fees["program"] = @ + program,
                              !.bank.fees["group"] = @ + fee - program])
    /\ Transfer("liquidity", u, n)
    /\ UNCHANGED disabled

\* Whatever way the debts of the bank are gone, the risk admin may now purge.
Discharged(b) ==
    IF "ALLOWED" \in b.flags /\ b.liabs < CompleteBelow
    THEN [b EXCEPT !.flags = @ \union {"COMPLETE"}] ELSE b

Repay(u, n) ==
    /\ Is(Unpaused)
    /\ u \notin disabled /\ balances[u].active
    /\ \E b \in Accrued :
         LET p == Increase(b, balances[u], n * Unit) IN
         /\ Deposited(b, balances[u], n * Unit) < Threshold
         /\ p.bank.assets > b.assets => WithinDepositLimit(p.bank)
         /\ Book(u, [p EXCEPT !.bank = Discharged(@)])
    /\ Transfer(u, "liquidity", n)
    /\ UNCHANGED disabled

\* BankAccountWrapper::repay_all: whole tokens are paid, and what they exceed the
\* debt by goes to the insurance fund.
TokensFor(amount) == (amount + Unit - 1) \div Unit
RepaidAll(b, x) ==
    LET amount == Amount(x.liab, b.liabValue)
    IN [balance |-> Closed,
        bank |-> [b EXCEPT !.liabs = @ - x.liab, !.borrowing = @ - 1,
                           !.fees["insurance"] = @ + TokensFor(amount) * Unit - amount]]

\* `tokenless`: the risk admin signs, for a bank where tokenless repayments are allowed.
RepayAll(u, tokenless) ==
    /\ Is(Unpaused)
    /\ u \notin disabled /\ balances[u].active
    /\ tokenless => "ALLOWED" \in bank.flags
    /\ \E b \in Accrued :
         LET x == balances[u]
             p == RepaidAll(b, x)
             due == TokensFor(Amount(x.liab, b.liabValue))
         IN
         /\ Amount(x.liab, b.liabValue) > Threshold
         /\ Amount(x.asset, b.assetValue) < Threshold
         /\ Book(u, [p EXCEPT !.bank = Discharged(@)])
         /\ Transfer(u, "liquidity", IF tokenless THEN 0 ELSE due)
    /\ UNCHANGED disabled

\* The totals of the bank keep the dust, and its counts do not change.
CloseBalance(u) ==
    /\ bank.open
    /\ u \notin disabled /\ balances[u].active
    /\ \E b \in Accrued :
         /\ Amount(balances[u].asset, b.assetValue) < Threshold
         /\ Amount(balances[u].liab, b.liabValue) < Threshold
         /\ bank' = b
    /\ balances' = [balances EXCEPT ![u] = Closed]
    /\ UNCHANGED <<disabled, tokens>>

\* lending_account_liquidate, this bank being the one of the debt: liquidator `by`
\* takes over liq of it, `final` of which is repaid for u; the difference is the fee
\* of the insurance fund.
LiquidateDebt(by, u, liq, final) ==
    /\ Is(Unpaused)
    /\ by # u /\ balances[u].active
    /\ \E b \in Accrued :
         LET taken == Decrease(b, Opened(by), liq)
             paid == Increase(taken.bank, balances[u], final)
             fee == liq - final
         IN
         /\ Deposited(taken.bank, balances[u], final) < Threshold
         /\ paid.bank.assets > taken.bank.assets => WithinDepositLimit(paid.bank)
         /\ OneSided(balances[u]) /\ OneSided(taken.balance) /\ OneSided(paid.balance)
         /\ bank' = [paid.bank EXCEPT !.fees["insurance"] = @ + (fee % Unit)]
         /\ balances' = [balances EXCEPT ![by] = taken.balance, ![u] = paid.balance]
         /\ Transfer("liquidity", "insurance", fee \div Unit)
    /\ UNCHANGED disabled

\* lending_account_liquidate, this bank being the one of the collateral: n tokens of it
\* go from the books of u to those of liquidator `by`, whose debt they repay first.
LiquidateCollateral(by, u, n) ==
    /\ Is(Unpaused)
    /\ by # u /\ balances[u].active
    /\ n > 0
    /\ \E b \in Accrued :
         LET given == Decrease(b, balances[u], n * Unit)
             got == Increase(given.bank, Opened(by), n * Unit)
         IN
         /\ Amount(balances[u].asset, b.assetValue) >= n * Unit
         /\ OneSided(balances[u]) /\ OneSided(given.balance) /\ OneSided(got.balance)
         /\ bank' = got.bank
         /\ balances' = [balances EXCEPT ![u] = given.balance, ![by] = got.balance]
    /\ UNCHANGED <<disabled, tokens>>

\* Wrong variant: the debt is socialized before the insurance fund is asked.
CoveredByNobody(debt) == 0

\* The part of a bad debt that the insurance fund pays
CoveredByInsurance(debt) == Min2(debt, tokens["insurance"] * Unit)

\* socialize_loss
SocializeLoss(b, loss) ==
    LET left == Excess(TotalAssets(b), loss)
        value == IF left = 0 THEN 0 ELSE (left * Unit) \div b.assets
    IN [b EXCEPT !.assetValue = value,
                 !.state = IF value = 0 THEN "KilledByBankruptcy" ELSE @]

HandleBankruptcy(u) ==
    /\ Is(Unpaused)
    /\ balances[u].active /\ OneSided(balances[u])
    /\ \E b \in Accrued :
         LET debt == Amount(balances[u].liab, b.liabValue)
             covered == CoveredByInsurance(debt)
         IN
         /\ debt > Threshold
         /\ Transfer("insurance", "liquidity", TokensFor(covered))
         /\ Book(u, Increase(SocializeLoss(b, debt - covered), balances[u], debt))
    /\ disabled' = disabled \union {u}

AccrueBankInterest ==
    /\ bank.open
    /\ bank' \in Accrued
    /\ UNCHANGED <<balances, disabled, tokens>>

Owed(kind, paid) == bank.fees[kind] - paid * Unit

\* Wrong variant: as much is paid as is owed.
PayableUnlimited(kind, liquidity) == bank.fees[kind] \div Unit

Payable(kind, liquidity) == Min2(bank.fees[kind] \div Unit, liquidity)

\* Wrong variant: the group is paid first.
CollectedGroupFirst ==
    LET group == Payable("group", tokens["liquidity"])
        insurance == Payable("insurance", tokens["liquidity"] - group)
        program == Payable("program", tokens["liquidity"] - group - insurance)
    IN [insurance |-> insurance, group |-> group, program |-> program]

\* The insurance fund is paid first, then the group, then the program, as far as the
\* liquidity goes.
Collected ==
    LET insurance == Payable("insurance", tokens["liquidity"])
        group == Payable("group", tokens["liquidity"] - insurance)
        program == Payable("program", tokens["liquidity"] - insurance - group)
    IN [insurance |-> insurance, group |-> group, program |-> program]

CollectBankFees ==
    LET paid == Collected IN
    /\ bank.open
    /\ bank' = [bank EXCEPT !.fees = [k \in FeeKinds |-> Owed(k, paid[k])]]
    /\ tokens' = [tokens EXCEPT
            !["liquidity"] = @ - paid.insurance - paid.group - paid.program,
            !["insurance"] = @ + paid.insurance,
            !["fee"] = @ + paid.group,
            !["program"] = @ + paid.program]
    /\ UNCHANGED <<balances, disabled>>

\* The admin withdraws fees, or insurance funds, to an account of its choice.
WithdrawFees(n) ==
    /\ bank.open
    /\ Transfer("fee", "admin", n)
    /\ UNCHANGED <<bank, balances, disabled>>

WithdrawInsurance(n) ==
    /\ bank.open
    /\ Transfer("insurance", "admin", n)
    /\ UNCHANGED <<bank, balances, disabled>>

Purged(x) == [bank EXCEPT !.assets = @ - x.asset, !.lending = @ - 1]

\* A deposit is forgotten once tokenless repayments are complete.
PurgeDelevBalance(u) ==
    /\ bank.open /\ "COMPLETE" \in bank.flags
    /\ balances[u].active /\ balances[u].liab <= Threshold
    /\ balances' = [balances EXCEPT ![u] = Closed]
    /\ bank' = Purged(balances[u])
    /\ Counted(bank')
    /\ UNCHANGED <<disabled, tokens>>

\* The admin may set any state but that of a killed bank, whatever the state is.
Configure(state, allowed) ==
    /\ bank.open
    /\ bank' = [bank EXCEPT !.state = state,
                            !.flags = IF allowed THEN @ \union {"ALLOWED"}
                                                 ELSE @ \ {"ALLOWED"}]
    /\ UNCHANGED <<balances, disabled, tokens>>

ForceTokenlessRepayComplete ==
    /\ bank.open /\ "ALLOWED" \in bank.flags
    /\ bank' = [bank EXCEPT !.flags = @ \union {"COMPLETE"}]
    /\ UNCHANGED <<balances, disabled, tokens>>

\* Wrong variant: the counts of positions are trusted alone.
NoSharesUnchecked == TRUE

NoShares == bank.assets < Threshold /\ bank.liabs < Threshold

CloseBank ==
    /\ bank.open
    /\ bank.lending = 0 /\ bank.borrowing = 0
    /\ NoShares
    /\ bank' = [bank EXCEPT !.open = FALSE]
    /\ UNCHANGED <<balances, disabled, tokens>>

Tick ==
    /\ bank' = [bank EXCEPT !.current = FALSE]
    /\ UNCHANGED <<balances, disabled, tokens>>

-----------------------------------------------------------------------------

OneAccountStep(u) ==
    \/ \E n \in Amounts : Deposit(u, n) \/ Withdraw(u, n)
    \/ \E n \in Amounts : Borrow(u, n) \/ Repay(u, n)
    \/ WithdrawAll(u)
    \/ \E tokenless \in BOOLEAN : RepayAll(u, tokenless)
    \/ CloseBalance(u)
    \/ HandleBankruptcy(u)
    \/ PurgeDelevBalance(u)

LiquidationStep(by, u) ==
    \/ \E n \in Amounts : LiquidateCollateral(by, u, n)
    \/ \E l \in Liquidations : LiquidateDebt(by, u, l[1], l[2])

BankStep ==
    \/ AccrueBankInterest
    \/ CollectBankFees
    \/ \E n \in Amounts : WithdrawFees(n) \/ WithdrawInsurance(n)
    \/ \E state \in AdminStates, allowed \in AdminFlags : Configure(state, allowed)
    \/ ForceTokenlessRepayComplete
    \/ CloseBank
    \/ Tick

Next ==
    \/ \E u \in Users : OneAccountStep(u)
    \/ \E by, u \in Users : LiquidationStep(by, u)
    \/ BankStep

Spec == Init /\ [][Next]_vars

-----------------------------------------------------------------------------

\* Type correctness: shares, share values, fees owed and tokens never go below zero.
TypeOK ==
    /\ bank \in BankType
    /\ balances \in [Users -> Balance]
    /\ disabled \subseteq Users
    /\ tokens \in [Vaults \union Users -> Nat]

\* The shares of all balances
SharesHeld(side) == SumFunction([u \in Users |-> balances[u][side]])

\* The totals of the bank follow the balances: what leaves them and stays in a total is
\* the dust of a balance that is closed or purged, no more than Threshold.
TotalsFollow(total, side, value) ==
    LET kept == (total' - SharesHeld(side)') - (total - SharesHeld(side))
    IN /\ kept >= 0
       /\ kept > 0 => \E u \in Users :
            /\ balances[u].active /\ ~ balances'[u].active
            /\ kept = balances[u][side]
            /\ Amount(kept, value') < Threshold \/ kept <= Threshold

TotalsFollowBalances ==
    [][/\ TotalsFollow(bank.assets, "asset", bank.assetValue)
       /\ TotalsFollow(bank.liabs, "liab", bank.liabValue)]_vars

\* What bank b has, in its vault and in debts, over what it owes, to depositors and in
\* fees; exact, in units of 1 / Unit^2.
Backing(b, liquidity) ==
    liquidity * Unit * Unit + b.liabs * b.liabValue - b.assets * b.assetValue
        - SumFunction(b.fees) * Unit

\* What rounding may cost in one step, when interest accrues at a rate: a unit of the
\* amount repaid in full, a fraction of a share on either side, and, with the interest,
\* one unit on every liability share and on the utilization.
RoundingLoss(rate) ==
    Unit + bank.assetValue' + bank.liabValue' +
    (IF bank.current \/ TotalAssets(bank) = 0 THEN 0
     ELSE bank.liabs + rate * (TotalLiabs(bank) \div TotalAssets(bank) + 1))

\* A loss that has to be borne by somebody: the end of the bank, or a repayment without
\* tokens.
Written == \/ bank'.state = "KilledByBankruptcy" /\ bank.state # "KilledByBankruptcy"
           \/ "ALLOWED" \in bank.flags /\ bank'.liabs < bank.liabs /\ tokens' = tokens

\* No operation takes from the bank more than rounding: what depositors and the fee
\* accounts are owed is never less covered than before.
NeverLessBacked ==
    [][Written \/ \E rate \in Rates :
        Backing(bank', tokens'["liquidity"])
            >= Backing(bank, tokens["liquidity"]) - RoundingLoss(rate)]_vars

\* Depositors bear a loss only when the insurance fund is exhausted.  Without a loss the
\* value of a share may still fall by one unit, from rounding.
LossAfterInsurance ==
    [][bank.assets >= Unit /\ bank'.assetValue < bank.assetValue - 1
        => tokens'["insurance"] = 0]_vars

\* A bank that is closed leaves no account more than dust, even though the counts of
\* positions it is closed by miss some of them.
ClosedEmpty ==
    ~ bank.open => \A u \in Users :
        balances[u].asset < Threshold /\ balances[u].liab < Threshold

\* The inductive invariant: no account holds shares that are not in the totals, so that
\* totals of next to nothing are a bank that owes, and is owed, next to nothing; a balance
\* that is not active holds none; and debts are only ever worth more.
IInv ==
    /\ TypeOK
    /\ SharesHeld("asset") <= bank.assets
    /\ SharesHeld("liab") <= bank.liabs
    /\ \A u \in Users : ~ balances[u].active => balances[u] = Closed
    /\ Unit <= bank.liabValue
    /\ ClosedEmpty

\* The insurance fund is paid before the others: when fees are paid to the group or the
\* program, the fund is owed less than a token.
InsuranceFirst ==
    [][tokens'["fee"] + tokens'["program"] > tokens["fee"] + tokens["program"]
        => bank'.fees["insurance"] < Unit]_vars

\* guides/RISK_AND_LIQUIDATORS/BANKRUPTCY.md:45, of a killed bank: "This state is
\* irrecoverable, and the bank is permanently disabled."
KilledIsFinal ==
    [][bank.state = "KilledByBankruptcy" => bank'.state = "KilledByBankruptcy"]_vars

\* type-crate/src/types/bank.rs:110, of the counts: "this is the number of positions open
\* in total, and the bank may safely be closed if this is zero."
NoStrandedBalance == ~ bank.open => \A u \in Users : ~ balances[u].active

=============================================================================
