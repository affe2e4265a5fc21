------------------------------ MODULE VenueBank ------------------------------
(***************************************************************************)
(* A bank whose deposits are passed on to another lending venue.           *)
(*                                                                         *)
(* The tokens of depositors leave through the liquidity vault for one      *)
(* position (a Kamino or Solend obligation, a Drift user) the bank owns    *)
(* there.  The bank counts the units of that position: collateral tokens   *)
(* or scaled balances.  Nobody borrows from such a bank, its share value   *)
(* stays one, and a share is a unit.                                       *)
(*                                                                         *)
(* This module holds what the three integrations share: the marginfi side  *)
(* of their handlers and everything around them.  The venues are other     *)
(* programs and answer as they like within Slack of what marginfi          *)
(* expects; the handlers of Kamino, Solend and Drift assert the rest.      *)
(*                                                                         *)
(* A handler may also fail because the group is paused, the account is     *)
(* frozen or full, its other balances leave it unhealthy or the oracle     *)
(* does not answer: an action that is enabled need not happen.             *)
(***************************************************************************)
EXTENDS Integers, FiniteSetsExt, Functions

CONSTANTS
    Users,         \* accounts, each with the wallet of its owner
    Supply,        \* tokens in each wallet at first
    Amounts,       \* numbers of tokens and of units users ask for
    InitMin,       \* least deposit that opens a position: 10 in the code
    DepositLimit,  \* of the bank, in units
    Rates,         \* prices of units, as pairs: tokens for a number of units
    Slack,         \* how far a venue's answer may be from what marginfi expects
    UnitValue,     \* value of a unit
    Dollar,        \* one dollar, on the scale of UnitValue
    Day,           \* DAILY_RESET_INTERVAL
    Limits,        \* daily deleverage limits the admin sets, in dollars
    MaxNow,        \* bound on the clock
    MaxGifts,      \* bound on the tokens strangers send to the vault
    MaxExtra       \* bound on the reward positions Drift opens

ASSUME VenueAssumption ==
    /\ IsFiniteSet(Users) /\ "vault" \notin Users
    /\ Supply \in Nat /\ Amounts \subseteq Nat /\ InitMin \in Nat \ {0}
    /\ DepositLimit \in Nat /\ Rates \subseteq (Nat \ {0}) \X (Nat \ {0}) /\ Rates # {}
    /\ Slack \in Nat /\ UnitValue \in Nat \ {0} /\ Dollar \in Nat \ {0}
    /\ Day \in Nat \ {0} /\ Limits \subseteq Nat \ {0}
    /\ MaxNow \in Nat /\ MaxGifts \in Nat /\ MaxExtra \in Nat

VARIABLES
    venue,     \* the program behind the bank
    market,    \* the reserve or spot market there
    position,  \* the obligation or user the bank owns there
    bank,      \* operational state and total_asset_shares
    balances,  \* each account's Balance in this bank
    tokens,    \* of the bank's mint: wallets, liquidity vault
    mode,      \* flags of the accounts
    window,    \* deleverage_withdraw_window_cache of the group
    now

vars == <<venue, market, position, bank, balances, tokens, mode, window, now>>

Venues == {"Kamino", "Solend", "Drift"}
States == {"Paused", "Operational", "ReduceOnly"}

\* No flag, ACCOUNT_DISABLED, ACCOUNT_IN_RECEIVERSHIP, and the latter with
\* ACCOUNT_IN_DELEVERAGE.
Modes == {"normal", "disabled", "receivership", "deleverage"}

\* `weightless`: asset_weight_init is zero.
BankType == [state : States, weightless : BOOLEAN, shares : Nat]

\* `rate` is a member of Rates; `fresh`: last updated now.
MarketType == [rate : Rates, fresh : BOOLEAN]

\* `extra`: active deposits besides the bank's own, in other markets.
PositionType == [open : BOOLEAN, units : Nat, extra : Nat]

TypeOK ==
    /\ venue \in Venues
    /\ market \in MarketType /\ position \in PositionType /\ bank \in BankType
    /\ balances \in [Users -> [active : BOOLEAN, shares : Nat]]
    /\ tokens \in [Users \cup {"vault"} -> Nat]
    /\ mode \in [Users -> Modes]
    /\ window \in [limit : Limits \cup {0}, withdrawn : Nat, since : Nat]
    /\ now \in Nat

Init ==
    /\ venue \in Venues
    /\ market \in {m \in MarketType : m.fresh}
    /\ position = [open |-> FALSE, units |-> 0, extra |-> 0]
    /\ bank = [state |-> "Operational", weightless |-> FALSE, shares |-> 0]
    /\ balances = [u \in Users |-> [active |-> FALSE, shares |-> 0]]
    /\ tokens = [h \in Users \cup {"vault"} |-> IF h = "vault" THEN 0 ELSE Supply]
    /\ mode = [u \in Users |-> "normal"]
    /\ window = [limit |-> 0, withdrawn |-> 0, since |-> 0]
    /\ now = 0

-----------------------------------------------------------------------------
(* Units and tokens *)

\* liquidity_to_collateral_from_scaled; get_scaled_balance without rounding up
ToUnits(m, amount) == (amount * m.rate[2]) \div m.rate[1]

\* collateral_to_liquidity_from_scaled; get_withdraw_token_amount
ToTokens(m, units) == (units * m.rate[1]) \div m.rate[2]

\* What a venue may do when marginfi expects n: a number of units or of tokens.
Answers(n) == {k \in n - Slack .. n + Slack : k >= 0}

\* assert_within_one_token
WithinOne(actual, expected) == actual - expected \in {-1, 0, 1}

\* Interest: later markets, refreshed now, in which a unit is worth no less.
Accrued == {m \in MarketType :
    m.fresh /\ m.rate[1] * market.rate[2] >= market.rate[1] * m.rate[2]}

-----------------------------------------------------------------------------
(* The marginfi side of a deposit and of a withdrawal *)

\* validate_bank_state, and the checks at the head of each deposit
MayDeposit(u) == bank.state = "Operational" /\ mode[u] = "normal"

\* Wrong variant: the bank's total is forgotten.
BookBalanceOnly(u, n) ==
    /\ n > 0 => bank.shares + n < DepositLimit
    /\ balances' = [balances EXCEPT ![u] = [active |-> TRUE, shares |-> @.shares + n]]
    /\ UNCHANGED bank

\* deposit_no_repay of find_or_create; change_asset_shares checks the limit when
\* shares come in.
Book(u, n) ==
    /\ n > 0 => bank.shares + n < DepositLimit
    /\ bank' = [bank EXCEPT !.shares = @ + n]
    /\ balances' = [balances EXCEPT ![u] = [active |-> TRUE, shares |-> @.shares + n]]

\* validate_bank_state and the checks at the head of each withdrawal; an account in
\* receivership gives up nothing that counts for nothing.
MayWithdraw(u) ==
    /\ bank.state # "Paused"
    /\ mode[u] # "disabled"
    /\ mode[u] \in {"receivership", "deleverage"} => ~ bank.weightless
    /\ balances[u].active

\* BankAccountWrapper::withdraw: the balance stays, even with nothing in it.
Unbook(u, n) ==
    /\ n <= balances[u].shares
    /\ bank' = [bank EXCEPT !.shares = @ - n]
    /\ balances' = [balances EXCEPT ![u].shares = @ - n]

\* BankAccountWrapper::withdraw_all: the balance goes.
UnbookAll(u) ==
    /\ balances[u].shares > 0
    /\ bank' = [bank EXCEPT !.shares = @ - balances[u].shares]
    /\ balances' = [balances EXCEPT ![u] = [active |-> FALSE, shares |-> 0]]

\* update_withdrawn_equity, of whole dollars: the window starts over a day after it
\* started, and the withdrawal must fit in it.  A limit of zero is none.
Reset == IF now - window.since >= Day
         THEN [window EXCEPT !.withdrawn = 0, !.since = now] ELSE window
Dollars(units) == (units * UnitValue) \div Dollar

\* Wrong variant: no limit.
SpendUnchecked(units) == window' = [Reset EXCEPT !.withdrawn = @ + Dollars(units)]

Spend(units) ==
    LET w == [Reset EXCEPT !.withdrawn = @ + Dollars(units)]
    IN /\ w.limit # 0 => w.withdrawn <= w.limit
       /\ window' = w

\* Deleverage counts what it withdraws; nothing else does.
Count(u, units) == IF mode[u] = "deleverage" THEN Spend(units) ELSE UNCHANGED window

\* From the user through the vault to the venue.
PaidIn(u, amount) ==
    amount <= tokens[u] /\ tokens' = [tokens EXCEPT ![u] = @ - amount]

\* Wrong variant: the whole vault is paid out.
PaidOutAll(u, received) ==
    tokens' = [tokens EXCEPT ![u] = @ + received + tokens["vault"], !["vault"] = 0]

\* From the venue to the vault: `received` is what the vault gained, and what it
\* pays on to the destination.
PaidOut(u, received) == tokens' = [tokens EXCEPT ![u] = @ + received]

-----------------------------------------------------------------------------
(* Around the handlers *)

\* lending_account_liquidate seizes n units of v for u: shares change owner and the
\* position stays as it is.
Seize(u, v, n) ==
    /\ u # v /\ bank.state # "Paused"
    /\ {mode[u], mode[v]} \subseteq {"normal", "disabled"}
    /\ balances[v].active /\ n <= balances[v].shares
    /\ balances' = [balances EXCEPT
           ![u] = [active |-> TRUE, shares |-> @.shares + n], ![v].shares = @ - n]
    /\ UNCHANGED <<venue, market, position, bank, tokens, mode, window, now>>

\* Starting and ending a receivership or deleverage, disabling an account.
SetMode(u, m) ==
    /\ mode' = [mode EXCEPT ![u] = m]
    /\ UNCHANGED <<venue, market, position, bank, balances, tokens, window, now>>

\* Bank::configure: the operational state and the weight.
Configure(s, w) ==
    /\ bank' = [bank EXCEPT !.state = s, !.weightless = w]
    /\ UNCHANGED <<venue, market, position, balances, tokens, mode, window, now>>

\* configure_deleverage_withdrawal_limit: what was withdrawn today stays, and today
\* starts now.
SetLimit(l) ==
    /\ window' = [window EXCEPT !.limit = l, !.since = now]
    /\ UNCHANGED <<venue, market, position, bank, balances, tokens, mode, now>>

\* Anyone may send tokens to the liquidity vault.
Gift ==
    /\ tokens["vault"] < MaxGifts
    /\ tokens' = [tokens EXCEPT !["vault"] = @ + 1]
    /\ UNCHANGED <<venue, market, position, bank, balances, mode, window, now>>

\* Interest accrues at the venue and somebody refreshes the reserve.
Accrue(m) ==
    /\ m \in Accrued /\ market' = m
    /\ UNCHANGED <<venue, position, bank, balances, tokens, mode, window, now>>

Tick ==
    /\ now < MaxNow /\ now' = now + 1
    /\ market' = [market EXCEPT !.fresh = FALSE]
    /\ UNCHANGED <<venue, position, bank, balances, tokens, mode, window>>

Around ==
    \/ \E u, v \in Users, n \in Amounts : Seize(u, v, n)
    \/ \E u \in Users, m \in Modes : SetMode(u, m)
    \/ \E s \in States, w \in BOOLEAN : Configure(s, w)
    \/ \E l \in Limits : SetLimit(l)
    \/ \E m \in MarketType : Accrue(m)
    \/ Gift \/ Tick

-----------------------------------------------------------------------------
(* Properties *)

\* The bank's total is the sum of the balances.
Booked == SumFunction([u \in Users |-> balances[u].shares])

\* What the position holds beyond the books: the deposit that opened it, and dust.
Cushion == position.units - bank.shares

\* How much a withdrawal may take out of the cushion: solend_withdraw books what it
\* asked for and accepts one unit more.
Tolerance == IF venue = "Solend" THEN 1 ELSE 0

\* Every step of every integration leaves the venue's position covering the books as
\* far as it did, up to the tolerance the code states; the deposits of the users are
\* never paid out to one of them at the expense of the others.
CushionKept ==
    [][position'.units - bank'.shares >= Cushion - Tolerance]_<<position, bank>>

\* The position is worth at least what the accounts hold in it, however their
\* operations, liquidations and interest interleave: every one of them can leave.
BooksCovered ==
    /\ Booked = bank.shares
    /\ (venue # "Solend" /\ position.open) => bank.shares < position.units

\* The inductive invariant: besides the types and the coverage, a position that is not
\* open holds nothing, and no account has shares before it was opened.
IInv ==
    /\ TypeOK /\ BooksCovered
    /\ ~ position.open => position.units = 0
    /\ (venue # "Solend" /\ ~ position.open) => bank.shares = 0

\* Deposits and withdrawals pass through the liquidity vault without taking from it,
\* whatever it holds.
VaultPassesThrough == [][tokens'["vault"] >= tokens["vault"]]_tokens
=============================================================================
