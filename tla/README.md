# A TLA+ model of the flash-loan bot and of marginfi v2

The repository holds two programs for Solana and what is needed to use them:

* `marginfi-v2/programs/marginfi`, a lending protocol: banks, margin accounts,
  flashloans, liquidation, bankruptcy, administration;
* `programs/flash_loan_bot` with its client `tests/flash_loan_bot.ts`, which
  borrows from marginfi in a flashloan, swaps on Raydium and Orca, and repays,
  in one transaction.

This directory models the parts where a wrong order, a stale copy or a rounding
does damage, checks them with TLC on small instances, and proves the central
facts with TLAPS for every value of the constants.  Paths below are relative to
`src/`; `P` stands for `marginfi-v2/programs/marginfi/src`, `T` for
`marginfi-v2/type-crate/src/types`.

## 1. Inventory

### 1.1 Panic pause — `P/state/panic_state.rs`, `T/panic_state_cache.rs`

*State.* One `PanicState` in the global `FeeState` (flag, start of the pause,
pauses today, consecutive pauses, last reset); in every group a
`PanicStateCache` (flag, start, time of the copy).
*Operations.* `panic_pause` (starts or extends), `panic_unpause`,
`panic_unpause_permissionless`, `propagate_fee` (copies to a group),
`initialize_group`.
*Interaction.* All financial instructions ask their group's copy, never the
`FeeState`.
*Hard.* Stale copies; a counter reset by the first pause after a day; pauses
extended, cancelled and started again.
*Correct when* a pause is bounded in time wherever it is enforced, only a pause
in force is ever propagated into effect, the allowance per day cannot be
exceeded by more than the reset explains, and a group comes back by itself.

### 1.2 Account transactions — `P/instructions/marginfi_account`, `P/ix_utils.rs`, `P/state/marginfi_account.rs`

*State.* `MarginfiAccount`: authority, flags (disabled, in flashloan, in
receivership, in deleverage, frozen), up to 16 balances; `LiquidationRecord`:
receiver and snapshot.  During a transaction, the list of its instructions.
*Operations.* `lending_account_start_flashloan` / `end_flashloan`,
`start_liquidation` / `end_liquidation`, `start_deleverage` / `end_deleverage`,
`init_liq_record`, deposit, withdraw, borrow, repay, classic liquidate, handle
bankruptcy, initialize, transfer to a new account, freeze, close.
*Interaction.* Handlers read the transaction's other instructions to make sure
that the bracket they open is closed; the risk engine reads banks and oracles;
other programs may invoke marginfi in between.
*Hard.* A flag suspends the health check between two instructions that nobody
but introspection ties together; receivership suspends the authority check;
flags travel with a transferred account; the record outlives its account.
*Correct when* no transaction commits an open bracket, none leaves an account
unhealthier than the rules allow, and nobody's positions move without consent
unless the account was liquidatable, and then at a bounded cost.

### 1.3 Bank books — `P/state/bank.rs`, `P/state/interest_rate.rs`, the wrapper in `P/state/marginfi_account.rs`

*State.* `Bank`: total asset and liability shares, the two share values, fees
owed to insurance, group and program, counts of positions, operational state,
tokenless flags, last update; a `Balance` per account; three token vaults.
*Operations.* deposit, withdraw, withdraw all, borrow, repay, repay all, close
balance, both sides of a liquidation, handle bankruptcy, accrue interest,
collect fees, withdraw fees and insurance, purge, configure, force tokenless
completion, close bank.
*Hard.* Every conversion rounds; four paths close a balance and each updates
totals and counts differently; three claims compete for the vault; a killed
bank has shares worth zero.
*Correct when* totals follow balances, no operation takes from depositors more
than rounding, losses fall on insurance first, and a closed bank owes nothing.

### 1.4 Arbitrage cycle — `programs/flash_loan_bot/src/lib.rs`, `tests/flash_loan_bot.ts`

*State.* The wallet's USDC and SOL, the user's marginfi account, the pools.
*Operations.* start flashloan, borrow, `proxy_raydium`, `proxy_orca`, repay, end
flashloan, in one transaction; the client simulates, then sends.
*Hard.* The market moves between simulation and execution; amounts are fixed
when the transaction is composed; a leftover debt fails the last instruction.
*Correct when* a committed cycle owes nothing and loses no more than it allowed.

### 1.5 Lookup table client — `sendWithFreshBlockhash`, `waitForLookupTable` in `tests/flash_loan_bot.ts`

*State.* The table on chain, the transactions in flight, the attempt.
*Hard.* A transaction believed lost is sent again and included twice;
confirmation does not mean success; readiness is judged by a count.
*Correct when* a table taken for ready is complete and the set-up ends.

### 1.6 Venues — `P/instructions/{kamino,solend,drift}`, the mocks' `state.rs` for what they read

*State.* The bank (shares, which are units of the position there), a `Balance`
per account, the liquidity vault the tokens pass through, the one obligation or
Drift user the bank owns; outside, the reserve or spot market.
*Operations.* `*_init_obligation` / `drift_init_user` with the first deposit,
deposit, withdraw, withdraw all, `drift_harvest_reward`; classic liquidations of
such balances; for deleverages, the daily window of the group.
*Interaction.* Each handler calls another program between its checks and
believes it within one token; interest there changes the rate between two calls.
*Hard.* Two programs round, each its own way; amounts are read before a call and
compared after it; the vault also holds what strangers send.
*Correct when* the position covers the books, everybody can leave, rounding pays
nobody, and the vault gives away nothing of its own.

### 1.7 Deleverage withdrawal window — `P/state/marginfi_group.rs`

*State.* Limit, dollars withdrawn since the reset, time of the reset.
*Operations.* `update_withdrawn_equity` in every withdrawal of an account in
deleverage; `configure_deleverage_withdrawal_limit`.
*Hard.* The day begins when somebody withdraws; values are cut to whole dollars.
*Correct when* two allowances bound any day.

### 1.8 Configuration — `P/state/{bank_config,interest_rate,emode,staked_settings}.rs` and their instructions

*State.* Each bank's weights, tier, limits, oracle, curve, emode entries and
flags; the group's leverage limits; the group's staked settings.
*Operations.* Adding banks (by the admin, by anyone for stake pools, for a
venue), configuring all, interest only or limits only, oracle, fixed price,
emode and cloning it, migrating the curve, the group, creating, editing and
propagating staked settings, completing tokenless repayments.
*Interaction.* Six kinds of signer write the same record; the flags are shared
with emissions.
*Hard.* What is validated is not always what is stored; freezing is asked for by
some writers and not by others.
*Correct when* settings stay sound whoever wrote last, every curve has a rate at
every utilization, and freezing holds as far as the code carries it.

### 1.9 Emissions — `P/instructions/marginfi_account/emissions.rs`, `claim_emissions`

*State.* Rate and remaining funds in the bank, rewards owed in each balance, the
vault, the destination of an account.
*Operations.* setup, update, every change of a balance (which claims first),
settle, withdraw by the owner or for him, destination, close, purge.
*Hard.* A claim applies the present rate to the whole past period.
*Correct when* what is owed and what remains is in the vault.

### 1.10 Risk engine and oracles — `P/state/marginfi_account.rs`, `P/state/price.rs`, `T/emode.rs`

*State.* The balances of an account, the settings of their banks, and what each
oracle reads: price, average, confidences, time, and the rate behind a share of
a venue or stake pool.
*Operations.* deposit, borrow, repay, withdraw, close, liquidate, bankruptcy, as
far as they depend on more than one bank.
*Hard.* Three requirements with different prices, biases and weights; emode
depends on all debts together; a stale oracle counts for nothing in one check
and fails another.
*Correct when* whoever takes a risk owns what it owes, nobody accepted is
liquidatable at steady prices, and incompatible positions never meet.

### 1.11 The rest

Health and price caches, the command line client, discovery scripts, mocks,
fuzzing and test support: section 7 says why they are left out.  `PROJECT.json`
lists every part with its sources and status.

### 1.12 How the parts meet

A bot transaction (1.4) is a transaction of 1.2 whose deposits and debts are
shares of 1.3, refused while 1.1 suspends the group, judged by 1.10 with the
settings of 1.8, and compressed with the table of 1.5.  `FlashLoanBot` composes
1.5 and 1.4; `Emissions` extends `BankConfig`, as both write a bank's flags;
`RiskEngine` extends `Oracle`; the three integrations extend `VenueBank`.
Elsewhere a module restates what it needs of another: `BotCycle` that a
flashloan ends only on an account without balances, as no oracle accounts are
passed, and that brackets are refused in a CPI; `Bank` takes the answer of the
risk engine as any answer; `MarginTx` and `RiskEngine` take balances as amounts;
`RiskEngine` takes the settings as standing still.

## 2. Modules

| module | models | extended by |
|---|---|---|
| `PanicPause` | 1.1 | `MCPanicPause` (a history of pauses, the fair clock), extended by `PanicPauseProofs` |
| `MarginTx` | 1.2 | `MCMarginTx` (sets of transactions), `MarginTxProofs` |
| `Bank` | 1.3 | `MCBank`, `BankProofs` |
| `SumsAndQuotients` | nothing of the system: facts on sums over a finite set, on products and on quotients | `BankProofs`, `VenueProofs`, `ConfigProofs`, `RiskProofs` |
| `AtomicTrade` | what 1.4 promises | instantiated by `BotCycle` |
| `BotCycle` | 1.4 | `FlashLoanBot` |
| `LookupTable` | 1.5 | `MCLookupTable`; instantiated by `FlashLoanBot` |
| `FlashLoanBot` | 1.4 and 1.5, a whole run | `MCFlashLoanBot`, `FlashLoanBotProofs` |
| `VenueBank` | 1.7, what 1.6 shares | `Kamino`, `Solend`, `Drift` |
| `Kamino`, `Solend`, `Drift` | 1.6 | `Venues` |
| `Venues` | the banks of the three integrations, in one system | `DeleverageDay` |
| `DeleverageDay` | `Venues` with a history of what left within a day | `MCVenues`, `VenueProofs` |
| `InterestCurve` | the curves of 1.8 | `BankConfig` |
| `BankConfig` | 1.8 | `Emissions` |
| `Emissions` | 1.9, and 1.8 with it | `MCConfig`, `ConfigProofs` |
| `Oracle` | prices of 1.10 | `RiskEngine` |
| `RiskEngine` | 1.10 | `MCRisk` (budgets of steps), `RiskProofs` |

`PROJECT.json` maps every definition that stands for code to its lines.
Definitions that begin "Wrong variant" are not used by any specification: each
is a plausible bug in the definition it precedes or follows, kept to show that a
property notices it.

### 2.1 PanicPause

`panic` is the `PanicState`, `cache[g]` the copy of group `g`, `now` the clock in
seconds.  `PanicPause` models the whole of `pause()`: an expired pause is
cleared, the day reset, the limits checked, and then `Paused` starts or extends.
`propagate_fee` is an action of its own, available at any time to anybody.  The
two limits are constants; that at most two pauses may be consecutive is assumed
(`LimitAssumption`), because the bound on a pause depends on it.  `HSpec`, in
`MCPanicPause`, adds `pausedAt`, a history of how many pauses were accepted at each time, which the
code does not keep and `RollingDayCap` counts.

### 2.2 MarginTx

`Submit` picks a transaction of the constant `Txs`; `pc` walks through its
top-level instructions, one action each; `Commit` keeps the accounts, `Abort`
restores `saved` and is possible at every instruction, so the model needs no
list of the other reasons a Solana transaction fails for.  An instruction of
another program may invoke a marginfi instruction (`via`), which is how the
checks for CPIs matter.  Two banks per account stand for all: `coll` in one and
`debt` in the other, the debt's price being 1 and the collateral's moving between
transactions.  Weights and fees are fractions of `Scale`.  The snapshot of a
receivership is cleared when it ends; the code leaves it, and never reads it
again.  `TxAssumption` says that transactions are made of such instructions, of
any number and order, and that the compute budget program, which alone may
precede a start of receivership unlooked at, invokes no other.
The inductive invariant `IInv` has four parts, one for each kind of property:
`BracketInv`, `ConsentInv`, `HealthInv` and `SeizureInv`.

### 2.3 Bank

One number of the model is `1 / Unit` of a token, as one bit of an `I80F48` is
`2^-48`; multiplication and division round down in the same places.  Token
transfers are whole.  A handler's accrual of interest comes first, for any rate
in `Rates`; that a second accrual in the same second changes nothing is
`bank.current`.  What depends on other banks — health, liquidatability,
bankruptcy — may have either answer, so every sequence the code allows is a
behaviour of the model, and more.  The four paths that close a balance
(`WithdrawnAll`, `RepaidAll`, `CloseBalance`, `Purged`) keep their differences:
dust stays in the totals on one, counts go down unconditionally on three.
The authorisation of the admin's instructions is left to `MarginTx`'s idea of
signers.

### 2.4 BotCycle

`Layout` is the order the client puts the instructions in, with the compute
budget as instruction 0, so `END_INDEX` is 6.  Simulation and execution run the
same actions; `Discard` restores `saved` after a simulation or a failure.
`market` is what the pools would pay now: anything, changing at any time but
inside a transaction.  `order` is what a client may choose: whom it opens the
flashloan through, and whether it repays all.  The bank is assumed operational
and liquid.  The client computes both minima from the loan, the one in SOL too, with
no price in between; so does the model.

### 2.5 LookupTable

A transaction in flight may be included or expire at any time, whatever the
client believes.  One that is included may fail on chain.  Preflight refuses a
second creation (`Applies` in `Send`); extensions may repeat.  The bound on
attempts is the code's five, reduced by the constants; polls are not counted.

### 2.6 AtomicTrade and FlashLoanBot

`AtomicTrade` says what the user of the bot is promised, with none of its parts:
one step in which both swaps paid at least their minimum and loan, fee and older
debts are paid, or no step at all.  `BotCycle` maps to it by `saved`, the purse
and the position that transactions left behind, which a running transaction or a
simulation does not touch (`CycleIsAtomic`).  `FlashLoanBot` is a whole run of the client: the table
is prepared, then, once, the cycle.  Transactions of the table still in flight
when it is ready reach nothing any more, so the model stops there.

### 2.7 VenueBank, Kamino, Solend, Drift

`VenueBank` holds what the handlers share: `Book` and `Unbook` are the wrapper's
deposit and withdrawal in units, `Spend` and `Count` the window, `PaidIn` and
`PaidOut` the transfers through the vault, `Seize` the collateral side of a
liquidation.  The three modules keep the order and the differences of their
handlers: at Kamino a deposit books what the obligation gained and a withdrawal
must take just what was asked; Solend accepts one unit more or less there; both
pay out what the vault gained, within one token of what is expected; Drift
computes the units itself, rounding a withdrawal up, corrects a withdrawal of
everything that would ask for one unit too much, and refuses what differs.  A
venue answers anything within `Slack` of what is expected; the handlers accept
some of it.  Units of a position are shares of the bank, as nobody borrows from
such a bank.  `DeleverageDay` adds `spent`, a history of the dollars withdrawn
under a limit at each time.  At Drift an amount worth less than one unit is paid out for no
unit; `NoFreeTokens` states that exception.

### 2.8 InterestCurve, BankConfig, Emissions

Rates and utilizations are on small scales (`FullRate`, `FullUtil`) and a rate
read off a curve is in parts of `Fine`, so that `Lerp` divides as `lerp` does.
Migration clamps as `milli_to_u32` does.  A configuration is a record of the
fields it gives, laid over the bank's own; `Configured` is the whole of
`configure`, flags and validation included.  Who may send an instruction is the
action itself: each signer has the inputs of his own instruction and no others.
`OldGroups` are states earlier versions of the program left: legacy curves, and
banks without staked settings.  `OptionsAssumption` types the inputs of each
instruction and no more; `OldGroupsAssumption` says that what earlier versions
left had passed their validation.  `Emissions` adds the rewards of one bank;
claims are part of every action that changes a balance, as in the code, and
`EmissionsSpec` is settings and rewards together.

### 2.9 Oracle, RiskEngine

`Oracle` is the adapter of each setup: whether it loads, its feed adjusted by the
rate of a venue or stake pool, its confidence checked, capped and taken off or
added.  `RiskEngine` computes the three requirements from it as the code does:
which price, which bias, which weight, what a bank that is reduce-only, isolated
or over its value limit counts for, and which emode entries are in force.  The
check of each handler is part of its action, on the state it leaves
(`Accepts(...)'`).  Interest stands still and the insurance fund covers bad
debts: `Bank` has both.  `BankSettings` is what `BankConfig::validate` leaves of a
bank's settings; `BankAssumption` asks it of every bank, `AmountAssumption` types
what instructions and publishers bring, and `OpeningAssumption` says that accounts
begin with deposits that were checked, and no debts.

## 3. What the runs check

Every run finishes in a few minutes; each property has a wrong variant of the
code which it rejects.  The runs `panic`, `accounts`, `bot` and `bank` also check
the invariant `IInv` their proofs rest on, on every state they reach.  Six more
inductive invariants — `DayInv`, `WindowInv`, `ConfigInv`, `RewardInv` and the
`IInv` of `VenueBank` and of `RiskEngine` — were checked by TLC on the instances of
`panic`, `venues`, `config` and `risk` while they were found, and are not kept in
the runs: they are proved, and say little of the code that the properties they
carry do not.

| run | module, cfg | instance | shows |
|---|---|---|---|
| `panic` | `MCPanicPause` | a group, a pause of 2 s, a day of 7 s, 3 pauses a day, 16 s | bounded pauses, also in stale copies; the rolling cap; recovery |
| `accounts` | `MCMarginTx`, `MCAccounts.cfg` | 3 accounts; flashloans of up to three of ten instructions after a start; preludes, up to two of nine instructions and ends of three kinds after a start of receivership | brackets closed, health, consent, and the bound on what a liquidation costs |
| `disabled` | `MCMarginTx`, `MCDisabled.cfg` | the receiverships of `accounts` | disagreement, section 6 |
| `bot` | `MCFlashLoanBot` | the client's chunks of 20 and 16, 2 attempts, a loan of 4, slippage 1/4, three pool outputs | the table complete, one trade or nothing, bounded loss, no failure by layout, the end of the run |
| `bot_proxied` | `BotCycle`, `BotCycleProxied.cfg` | brackets through the bot | disagreement |
| `lookup_ready` | `MCLookupTable`, `MCLookupTableReady.cfg` | the same chunks, 3 attempts | disagreement |
| `bank` | `MCBank` | 2 accounts, 2 tokens each, a quarter token as unit; with interest and liquidations, or being wound down by the admin | books, backing, order of losses and fees |
| `bank_killed` | `MCBank`, `MCKilled.cfg` | no interest, an admin | disagreement |
| `bank_closed` | `MCBank`, `MCClosed.cfg` | interest, no admin | disagreement |
| `venues` | `MCVenues` | a bank at each venue, 2 accounts, 3 tokens each, three rates, a day of 2 ticks | the position covers the books, all can leave, no free tokens, two limits a day |
| `config` | `MCConfig` | 2 banks, 3 configuration steps with one of emissions among them, or 6 steps of emissions with 2 holders | sound settings, emode entries below debts but for clones, defined curves, frozen banks, funded rewards |
| `risk` | `MCRisk` | 5 banks of different kinds, 2 accounts, 3 steps of the borrower, 2 of the liquidator, 2 of the market | solvency of who takes risks, no liquidation of the accepted, compatible positions |

### 3.1 Bounds, and why they are enough

* `panic`.  The clock covers two resets of the day and the pauses on either side
  of each, which is the shortest history in which a day can straddle a reset.
  A pause is two seconds so that "in the middle of it" exists; a day is longer
  than three pauses, as in the code (24 h against 30 min).  Groups share nothing
  with each other, so one is enough; it is created during the run and its copy
  is as old as the run may make it.  `MaxTime` stops the clock, which is why
  deadlock is not checked.
* `accounts`.  Amounts are 1 of collateral and 8 of debt with prices 8 and 16, so
  an account can be healthy, liquidatable, under water and bankrupt;
  `MaxColl` and `MaxDebt` stop deposits and borrows.  Three accounts: one whose
  brackets are tried, one of another owner, and a target for a transfer.  The
  transactions come in families (`AllTxs`): what sets the scene, flashloans with
  all that may stand between start and end, and receiverships with all that may
  stand before, between and at the end.
* `bot`.  Pool outputs lie below, at and above the minimum; purses and debts make
  each of the economic reasons occur.  Two attempts are enough for a
  duplicate and a failure of the same chunk.  `MaxPurse` stops a wallet that
  keeps winning.  The client stops, so deadlock is not checked.
* `bank`.  A unit of a quarter makes every rounding visible; `Threshold` (2
  units, 0.0001 in the code) is below a token, so that dust and a token differ.
  `MaxValue` stops the growth of share values at one and a half, `MaxBelow` the
  counts at -1, the least number below zero that shows that they fall below.
  The unit is coarse: `NeverLessBacked` allows a loss per step in terms of the
  unit and of the share values, the formula for the real unit, so a loss of more
  than rounding shows even though rounding itself is a quarter of a token here.
  A bank either earns or is wound down (`Sunset`): winding down sets weights and
  states, and moves no share value but to zero.
* `venues`.  `scene` picks what goes on around the handlers: interest and
  liquidations with the venue's full range of answers; the admin, disabled
  accounts and gifts; or deleverages with a clock and limits.  Rates of 1, 3/2
  and 2 make both conversions round and not round.  A unit is worth a dollar and
  a half, so that cutting to whole dollars shows.  `MaxUnits` bounds the
  position, `MaxNow` the clock: with a day of two ticks, three ticks hold a day
  that straddles a reset.  The clock and the tokens run out, so deadlock is not
  checked; nor is it below, where budgets do.
* `config`.  Three steps are one to prepare (add, edit), one that should be
  refused or freeze, and one that would profit, on any of two banks, one of which
  may be a bank of an earlier version; a step of emissions among them rewrites
  the flags.  Six steps of emissions hold a setup, changes of both holders, a
  change of rate, and claims.  Utilization has five values, so that a
  seven-point curve with two points has points between them.
* `risk`.  The banks are one of each kind the engine tells apart: a position at
  a venue with emode, a stable asset, an asset with a value limit, a staked one,
  an isolated one.  Budgets end a run after the borrower has taken two debts and
  withdrawn, the market has moved twice and the liquidator has acted twice.
  `MaxBalances` (16 in the code) and `MaxIntegrations` (8) are as many positions
  as so few steps can open: no instruction fails for want of room.

### 3.2 Fairness

Only what runs by itself is fair.  The clock advances (`WF` on `HTick` in
`MCPanicPause`, without which nothing recovers); nobody is obliged to unpause or
propagate.  `GroupRecovers` is stated for pauses that begin at least two days
before the clock stops.  A run of the bot ends (`RunEnds`) because blockhashes
expire and polls are counted, in the client's own loops, and because a
transaction that began to execute ends: `WF(Progresses)` in `FlashLoanBot`.
Nothing says that the chain includes anything, and neither the moves of the
market nor the late transactions of the table are in `Progresses`.  Everything
else is safety.

## 4. What is proved

All by TLAPS, for every value of the constants that meets the named assumptions.

* `PanicPauseProofs` (`ClockAssumption`, `DurationAssumption`, `LimitAssumption`).
  The horizon of a pause is not inductive: a pause that lies in the future says
  nothing of how often it may still be extended.  `IInv` ties the start to the
  number of consecutive pauses — a first pause started in the past, a second at
  most one duration ahead, and there is no third — and bounds the copies, which
  age only in the safe direction.  From it `PauseBounded`, `GroupPauseBounded`,
  and the action properties `NeverSpuriouslyPaused`, `ExtensionNeverShortens`.
  `DayIsCapped` bounds the pauses of any day by two allowances, though the day of
  the counter begins with whichever pause comes first: `DayInv` says that the
  counter covers the pauses since its reset, one allowance those before, and that
  no pause is accepted a day or more after the reset without a new one; a window
  of a day meets at most two resets' allowances.
* `MarginTxProofs` (`TxAssumption`, `RiskAssumption`, `NoneAssumption`), for any
  transactions, of any length, with any signers.
  `TypeCorrect`: no sequence of instructions drives an amount below zero.
  `BracketsAlwaysClosed`: none commits an account in a flashloan or in
  receivership.  `BracketInv` says what an open bracket promises of the rest of
  the transaction: for a flashloan, an `end_flashloan` of the same account still
  to run; for receivership, that this was the transaction's one start, that
  nothing but withdrawals, repayments and the end may touch marginfi at top
  level, and that the end is the last instruction.  The hard case is the end
  itself: it closes the bracket of *its* account, and since only one start can
  have run, an end for another account fails for lack of the flag, so the
  transaction fails too.
  `OwnersConsent`: by `ConsentInv`, an account that neither is exposed nor has a
  consenting owner stays, instruction by instruction, what it was: each handler
  asks for its authority, for its exposure, or for a receivership that never
  began.
  `NeverLeftUnhealthy`: by `HealthInv`, an account whose checks are not suspended
  stands as it should at every instruction (`Standing`), and a receivership is
  measured against the account as it was before the transaction, because what may
  precede its start moves no positions.  A migrated account hands its standing
  to the new one, so migration must be final (`MigratedIsFinal`).
  `SeizuresAreBounded`: by `SeizureInv`, what an account has lost outside of
  receivership are the fees of liquidations, each of which may round the debt it
  pays down by less than a unit; after the end of a receivership the
  transaction is over, or can no longer commit (`Doomed`), since its last
  instruction is an end for which nothing is open any more.
* `FlashLoanBotProofs` (`AmountAssumption`, `TableAssumption`).  Of the cycle alone:
  `Progress` says what each instruction finds in terms of what the transaction
  began with; from it, for every loan, slippage, fee and behaviour of the pools:
  `AlwaysSettled`, `LossIsBounded`, `FailureHasReason` (the last for the client's
  way of opening the flashloan), and the refinement `CycleImplementsTrade`: the
  initial states map to initial states of `AtomicTrade`; `CommitSettles` shows that
  the step that commits is a `Settle` of what the two swaps paid, and every other
  step, a discarded simulation included, is a stutter.  A run of the bot is a
  behaviour of the cycle (`RunIsCycle`), so its theorems hold of the run
  (`RunInvariant`, `RunLossIsBounded`, `RunImplementsTrade`).  `TableIsSound`: a
  table taken for ready has every address unless a transaction failed on chain,
  however often chunks are sent again or land late; the invariant says that nothing
  was sent that the client has not come to, and that each stage it left was
  included.
* `SumsAndQuotients`.  Sums over finite sets — split, compared, scaled, changed in
  one term — and the lemmas about products and quotients.  What is said of a sum is
  shown by induction over finite subsets in the form that names a set, which the
  provers can apply, rather than the one with an operator as parameter.
* `BankProofs` (`BankAssumption`).  `IInv` adds to the types that the shares of all
  accounts are within the totals, that an inactive balance is empty, and that the
  value of a debt share only grows; so a bank closed with next to nothing in its
  totals leaves nobody with more (`ClosedLeavesNobody`), although the counts the
  code also asks are unreliable.  `TotalsAreFollowed`, `LossComesLast`,
  `FundIsFirst` and `BackingIsKept` (`NeverLessBacked`) are action properties;
  each operation has a lemma that it is sound (`StepSound`), and rests on what
  conversions to shares and back may round, and in which direction.  Backing is
  additive, so what an operation with an accrual, a payment and a change of books
  takes from it is the sum of what the parts take.
* `VenueProofs` (`VenueAssumption`, `LimitsAssumption`), for all three integrations
  at any rates and any answers.  `VenueInvariant`, `EveryoneCanLeave`
  (`BooksCovered`: the position covers what accounts hold), `DriftWithdrawsAll`
  (the correction makes a withdrawal of everything ask for no more units than the
  balance has, at every rate), `CushionIsKept`, `VaultKeepsItsOwn`, `NoTokensForFree`.
  `DeleverageIsCapped`: any day sees at most two limits; `WindowInv` finds a time
  the present window counts from, and a change of the limit, which sets the
  reset's time but not the count, only prolongs it.
* `ConfigProofs` (`CurveAssumption`, `BankConfigAssumption`, `OptionsAssumption`,
  `OldGroupsAssumption`, `EmissionsAssumption`).  `SettingsAreSound`,
  `OraclesAgree`, `CurvesAreDefined` from `ConfigInvariant`: whatever replaces the
  settings of a bank was validated, or differs from settings that were in fields
  that decide nothing; the order of writers does not matter.  A curve with a rate
  at each of its points has one between them, as interpolation lies between its
  ends.  `MigrationIsFaithful`: a migrated curve gives the same rate everywhere,
  or the cap.  `FreezeIsKept` goes through all writers.  So does
  `OnlyClonesReachDebts` (`EmodeStaysBelow`): a writer validates the entries it
  leaves, or touches neither entries nor the weights of debts, or is a clone; a
  bank that is added has no entries.  `EmissionsStayBacked`: a
  claim is paid out of what remains, and moves it to one balance.
* `RiskProofs` (`BankAssumption`, `AmountAssumption`, `OpeningAssumption`), for any
  banks, emode entries, oracles and amounts, and any number of balances.
  `PositionsStayCompatible`: each check of tags looks at active balances only, so
  `IInv` adds that a balance which holds or owes anything is active; the hard step
  is a liquidation, whose liquidator takes a debt and then an asset, the second
  compared with balances that the first has changed (`PairFits` closes the gap).
  `AcceptedStaysHealthy`: at steady prices no asset counts for more initially than
  for maintenance and no debt for less.  Term by term: emode in force is the
  least entry of all debts for either requirement, and an entry's initial weight
  is at most its other one; discounts only take off; an oracle that does not load
  is worth nothing in both.  Then the sums compare.
  `RiskTakersAreSolvent`: initial weights are no bound for what is owned, since
  emode may raise them above one.  What bounds them is the least liability weight
  `L` among the debts: emode needs an entry of *every* debt's bank, and entries weigh less than
  that bank's debts.  So assets count for at most `L` times what they
  are worth and debts for at least `L` times, and `L` cancels.  A step that takes
  a risk ends in that check (`RiskIsChecked`); the other side of a
  liquidation never takes one, because a seizure that pays no debt leaves its
  health no better, and is refused (`LiquidateeTakesNoRisk`).  The hypothesis
  `EmodeValidated` of this theorem is what the code validates where entries or
  weights are set, and by `OnlyClonesReachDebts` it holds of a group that adds
  and configures banks without cloning emode.  A clone escapes the validation (section 6); once it
  has put an entry at or above the weights of a bank's debts, the theorem says
  nothing of the group.

Each proof has one lemma per instruction, or per group of instructions that
behave alike, and the temporal step in the theorem.

Only model-checked: `GroupRecovers` and `RunEnds`, which are liveness and out of the
prover's reach.  Every other property of a run that passes is proved.

TLC evaluates the named assumptions on the values of every run.

## 5. Properties, and what they are about

`PauseHorizon`, `GroupPauseHorizon`, `NoSpuriousPause`, `PauseNeverShortens`,
`RollingDayCap`, `GroupRecovers` — the pause, as above.
`BracketsClosed`, `HealthyOrNoWorse`, `OwnerConsents`, `SeizureBounded` — a
committed transaction compared with what was there before it, whatever it did in
between.  `HealthyOrNoWorse` compares a transferred account with the one its
positions came from.  `OwnerConsents` excepts accounts that were `Exposed`, which
is liquidatable *or* bankrupt: neither implies the other (section 6).
`SeizureBounded` allows, beside the premium of a receivership and the fees of
liquidations, one unit of debt per liquidation, which rounds down the debt it pays; it excepts accounts below the closeout threshold.
The invariants named `IInv` are the inductive ones of section 4.
`CycleIsAtomic`, `LossBounded`, `FailsForAReason` — the cycle; the last says that
the layout, the indices and the amounts fit together, so that a failure is the
market's, the debt's or the other balances'; `repay` with an amount, which can
leave dust, is among the reasons.
`TableSound`, `RunEnds` — the lookup table, and the whole run.
`TotalsFollowBalances` — what a step takes from the balances it takes from the
totals, but for the dust of a balance that is closed.
`NeverLessBacked` — vault plus debts minus deposits minus fees never falls by
more than rounding, except where a loss is written off.
`LossAfterInsurance`, `InsuranceFirst` — who bears losses and who is paid first.
`ClosedEmpty` — a closed bank owes no account more than dust, though the counts
it is closed by are unreliable; the check of the total shares is what saves it.
`BooksCovered`, `CushionKept` — the position at the venue against the books, as a
state and as a step; Solend's tolerance of a token is the only thing that may eat
into what the opening deposit left.
`LeavesAtAnyRate`, `NoFreeTokens` — Drift's rounding, for him who leaves and for
those who stay.  `VaultPassesThrough` — the handlers pay what they received.
`RollingWithdrawalCap` — two limits in any window of a day.
`SettingsSound`, `OracleAgrees`, `CurveDefined`, `MigrationKeepsRates`,
`FreezeHolds` — the settings, whoever wrote them and in whatever order.
`EmodeStaysBelow` — an entry that was below the weights of its bank's debts, in
every step but a clone, though weights, entries and leverage have different writers.
`FreezeHolds` says what is left to nobody *while* a bank is frozen: staked
settings still reach it, its curve may still be migrated, and emissions may
unfreeze it, all of which the model has.
`EmissionsBacked` — rewards owed and remaining against the vault.
`BorrowersSolvent`, `AcceptedNotLiquidatable`, `PositionsCompatible` — the risk
engine; the second compares the initial and the maintenance requirement for
every mix of banks, emode and confidence while averages follow prices.

## 6. Where the code and its documents disagree

* `disabled` — an account disabled by a bankruptcy can still be moved to a new
  one; `T/user_account.rs` says no further actions can be taken on it.
* `bot_proxied` — the six instructions of the bot do not compose: marginfi
  refuses flashloan brackets in a CPI.  The client calls marginfi directly for
  two of them, so the README's list and the client differ.
* `lookup_ready` — the client takes for ready a table that lacks a chunk which
  failed on chain, when another chunk was included twice.
* `bank_killed` — the admin can configure a killed bank back into operation.
* `bank_closed` — the counts say no position is open while a balance is active.

Noticed and stated here only: a pause does not reach a group until it is
propagated, and a new group starts without it; three pauses a day are allowed
where `marginfi-v2/README.md` says two; a frozen account can be liquidated; the
cap on a liquidator's profit does not hold for accounts small enough to close
out (`SeizureBounded` states the exception); a committed cycle may lose money,
`NegativeProfit` being declared and never raised; an update of a legacy curve
that gives only fees leaves a rate of zero until the curve is given; a
bank's maintenance weight for an asset may be up to two
(`P/state/bank_config.rs:76`), so an account can be bankrupt by its equity while
its maintenance health is positive, and its bankruptcy can be handled though it
could not be liquidated; emode
entries whose group lowers its leverage are not validated again, and those cloned
from another bank are not compared with the weights of the bank they are cloned to
(`P/instructions/marginfi_group/emode_clone.rs:20`), so they may leverage a position
beyond the 15 of `P/state/emode.rs:17`, or without end; isolated deposits count for nothing in the check for bankruptcy too.

## 7. Not modelled, and why

* *Health and price caches, pulses*: written for readers off chain; no
  instruction decides by them.
* *Command line client, discovery scripts*: build instructions from arguments,
  print accounts, fetch addresses once; they keep no state of the protocol.
* *Mocks, fuzzing, test support*: exist to test the rest.  What the mocks define
  of a venue's accounts is modelled where marginfi computes with it.
* *clone_bank, bank metadata, event and seed layouts*: a local or staging tool,
  and text.
* *Token-2022 transfer fees*: a term between what is sent and what is received in
  every transfer; conversions of amounts with no step of their own.
* *Kamino's rewards*: pass through the bank's authority in another token.
* *Fee settings and keys of admins*: single assignments.
* *Overflow of `I80F48`*: aborts an instruction, which every model allows through
  failure or bounds.

Prices, pools, venues and wallets are external: they do anything, the venues
within what is read back from them.

## 8. Plan

Done, in this order: `PanicPause`, `MarginTx`, `BotCycle`, `LookupTable` and
`Bank`, with the proofs of the first three; then the whole run of the bot and
its refinement of `AtomicTrade`, the venues with the deleverage window,
configuration with curves, emode and staked settings, emissions, and the risk
engine with its oracles; then the proofs of the day of pauses, of transactions
(consent, health, seizure), the lookup table, the bank, the venues and their
window, configuration and emissions; then those of the risk engine.

Next, to model:
1. two banks composed with accounts (`Bank` twice under `RiskEngine`), so that
   health reads shares and interest;
2. `MarginTx` as an implementation of an atomic step that leaves every account
   healthy, as `AtomicTrade` is for the bot;
3. the pause composed with the accounts it suspends.

Next, to prove: `BankConfig` and `RiskEngine` composed, with settings that change
between the instructions of accounts, so that `RiskTakersAreSolvent` rests on
`OnlyClonesReachDebts` inside one specification rather than on a hypothesis.
