------------------------------ MODULE BotCycle ------------------------------
(***************************************************************************)
(* The arbitrage cycle of flash_loan_bot: one transaction that borrows     *)
(* USDC from marginfi in a flashloan, swaps it for SOL on Raydium and back *)
(* on Orca, repays and closes the flashloan.                               *)
(*                                                                         *)
(* The client simulates the transaction and sends it when the simulation   *)
(* succeeds; markets move in between.  Simulation and execution run the    *)
(* same instructions, but only execution keeps what they did.  The pools   *)
(* pay what they like; the bot's programs look at what arrived.            *)
(***************************************************************************)
EXTENDS Integers, Sequences

CONSTANTS
    LOAN,        \* amount borrowed and swapped, LOAN_AMOUNT_USDC
    SLIPPAGE,    \* fraction of the loan the client is ready to lose...
    SlippageUnit,   \* ... in units of 1 / SlippageUnit
    Fee,         \* origination fee of the loan
    PoolOutputs, \* what a pool may pay
    Purses,      \* USDC the wallet may hold at first
    OldDebts,    \* debts the marginfi account may have at first
    MaxPurse,    \* no cycle begins with more USDC or SOL than this
    Bounds       \* programs the flashloan may be opened and closed through

ASSUME AmountAssumption ==
    /\ LOAN \in Nat /\ Fee \in Nat /\ SLIPPAGE \in Nat
    /\ SlippageUnit \in Nat \ {0} /\ SLIPPAGE <= SlippageUnit
    /\ PoolOutputs \subseteq Nat /\ Purses \subseteq Nat /\ OldDebts \subseteq Nat
    /\ Bounds \subseteq {"marginfi", "bot"}

VARIABLES
    wallet,   \* tokens of the user, as the instruction about to run sees them
    account,  \* the marginfi account of the user, likewise
    saved,    \* wallet and account as the last transaction left them
    market,   \* what the pools would pay now
    order,    \* how the client composes the transaction
    phase,    \* idle, simulating, simulated, or landing
    pc,       \* index of the next instruction
    result    \* of the last transaction sent

vars == <<wallet, account, saved, market, order, phase, pc, result>>

Wallet == [usdc : Nat, sol : Nat]
\* `active` are the banks in which the account has a balance.
MarginfiAccount == [debt : Nat, active : SUBSET {"usdc", "other"}, inFlashloan : BOOLEAN]
Market == [raydium : PoolOutputs, orca : PoolOutputs]
Order == [bounds : Bounds, repayAll : BOOLEAN]

Layout == <<"start", "borrow", "raydium", "orca", "repay", "end">>
\* Wrong variant: the index of the repayment.
END_INDEX_OneShort == 5
\* Instruction 0 is for the compute budget.
END_INDEX == 6

\* applySlippage
ApplySlippage(amount) == (amount * (SlippageUnit - SLIPPAGE)) \div SlippageUnit

minSolOut == ApplySlippage(LOAN)
minUsdcBack == ApplySlippage(LOAN)

Init ==
    /\ wallet \in [usdc : Purses, sol : {0}]
    /\ account \in [debt : OldDebts, active : SUBSET {"usdc", "other"}, inFlashloan : {FALSE}]
    /\ account.debt > 0 <=> "usdc" \in account.active
    /\ saved = [wallet |-> wallet, account |-> account]
    /\ market \in Market
    /\ order \in Order
    /\ phase = "idle"
    /\ pc = 0
    /\ result = "none"

-----------------------------------------------------------------------------
(* What each instruction requires *)

Running == phase \in {"simulating", "landing"}
At(op) == Running /\ pc \in DOMAIN Layout /\ Layout[pc] = op

\* validate_not_cpi_by_stack_height, and the introspection of the other bound
DirectBounds == order.bounds = "marginfi"

CanStart ==
    /\ DirectBounds
    /\ END_INDEX > pc /\ Layout[END_INDEX] = "end"
    /\ ~account.inFlashloan

\* Wrong variant: what arrived is not looked at.
SlippageUnchecked(received, amountOutMin) == received >= 0
SlippageOk(received, amountOutMin) == received >= amountOutMin

CanRaydium == wallet.usdc >= LOAN /\ SlippageOk(market.raydium, minSolOut)
CanOrca == wallet.sol >= minSolOut /\ SlippageOk(market.orca, minUsdcBack)

Due == IF order.repayAll THEN account.debt ELSE LOAN

\* Wrong variant: the wallet is not looked at.
CanRepayUnfunded == account.debt >= Due
CanRepay == wallet.usdc >= Due /\ account.debt >= Due

\* Wrong variant: the flashloan is closed on an account in debt.
ClosedUnchecked == TRUE
\* end_flashloan checks the health of every balance against the bank and oracle
\* accounts it is passed, and it is passed none.
ClosedOut == account.active = {}

CanEnd == DirectBounds /\ ClosedOut

Accepted ==
    /\ At("start") => CanStart
    /\ At("borrow") => account.inFlashloan
    /\ At("raydium") => CanRaydium
    /\ At("orca") => CanOrca
    /\ At("repay") => CanRepay
    /\ At("end") => CanEnd

-----------------------------------------------------------------------------
(* What each instruction does *)

Leave(w, m) ==
    /\ wallet' = w
    /\ account' = m
    /\ pc' = pc + 1
    /\ UNCHANGED <<saved, market, order, phase, result>>

MarginfiStartFlashloan ==
    /\ At("start") /\ CanStart
    /\ Leave(wallet, [account EXCEPT !.inFlashloan = TRUE])

MarginfiBorrow ==
    /\ At("borrow") /\ account.inFlashloan
    /\ Leave([wallet EXCEPT !.usdc = @ + LOAN],
             [account EXCEPT !.debt = @ + LOAN + Fee, !.active = @ \union {"usdc"}])

ProxyRaydium ==
    /\ At("raydium") /\ CanRaydium
    /\ Leave([wallet EXCEPT !.usdc = @ - LOAN, !.sol = @ + market.raydium], account)

\* Orca is given the least that Raydium may pay, not what it paid.
ProxyOrca ==
    /\ At("orca") /\ CanOrca
    /\ Leave([wallet EXCEPT !.sol = @ - minSolOut, !.usdc = @ + market.orca], account)

\* Only repay_all closes the balance.
MarginfiRepay ==
    /\ At("repay") /\ CanRepay
    /\ Leave([wallet EXCEPT !.usdc = @ - Due],
             [account EXCEPT !.debt = @ - Due,
                             !.active = IF order.repayAll THEN @ \ {"usdc"} ELSE @])

MarginfiEndFlashloan ==
    /\ At("end") /\ CanEnd
    /\ Leave(wallet, [account EXCEPT !.inFlashloan = FALSE])

-----------------------------------------------------------------------------
(* The client and the chain *)

\* The client's program is run: it composes a transaction and has it simulated.
Simulate ==
    /\ phase = "idle"
    /\ wallet.usdc <= MaxPurse /\ wallet.sol <= MaxPurse
    /\ order' \in Order
    /\ phase' = "simulating"
    /\ pc' = 1
    /\ result' = "none"
    /\ UNCHANGED <<wallet, account, saved, market>>

Discard ==
    /\ wallet' = saved.wallet
    /\ account' = saved.account
    /\ pc' = 0

\* The simulation reached the end.
Simulated ==
    /\ phase = "simulating" /\ pc > Len(Layout)
    /\ Discard
    /\ phase' = "simulated"
    /\ UNCHANGED <<saved, market, order, result>>

Land ==
    /\ phase = "simulated"
    /\ phase' = "landing"
    /\ pc' = 1
    /\ UNCHANGED <<wallet, account, saved, market, order, result>>

\* The transaction is never included.
Drop ==
    /\ phase = "simulated"
    /\ phase' = "idle"
    /\ result' = "dropped"
    /\ UNCHANGED <<wallet, account, saved, market, order, pc>>

Fail ==
    /\ Running /\ pc <= Len(Layout) /\ ~Accepted
    /\ Discard
    /\ phase' = "idle"
    /\ result' = "failed"
    /\ UNCHANGED <<saved, market, order>>

Commit ==
    /\ phase = "landing" /\ pc > Len(Layout)
    /\ saved' = [wallet |-> wallet, account |-> account]
    /\ phase' = "idle"
    /\ pc' = 0
    /\ result' = "committed"
    /\ UNCHANGED <<wallet, account, market, order>>

MarketMove ==
    /\ ~Running
    /\ market' \in Market
    /\ UNCHANGED <<wallet, account, saved, order, phase, pc, result>>

Next ==
    \/ Simulate \/ Simulated \/ Land \/ Drop \/ Fail \/ Commit \/ MarketMove
    \/ MarginfiStartFlashloan \/ MarginfiBorrow \/ ProxyRaydium \/ ProxyOrca
    \/ MarginfiRepay \/ MarginfiEndFlashloan

Spec == Init /\ [][Next]_vars

-----------------------------------------------------------------------------
(* Properties *)

\* Type correctness: no balance is ever overdrawn.
TypeOK ==
    /\ wallet \in Wallet
    /\ account \in MarginfiAccount
    /\ saved \in [wallet : Wallet, account : MarginfiAccount]
    /\ market \in Market
    /\ order \in Order
    /\ phase \in {"idle", "simulating", "simulated", "landing"}
    /\ pc \in 0 .. Len(Layout) + 1
    /\ result \in {"none", "dropped", "failed", "committed"}

\* A cycle that commits leaves nothing owed and no flashloan open, whichever way the
\* client asks for the repayment.
Settled ==
    result = "committed" =>
        /\ saved.account.debt = 0
        /\ ~saved.account.inFlashloan

\* A debt is a balance.
DebtIsActive(m) == m.debt > 0 => "usdc" \in m.active

\* What the next instruction finds, in terms of what the transaction began with.
\* Before the swap on Orca everything is as the layout says; after it, the net worth.
Progress ==
    LET w == saved.wallet
        m == saved.account
        bank == m.active \union {"usdc"}
    IN  /\ pc \in 1 .. 2 => wallet = w /\ account.active = m.active
                              /\ account.debt = m.debt
        /\ pc \in 3 .. 5 => account.debt = m.debt + LOAN + Fee /\ account.active = bank
        /\ pc = 3 => wallet.usdc = w.usdc + LOAN /\ wallet.sol = w.sol
        /\ pc = 4 => wallet.usdc = w.usdc /\ wallet.sol = w.sol + market.raydium
        /\ pc = 5 => wallet.usdc = w.usdc + market.orca
        /\ pc \in 4 .. 7 => market.raydium >= minSolOut
        /\ pc \in 5 .. 7 =>
            /\ market.orca >= minUsdcBack
            /\ wallet.usdc - account.debt = w.usdc + market.orca - (m.debt + LOAN + Fee)
            /\ wallet.sol = w.sol + market.raydium - minSolOut
        /\ pc = 6 /\ order.repayAll => account.active \subseteq m.active \ {"usdc"}
        /\ pc \in 6 .. 7 => m.active \ {"usdc"} \subseteq account.active
        /\ pc = 7 => account.active = {}
        /\ account.inFlashloan <=> pc \in 2 .. 6

\* The inductive invariant behind Settled, LossBounded and FailsForAReason.
IInv ==
    /\ TypeOK
    /\ Settled
    /\ DebtIsActive(account) /\ DebtIsActive(saved.account)
    /\ ~saved.account.inFlashloan
    /\ IF Running THEN pc > 0 /\ Progress
       ELSE pc = 0 /\ saved = [wallet |-> wallet, account |-> account]

\* The worst a committed cycle can do, however the pools moved since the simulation:
\* the wallet pays the old debt, the fee and the slippage allowed on the second swap,
\* and the slippage allowed on the first costs it none of the SOL it had.
LossBounded ==
    [][saved' # saved =>
        /\ saved'.wallet.usdc >=
             saved.wallet.usdc - saved.account.debt - Fee - (LOAN - minUsdcBack)
        /\ saved'.wallet.sol >= saved.wallet.sol]_vars

Atomic == INSTANCE AtomicTrade WITH
    purse <- saved.wallet, position <- saved.account,
    LeastSol <- minSolOut, LeastUsdc <- minUsdcBack

\* Simulated, discarded, executed instruction by instruction between moving markets,
\* a cycle is one trade or nothing to whoever looks at what transactions left behind.
CycleIsAtomic == Atomic!Spec

\* What the market, the wallet or the account itself leaves the cycle to fail of.
EconomicReason ==
    \/ market.raydium < minSolOut
    \/ market.orca < minUsdcBack
    \/ saved.wallet.usdc + market.orca < saved.account.debt + LOAN + Fee
    \/ "other" \in saved.account.active
    \/ ~order.repayAll

\* The instructions of the cycle fit together: it fails for what the pools pay or
\* the user owes, or for a repayment that leaves the balance open, not by its layout.
FailsForAReason == [][result' = "failed" /\ result # "failed" => EconomicReason]_vars

\* README.md:41 "exposes six instructions that are composed into a single atomic
\* transaction", of a client that opens and closes the flashloan through the bot.
SixInstructionsCompose ==
    [][result' = "failed" /\ result # "failed" => EconomicReason]_vars

=============================================================================
