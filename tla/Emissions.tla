------------------------------ MODULE Emissions ------------------------------
(***************************************************************************)
(* The rewards an emissions admin pays the holders of one bank's balances, *)
(* over the settings of the banks, with which the rewards share the bank's *)
(* flags.                                                                  *)
(*                                                                         *)
(* A token is Unit drops: what is owed and what remains are drops, the     *)
(* vault holds tokens. The rate is the drops a unit of balance earns in    *)
(* one tick of the clock.                                                  *)
(***************************************************************************)
EXTENDS BankConfig, FiniteSetsExt, Functions

CONSTANTS
    Rewarded,       \* the bank whose emissions these are
    Holders,        \* the accounts with a balance in it
    Amounts,        \* amounts of a balance, 0 for none
    Rates,          \* rates of emissions
    Funds,          \* tokens put into the vault at once
    UpdatedFlags,   \* flags an update writes
    Unit,           \* drops of a token
    MaxFunds,       \* bound: the tokens ever put into the vault
    MaxTime         \* bound: ticks of the clock

ASSUME EmissionsAssumption ==
    /\ Rewarded \in Banks /\ IsFiniteSet(Holders)
    /\ Amounts \subseteq Nat /\ Rates \subseteq Nat /\ Funds \subseteq Nat
    /\ UpdatedFlags \subseteq SUBSET BankFlags
    /\ Unit \in Nat \ {0} /\ MaxFunds \in Nat /\ MaxTime \in Nat

VARIABLES
    now,        \* the clock
    emissions,  \* [setUp, rate, remaining] of the bank
    vault,      \* tokens in the emissions vault
    balances,   \* of each holder: [side, amount, last, owed]
    holders,    \* of each holder's account: [status, destination]
    funded      \* tokens put into the vault so far

rewardVars == <<now, emissions, vault, balances, holders, funded>>

NoBalance == [side |-> "none", amount |-> 0, last |-> 0, owed |-> 0]

Flags == banks[Rewarded].flags

\* is_marginfi_asset_tag
StandardTag == banks[Rewarded].tag \in {"default", "sol", "staked"}

\* Whether a balance of this side earns
Earns(side) ==
    \/ side = "assets" /\ "lending" \in Flags
    \/ side = "liabilities" /\ "borrow" \in Flags

\* What a balance has earned since it last claimed
Earned(h) == (now - balances[h].last) * balances[h].amount * emissions.rate

\* Wrong variant: no more is checked to remain.
ClaimUncapped(h) == IF Earns(balances[h].side) THEN Earned(h) ELSE 0

\* What claim_emissions moves from the bank's emissions to the balance: the whole period at
\* the present rate, as long as as much remains.
Claim(h) ==
    IF ~Earns(balances[h].side) THEN 0
    ELSE IF Earned(h) <= emissions.remaining THEN Earned(h) ELSE emissions.remaining

\* The balance after claim_emissions
Claimed(h) == [balances[h] EXCEPT !.owed = @ + Claim(h), !.last = now]

Spent(h) == emissions' = [emissions EXCEPT !.remaining = @ - Claim(h)]

SetFlags(flags) == Replace(Rewarded, [banks[Rewarded] EXCEPT !.flags = flags])

\* The clock goes on.
Tick ==
    /\ now < MaxTime
    /\ now' = now + 1
    /\ UNCHANGED <<emissions, vault, balances, holders, funded, configVars>>

Fund(tokens) ==
    /\ funded + tokens <= MaxFunds
    /\ vault' = vault + tokens
    /\ funded' = funded + tokens

\* lending_pool_setup_emissions: override_emissions_flag drops every other flag of the bank.
SetupEmissions(flags, rate, tokens) ==
    /\ ~emissions.setUp
    /\ flags \subseteq EmissionFlags
    /\ emissions' = [setUp |-> TRUE, rate |-> rate, remaining |-> tokens * Unit]
    /\ Fund(tokens)
    /\ SetFlags(flags)
    /\ UNCHANGED <<now, balances, holders>>

\* lending_pool_update_emissions_parameters: any of the three. The flags are not checked.
UpdateEmissions(flags, rate, tokens) ==
    /\ emissions.setUp
    /\ emissions' = [emissions EXCEPT !.rate = rate, !.remaining = @ + tokens * Unit]
    /\ Fund(tokens)
    /\ SetFlags(flags)
    /\ UNCHANGED <<now, balances, holders>>

\* Every change of a balance claims first. A change to another side is two of the code's, and
\* an empty side is a balance without one.
ChangeBalance(h, side, amount) ==
    /\ side = "none" <=> amount = 0
    /\ balances' = [balances EXCEPT ![h] =
           [(IF @ = NoBalance THEN [NoBalance EXCEPT !.last = now] ELSE Claimed(h))
               EXCEPT !.side = side, !.amount = amount]]
    /\ Spent(h)
    /\ UNCHANGED <<now, vault, holders, funded, configVars>>

\* The operations that close a balance, which a token or more still owed refuses
CloseBalance(h) ==
    /\ balances[h] # NoBalance
    /\ Claimed(h).owed < Unit
    /\ balances' = [balances EXCEPT ![h] = NoBalance]
    /\ Spent(h)
    /\ UNCHANGED <<now, vault, holders, funded, configVars>>

\* purge_deleverage_balance, which pays nothing that is owed
PurgeBalance(h) ==
    /\ "tokenless_complete" \in Flags
    /\ balances[h] # NoBalance /\ balances[h].side # "liabilities"
    /\ balances' = [balances EXCEPT ![h] = NoBalance]
    /\ UNCHANGED <<now, emissions, vault, holders, funded, configVars>>

\* lending_account_settle_emissions, which anyone may send
SettleEmissions(h) ==
    /\ StandardTag /\ balances[h] # NoBalance
    /\ balances' = [balances EXCEPT ![h] = Claimed(h)]
    /\ Spent(h)
    /\ UNCHANGED <<now, vault, holders, funded, configVars>>

\* settle_emissions_and_get_transfer_amount and the transfer: the whole tokens owed
PayOut(h) ==
    /\ StandardTag /\ balances[h] # NoBalance
    /\ LET tokens == Claimed(h).owed \div Unit
       IN /\ vault >= tokens
          /\ vault' = vault - tokens
          /\ balances' = [balances EXCEPT ![h] = [Claimed(h) EXCEPT !.owed = @ - tokens * Unit]]
    /\ Spent(h)
    /\ UNCHANGED <<now, holders, funded, configVars>>

\* lending_account_withdraw_emissions
WithdrawEmissions(h) == holders[h].status # "disabled" /\ PayOut(h)

\* lending_account_withdraw_emissions_permissionless
WithdrawEmissionsPermissionless(h) ==
    /\ holders[h].status = "open"
    /\ holders[h].destination
    /\ PayOut(h)

\* marginfi_account_update_emissions_destination_account
UpdateDestination(h) ==
    /\ holders[h].status = "open"
    /\ holders' = [holders EXCEPT ![h].destination = TRUE]
    /\ UNCHANGED <<now, emissions, vault, balances, funded, configVars>>

InitRewards ==
    /\ now = 0
    /\ emissions = [setUp |-> FALSE, rate |-> 0, remaining |-> 0]
    /\ vault = 0 /\ funded = 0
    /\ balances = [h \in Holders |-> NoBalance]
    /\ holders \in [Holders -> [status : {"open", "frozen", "disabled"}, destination : {FALSE}]]

AdminNext ==
    \E rate \in Rates, tokens \in Funds :
        \/ \E flags \in SUBSET EmissionFlags : SetupEmissions(flags, rate, tokens)
        \/ \E flags \in UpdatedFlags : UpdateEmissions(flags, rate, tokens)

HolderNext(h) ==
    \/ \E side \in {"none", "assets", "liabilities"}, amount \in Amounts :
           ChangeBalance(h, side, amount)
    \/ CloseBalance(h) \/ PurgeBalance(h) \/ SettleEmissions(h)
    \/ WithdrawEmissions(h) \/ WithdrawEmissionsPermissionless(h)
    \/ UpdateDestination(h)

RewardNext ==
    /\ Rewarded \in DOMAIN banks
    /\ Tick \/ AdminNext \/ \E h \in Holders : HolderNext(h)

emissionsVars == <<configVars, rewardVars>>
EmissionsInit == Init /\ InitRewards
EmissionsNext == (Next /\ UNCHANGED rewardVars) \/ RewardNext

\* The settings and the rewards together
EmissionsSpec == EmissionsInit /\ [][EmissionsNext]_emissionsVars
-----------------------------------------------------------------------------
(* Properties *)

\* What is owed to the holders and what remains to be earned is in the vault, whichever way
\* rates, flags and balances change before the holders claim.
Owed == SumFunctionOnSet([h \in Holders |-> balances[h].owed], Holders)

EmissionsBacked == emissions.remaining >= 0 /\ vault * Unit >= emissions.remaining + Owed

Balances(time) ==
    [side : {"none", "assets", "liabilities"}, amount : Nat, last : 0 .. time, owed : Nat]

\* Why what is owed is backed: what a holder earns, the others cannot earn any more, and no
\* balance claims for a time before its last claim.
RewardInv ==
    /\ now \in Nat /\ vault \in Nat
    /\ emissions \in [setUp : BOOLEAN, rate : Nat, remaining : Nat]
    /\ balances \in [Holders -> Balances(now)]
    /\ EmissionsBacked
=============================================================================
