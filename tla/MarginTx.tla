------------------------------ MODULE MarginTx ------------------------------
(***************************************************************************)
(* Transactions over marginfi accounts.                                    *)
(*                                                                         *)
(* A transaction is a list of top-level instructions and a set of signers. *)
(* Instructions run one after the other, each may fail, and a failure      *)
(* restores every account to what it was before the transaction.  Two kinds *)
(* of instruction open a bracket that a later one closes: a flashloan      *)
(* suspends the health check of an account, and receivership hands an      *)
(* account to a liquidator.  Nothing but introspection of the transaction  *)
(* guarantees that a bracket that was opened is closed again.              *)
(*                                                                         *)
(* An account's balances are reduced to a collateral amount and a debt, in *)
(* two different banks; the price of the debt is 1 and the price of the    *)
(* collateral moves between transactions.  Weights and fees are in units   *)
(* of 1 / Scale.                                                           *)
(***************************************************************************)
EXTENDS Integers, Sequences, FiniteSets

CONSTANTS
    Accounts,           \* keys of marginfi accounts
    Users,              \* keys that own accounts
    Admin, RiskAdmin,   \* MarginfiGroup.admin and .risk_admin
    None,               \* Pubkey::default()
    Txs,                \* the transactions that may be submitted
    Prices,             \* prices the collateral may have
    MaxColl, MaxDebt,   \* bounds on the balances of an account
    Scale,              \* one
    AssetInit, AssetMaint, LiabInit, LiabMaint,  \* bank weights
    LiquidatorDiscount, \* 1 - LIQUIDATION_LIQUIDATOR_FEE
    FinalDiscount,      \* 1 - liquidator fee - LIQUIDATION_INSURANCE_FEE
    MaxFee,             \* 1 + FeeState.liquidation_max_fee
    Closeout,           \* LIQUIDATION_CLOSEOUT_DOLLAR_THRESHOLD, scaled
    BankruptThreshold,  \* BANKRUPT_THRESHOLD, scaled
    Permissionless      \* PERMISSIONLESS_BAD_DEBT_SETTLEMENT_FLAG of the bank

Principals == Users \union {Admin, RiskAdmin}

Flags == {"DISABLED", "FLASHLOAN", "RECEIVERSHIP", "DELEVERAGE", "FROZEN"}
Brackets == {"FLASHLOAN", "RECEIVERSHIP", "DELEVERAGE"}

Programs == {"marginfi", "compute", "kamino", "swap", "other"}
Ops == {"start_flashloan", "end_flashloan", "start_liquidation",
        "end_liquidation", "start_deleverage", "end_deleverage",
        "deposit", "withdraw", "borrow", "repay", "liquidate",
        "handle_bankruptcy", "transfer", "freeze", "unfreeze", "close",
        "initialize", "init_liq_record", "none"}

\* A top-level instruction of program `via`.  When `via` is not marginfi, `op` is
\* the marginfi instruction it invokes, or "none".  `to` is a second account, `who`
\* a key and `n` an amount or an index, where op takes one.
Instruction == [via : Programs, op : Ops, acct : Accounts, to : Accounts,
                who : Principals \union {None}, n : Nat]
Transaction == [signers : SUBSET Principals, ixs : Seq(Instruction)]

\* The compute budget program invokes no other.
ComputeIsLeaf(t) == \A i \in DOMAIN t.ixs : t.ixs[i].via = "compute" => t.ixs[i].op = "none"

ASSUME TxAssumption == \A t \in Txs : t \in Transaction /\ ComputeIsLeaf(t)
\* Weights as bank configuration validates them, at a price that is never zero.
ASSUME RiskAssumption ==
    /\ Scale \in Nat \ {0}
    /\ Prices \subseteq Nat \ {0}
    /\ AssetInit \in Nat \ {0} /\ AssetMaint \in Nat /\ AssetInit <= AssetMaint
    /\ LiabMaint \in Nat \ {0} /\ LiabInit \in Nat /\ LiabMaint <= LiabInit
    /\ FinalDiscount \in Nat /\ LiquidatorDiscount \in Nat
    /\ MaxFee \in Nat /\ Closeout \in Nat /\ BankruptThreshold \in Nat
ASSUME NoneAssumption == None \notin Principals

VARIABLES
    accts,   \* the accounts, as the instruction about to run sees them
    saved,   \* the accounts as the last committed transaction left them
    price,   \* oracle price of the collateral
    tx,      \* the transaction being executed, Idle between transactions
    pc       \* index of its next instruction

vars == <<accts, saved, price, tx, pc>>

Snapshot == [assetsMaint : Nat, liabsMaint : Nat,
             assetsEquity : Nat, liabsEquity : Nat]
NoSnapshot == [assetsMaint |-> 0, liabsMaint |-> 0,
               assetsEquity |-> 0, liabsEquity |-> 0]

\* MarginfiAccount and its LiquidationRecord.  The record is a separate chain
\* account: closing the marginfi account leaves it "orphan".
Account == [exists : BOOLEAN, authority : Principals \union {None},
            flags : SUBSET Flags, coll : Nat, debt : Nat, migrated : BOOLEAN,
            record : {"none", "linked", "orphan"},
            receiver : Principals \union {None}, snapshot : Snapshot]

Absent == [exists |-> FALSE, authority |-> None, flags |-> {}, coll |-> 0,
           debt |-> 0, migrated |-> FALSE, record |-> "none",
           receiver |-> None, snapshot |-> NoSnapshot]

Idle == [signers |-> {}, ixs |-> <<>>]

-----------------------------------------------------------------------------
(* The risk engine *)

AssetValue(x, weight) == x.coll * price * weight
LiabValue(x, weight) == x.debt * weight

InitHealthy(x) == AssetValue(x, AssetInit) >= LiabValue(x, LiabInit)
MaintHealth(x) == AssetValue(x, AssetMaint) - LiabValue(x, LiabMaint)
Equity(x) == AssetValue(x, Scale) - LiabValue(x, Scale)

\* check_account_init_health: no check at all during a flashloan.
RiskOk(x) == "FLASHLOAN" \in x.flags \/ InitHealthy(x)

\* check_pre_liquidation_condition_and_get_account_health, and RiskEngine::new
\* that refuses an account in a flashloan.
Liquidatable(x, ignoreHealthy) ==
    /\ "FLASHLOAN" \notin x.flags
    /\ MaintHealth(x) <= 0 \/ ignoreHealthy

Bankrupt(x) ==
    /\ AssetValue(x, Scale) < LiabValue(x, Scale)
    /\ AssetValue(x, Scale) < BankruptThreshold

-----------------------------------------------------------------------------
(* Authority *)

SignerAuthorized(x, s, allowReceivership) ==
    \/ allowReceivership /\ "RECEIVERSHIP" \in x.flags
    \/ "FROZEN" \in x.flags /\ s = Admin
    \/ "FROZEN" \notin x.flags /\ s = x.authority

\* Wrong variant: freezing takes nothing away from the authority.
AuthorizedThoughFrozen(x, allowReceivership) ==
    \/ allowReceivership /\ "RECEIVERSHIP" \in x.flags
    \/ x.authority \in tx.signers

\* The account constraints of the handlers that take an `authority` signer.
Authorized(x, allowReceivership) ==
    \E s \in tx.signers :
        /\ ~("FROZEN" \in x.flags /\ x.authority = s)
        /\ SignerAuthorized(x, s, allowReceivership)

-----------------------------------------------------------------------------
(* Introspection of the transaction *)

Ix == tx.ixs[pc]
TopLevel == Ix.via = "marginfi"

\* Instruction i is a top-level marginfi instruction op.
IsIx(i, op) == tx.ixs[i].via = "marginfi" /\ tx.ixs[i].op = op

\* Wrong variant: an end invoked by another program counts.
EndsFlashloanInCpi(a, end) ==
    /\ end > pc /\ end \in DOMAIN tx.ixs
    /\ tx.ixs[end].op = "end_flashloan"
    /\ tx.ixs[end].acct = a

\* check_flashloan_can_start: instruction `end` is the end of a flashloan of a.
EndsFlashloan(a, end) ==
    /\ end > pc
    /\ end \in DOMAIN tx.ixs
    /\ IsIx(end, "end_flashloan")
    /\ tx.ixs[end].acct = a

\* Programs that may appear at top level in a liquidation: marginfi, the compute
\* budget, kamino and drift, the swap routers and the associated token program.
AllowedPrograms == {"marginfi", "compute", "kamino", "swap"}

\* What may come before the start: nothing, but for the compute budget, the refreshes
\* of kamino and drift, and the creation of the record the start needs.
MayPrecedeStart(i) ==
    \/ tx.ixs[i].via = "compute"
    \/ tx.ixs[i].via = "kamino" /\ tx.ixs[i].op = "none"
    \/ IsIx(i, "init_liq_record")

\* validate_ix_first, for the start at pc
StartFirst(start) ==
    /\ \A i \in 1 .. pc - 1 : MayPrecedeStart(i)
    /\ {i \in DOMAIN tx.ixs : IsIx(i, start)} = {pc}

\* Wrong variant: the last instruction is for marginfi, but need not be an end.
EndLastAnyOp(end) == tx.ixs[Len(tx.ixs)].via = "marginfi"

\* validate_ix_last: the last instruction is an end, whosever end it is.
EndLast(end) == IsIx(Len(tx.ixs), end)

\* validate_ixes_exclusive
OnlyReceivershipOps(start, end) ==
    \A i \in DOMAIN tx.ixs :
        tx.ixs[i].via = "marginfi" =>
            tx.ixs[i].op \in {start, end, "init_liq_record", "withdraw", "repay"}

ValidateInstructions(start, end) ==
    /\ \A i \in DOMAIN tx.ixs : tx.ixs[i].via \in AllowedPrograms
    /\ StartFirst(start)
    /\ EndLast(end)
    /\ OnlyReceivershipOps(start, end)
    /\ TopLevel
    /\ pc < Len(tx.ixs)

-----------------------------------------------------------------------------
(* The life of a transaction *)

Init ==
    /\ accts = [a \in Accounts |-> Absent]
    /\ saved = accts
    /\ price \in Prices
    /\ tx = Idle
    /\ pc = 0

Submit ==
    /\ pc = 0
    /\ tx' \in Txs
    /\ pc' = 1
    /\ UNCHANGED <<accts, saved, price>>

Commit ==
    /\ pc > Len(tx.ixs)
    /\ saved' = accts
    /\ tx' = Idle
    /\ pc' = 0
    /\ UNCHANGED <<accts, price>>

\* Some instruction fails, by a check modelled here or by any other.
Abort ==
    /\ pc > 0
    /\ accts' = saved
    /\ tx' = Idle
    /\ pc' = 0
    /\ UNCHANGED <<saved, price>>

PriceMove ==
    /\ pc = 0
    /\ price' \in Prices
    /\ UNCHANGED <<accts, saved, tx, pc>>

\* Instruction op is the next one, on an existing account.
At(op) ==
    /\ pc \in DOMAIN tx.ixs
    /\ Ix.op = op
    /\ accts[Ix.acct].exists

\* The instruction leaves account acct as x, and control with the next one.
Leave(x) ==
    /\ accts' = [accts EXCEPT ![Ix.acct] = x]
    /\ pc' = pc + 1
    /\ UNCHANGED <<saved, price, tx>>

\* An instruction that does not touch marginfi: a swap, a refresh, a budget.
Unrelated ==
    /\ pc \in DOMAIN tx.ixs
    /\ Ix.op = "none"
    /\ pc' = pc + 1
    /\ UNCHANGED <<accts, saved, price, tx>>

Target == accts[Ix.acct]
NoFlag(x, fs) == x.flags \intersect fs = {}

-----------------------------------------------------------------------------
(* Flashloans *)

StartFlashloan ==
    /\ At("start_flashloan")
    /\ Target.authority \in tx.signers
    /\ TopLevel
    /\ EndsFlashloan(Ix.acct, Ix.n)
    /\ NoFlag(Target, {"DISABLED", "FLASHLOAN", "RECEIVERSHIP", "FROZEN"})
    /\ Leave([Target EXCEPT !.flags = @ \union {"FLASHLOAN"}])

\* Wrong variant: the health check runs while the flag that suspends it is set.
EndedHealthySuspended(x) == RiskOk(x)

\* The flag is cleared before the health check, so the check is not suspended.
EndedHealthy(x) == RiskOk([x EXCEPT !.flags = @ \ {"FLASHLOAN"}])

EndFlashloan ==
    /\ At("end_flashloan")
    /\ Target.authority \in tx.signers
    /\ TopLevel
    /\ NoFlag(Target, {"DISABLED", "RECEIVERSHIP", "FROZEN"})
    /\ EndedHealthy(Target)
    /\ Leave([Target EXCEPT !.flags = @ \ {"FLASHLOAN"}])

-----------------------------------------------------------------------------
(* Receivership *)

TakeSnapshot(x) ==
    [assetsMaint |-> AssetValue(x, AssetMaint),
     liabsMaint |-> LiabValue(x, LiabMaint),
     assetsEquity |-> AssetValue(x, Scale),
     liabsEquity |-> LiabValue(x, Scale)]

\* start_receivership and the constraints of both its callers
StartReceivership(receiver, ignoreHealthy, added) ==
    /\ Target.record = "linked"
    /\ NoFlag(Target, {"RECEIVERSHIP", "FLASHLOAN", "DISABLED"})
    /\ Liquidatable(Target, ignoreHealthy)
    /\ Leave([Target EXCEPT !.flags = @ \union {"RECEIVERSHIP"} \union added,
                            !.receiver = receiver,
                            !.snapshot = TakeSnapshot(Target)])

StartLiquidation ==
    /\ At("start_liquidation")
    /\ ValidateInstructions("start_liquidation", "end_liquidation")
    /\ StartReceivership(Ix.who, FALSE, {})

StartDeleverage ==
    /\ At("start_deleverage")
    /\ RiskAdmin \in tx.signers
    /\ ValidateInstructions("start_deleverage", "end_deleverage")
    /\ StartReceivership(RiskAdmin, TRUE, {"DELEVERAGE"})

Seized(x) == x.snapshot.assetsEquity - AssetValue(x, Scale)
Repaid(x) == x.snapshot.liabsEquity - LiabValue(x, Scale)

HealthNoWorse(x) ==
    MaintHealth(x) >= x.snapshot.assetsMaint - x.snapshot.liabsMaint

\* end_receivership and the constraints of both its callers.  The snapshot stays
\* behind, but nothing reads it again, so the model clears it.
EndReceivership(ignoreHealthy) ==
    /\ Target.record = "linked"
    /\ "RECEIVERSHIP" \in Target.flags
    /\ NoFlag(Target, {"FLASHLOAN", "DISABLED"})
    /\ Target.receiver \in tx.signers
    /\ TopLevel
    /\ Liquidatable(Target, ignoreHealthy)
    /\ HealthNoWorse(Target)

Released(x, cleared) ==
    [x EXCEPT !.flags = @ \ ({"RECEIVERSHIP"} \union cleared),
              !.receiver = None, !.snapshot = NoSnapshot]

\* Wrong variant: the premium is not capped.
PremiumAny(x) == TRUE

PremiumOk(x) == Seized(x) * Scale <= Repaid(x) * MaxFee

EndLiquidation ==
    LET closeout == Target.snapshot.assetsEquity < Closeout
    IN  /\ At("end_liquidation")
        /\ EndReceivership(closeout)
        /\ closeout \/ PremiumOk(Target)
        /\ Leave(Released(Target, {}))

EndDeleverage ==
    /\ At("end_deleverage")
    /\ RiskAdmin \in tx.signers
    /\ Target.receiver = RiskAdmin
    /\ EndReceivership(TRUE)
    /\ Leave(Released(Target, {"DELEVERAGE"}))

\* Anyone may create the record of any account, once.
InitLiquidationRecord ==
    /\ At("init_liq_record")
    /\ Target.record = "none"
    /\ Leave([Target EXCEPT !.record = "linked"])

-----------------------------------------------------------------------------
(* Balances *)

Deposit ==
    /\ At("deposit")
    /\ Authorized(Target, FALSE)
    /\ NoFlag(Target, {"DISABLED", "RECEIVERSHIP"})
    /\ Target.coll + Ix.n <= MaxColl
    /\ Leave([Target EXCEPT !.coll = @ + Ix.n])

\* withdraw_only and repay_only: a balance never changes sides.
Covered(held, n) == held >= n

\* The health check of a withdrawal, skipped in receivership
WithdrawnOk(x, n) ==
    "RECEIVERSHIP" \in x.flags \/ RiskOk([x EXCEPT !.coll = @ - n])

Withdraw ==
    /\ At("withdraw")
    /\ Authorized(Target, TRUE)
    /\ NoFlag(Target, {"DISABLED"})
    /\ Covered(Target.coll, Ix.n)
    /\ WithdrawnOk(Target, Ix.n)
    /\ Leave([Target EXCEPT !.coll = @ - Ix.n])

Borrow ==
    /\ At("borrow")
    /\ Authorized(Target, FALSE)
    /\ NoFlag(Target, {"DISABLED", "RECEIVERSHIP"})
    /\ Target.debt + Ix.n <= MaxDebt
    /\ RiskOk([Target EXCEPT !.debt = @ + Ix.n])
    /\ Leave([Target EXCEPT !.debt = @ + Ix.n])

Repay ==
    /\ At("repay")
    /\ Authorized(Target, TRUE)
    /\ NoFlag(Target, {"DISABLED"})
    /\ Covered(Target.debt, Ix.n)
    /\ Leave([Target EXCEPT !.debt = @ - Ix.n])

\* Debt that n of the collateral pays for, after a discount
Payoff(n, discount) == (n * price * discount) \div Scale

\* check_pre_liquidation_condition and OverliquidationAttempt
Seizable(x, n) ==
    /\ x.debt > 0
    /\ Liquidatable(x, FALSE)
    /\ Covered(x.coll, n)

\* check_post_liquidation_condition
LiquidatedOk(pre, post) ==
    /\ post.debt > 0
    /\ MaintHealth(post) <= 0
    /\ MaintHealth(post) > MaintHealth(pre)

\* The liquidator, acct, takes n of the collateral of `to` and the debt it pays for.
\* Neither account is looked at for being disabled.
Liquidate ==
    LET n == Ix.n
        liquidatee == accts[Ix.to]
        liquidator2 ==
            [Target EXCEPT !.coll = @ + n,
                           !.debt = @ + Payoff(n, LiquidatorDiscount)]
        liquidatee2 ==
            [liquidatee EXCEPT !.coll = @ - n,
                               !.debt = @ - Payoff(n, FinalDiscount)]
    IN  /\ At("liquidate")
        /\ n > 0
        /\ Ix.to # Ix.acct
        /\ liquidatee.exists
        /\ Authorized(Target, FALSE)
        /\ NoFlag(Target, {"RECEIVERSHIP"})
        /\ NoFlag(liquidatee, {"RECEIVERSHIP"})
        /\ Seizable(liquidatee, n)
        /\ Covered(liquidatee.debt, Payoff(n, FinalDiscount))
        /\ LiquidatedOk(liquidatee, liquidatee2)
        /\ liquidator2.coll <= MaxColl /\ liquidator2.debt <= MaxDebt
        /\ RiskOk(liquidator2)
        /\ accts' = [accts EXCEPT ![Ix.acct] = liquidator2,
                                  ![Ix.to] = liquidatee2]
        /\ pc' = pc + 1
        /\ UNCHANGED <<saved, price, tx>>

\* The insurance fund and the depositors pay the debt off; the account is disabled.
HandleBankruptcy ==
    /\ At("handle_bankruptcy")
    /\ Permissionless \/ {Admin, RiskAdmin} \intersect tx.signers # {}
    /\ NoFlag(Target, {"RECEIVERSHIP", "FLASHLOAN"})
    /\ Bankrupt(Target)
    /\ Leave([Target EXCEPT !.debt = 0, !.flags = @ \union {"DISABLED"}])

-----------------------------------------------------------------------------
(* The life of an account *)

InitializeAccount ==
    /\ pc \in DOMAIN tx.ixs
    /\ Ix.op = "initialize"
    /\ ~Target.exists
    /\ Ix.who \in tx.signers
    /\ Leave([Target EXCEPT !.exists = TRUE, !.authority = Ix.who])

\* transfer_to_new_account: the positions and every flag go to a new account; the
\* old one keeps its record, is emptied and disabled.
TransferToNewAccount ==
    /\ At("transfer")
    /\ ~accts[Ix.to].exists
    /\ Authorized(Target, FALSE)
    /\ NoFlag(Target, {"FLASHLOAN", "RECEIVERSHIP"})
    /\ ~Target.migrated
    /\ accts' = [accts EXCEPT
            ![Ix.to] = [accts[Ix.to] EXCEPT
                !.exists = TRUE, !.authority = Ix.who, !.flags = Target.flags,
                !.coll = Target.coll, !.debt = Target.debt],
            ![Ix.acct] = [Target EXCEPT
                !.migrated = TRUE, !.coll = 0, !.debt = 0,
                !.flags = @ \union {"DISABLED"}]]
    /\ pc' = pc + 1
    /\ UNCHANGED <<saved, price, tx>>

Freeze ==
    /\ At("freeze")
    /\ Admin \in tx.signers
    /\ Leave([Target EXCEPT !.flags = @ \union {"FROZEN"}])

Unfreeze ==
    /\ At("unfreeze")
    /\ Admin \in tx.signers
    /\ Leave([Target EXCEPT !.flags = @ \ {"FROZEN"}])

\* The record is not closed with its account, and can be created only once.
CloseAccount ==
    /\ At("close")
    /\ Target.authority \in tx.signers
    /\ NoFlag(Target, {"FROZEN", "DISABLED", "FLASHLOAN", "RECEIVERSHIP"})
    /\ Target.coll = 0 /\ Target.debt = 0
    /\ Leave([Absent EXCEPT
                !.record = IF Target.record = "none" THEN "none" ELSE "orphan"])

Next ==
    \/ Submit \/ Commit \/ Abort \/ PriceMove \/ Unrelated
    \/ StartFlashloan \/ EndFlashloan
    \/ StartLiquidation \/ StartDeleverage \/ EndLiquidation \/ EndDeleverage
    \/ InitLiquidationRecord
    \/ Deposit \/ Withdraw \/ Borrow \/ Repay \/ Liquidate \/ HandleBankruptcy
    \/ InitializeAccount \/ TransferToNewAccount \/ Freeze \/ Unfreeze
    \/ CloseAccount

Spec == Init /\ [][Next]_vars

-----------------------------------------------------------------------------
(* Properties *)

\* Type correctness of the accounts, the price and the transaction.
TypeOK ==
    /\ accts \in [Accounts -> Account]
    /\ saved \in [Accounts -> Account]
    /\ price \in Prices
    /\ tx \in Transaction
    /\ pc \in 0 .. Len(tx.ixs) + 1

\* No transaction, whatever it is made of, commits an account that is still in a
\* flashloan or in receivership, or whose record still names a receiver.
BracketsClosed ==
    \A a \in Accounts :
        NoFlag(saved[a], Brackets) /\ saved[a].receiver = None

\* a's flashloan is closed by an instruction still to run.
FlashloanPending(a) ==
    \E i \in pc .. Len(tx.ixs) :
        IsIx(i, "end_flashloan") /\ tx.ixs[i].acct = a

\* a was put in receivership by the one start of this transaction, whose last
\* instruction, still to run, is the end of the same kind.
ReceivershipPending(a, start, end) ==
    /\ pc <= Len(tx.ixs)
    /\ EndLast(end)
    /\ OnlyReceivershipOps(start, end)
    /\ \E s \in 1 .. pc - 1 :
        /\ {i \in DOMAIN tx.ixs : IsIx(i, start)} = {s}
        /\ tx.ixs[s].acct = a

\* What each of a's flags promises of the transaction.
Pending(a) ==
    /\ "FLASHLOAN" \in accts[a].flags => FlashloanPending(a)
    /\ "RECEIVERSHIP" \in accts[a].flags =>
        IF "DELEVERAGE" \in accts[a].flags
        THEN ReceivershipPending(a, "start_deleverage", "end_deleverage")
        ELSE ReceivershipPending(a, "start_liquidation", "end_liquidation")
    /\ "RECEIVERSHIP" \notin accts[a].flags =>
        "DELEVERAGE" \notin accts[a].flags /\ accts[a].receiver = None
    /\ ~accts[a].exists => NoFlag(accts[a], Brackets)

\* The inductive invariant behind BracketsClosed.
BracketInv ==
    /\ TypeOK
    /\ BracketsClosed
    /\ pc = 0 => accts = saved /\ tx = Idle
    /\ pc > 0 => \A a \in Accounts : Pending(a)

Commits == saved' # saved

\* Accounts whose positions account a may have received in this transaction.
Origins(a) == {a} \union
    {b \in Accounts : saved'[b].migrated /\ ~saved[b].migrated}

\* However a transaction suspends the health checks on its way, every account it
\* leaves behind meets the initial requirement, or is as healthy as it was.
HealthyOrNoWorse ==
    [][Commits =>
        \A a \in Accounts :
            \/ InitHealthy(saved'[a])
            \/ \E b \in Origins(a) :
                MaintHealth(saved'[a]) >= MaintHealth(saved[b])]_vars

\* The owner of x, or an admin in the owner's stead, signed the transaction.  A
\* frozen account has no owner but the admin.
Consented(x) ==
    \/ {Admin, RiskAdmin} \intersect tx.signers # {}
    \/ "FROZEN" \notin x.flags /\ x.authority \in tx.signers

Moved(a) ==
    saved'[a].coll # saved[a].coll \/ saved'[a].debt # saved[a].debt

\* By the maintenance weights or by being bankrupt, others may act on an account.
Exposed(x) == MaintHealth(x) <= 0 \/ Bankrupt(x)

\* Receivership opens an account to every signer, and the instructions that use it
\* check nobody's authority.  Still, without consent the positions of an account
\* change only when it was liquidatable, by its maintenance health, at the start, or
\* bankrupt, which weights above one let an account be whose health is positive.
OwnerConsents ==
    [][Commits =>
        \A a \in Accounts :
            saved[a].exists /\ Moved(a) /\ ~Consented(saved[a])
                => Exposed(saved[a])]_vars

\* The running transaction has left account a as the last one did, but for the flags
\* that concern nobody's consent.
Intact(a) ==
    /\ accts[a].exists /\ accts[a].authority = saved[a].authority
    /\ accts[a].coll = saved[a].coll /\ accts[a].debt = saved[a].debt
    /\ "FROZEN" \in accts[a].flags <=> "FROZEN" \in saved[a].flags
    /\ "RECEIVERSHIP" \notin accts[a].flags

\* Why: an account that is not exposed stays so, since it stays as it is.
ConsentInv ==
    pc > 0 => \A a \in Accounts :
        saved[a].exists /\ ~Consented(saved[a]) /\ ~Exposed(saved[a]) => Intact(a)

\* Accounts whose positions the running transaction may have moved to account a
OriginsNow(a) == {a} \union
    {b \in Accounts : accts[b].migrated /\ ~saved[b].migrated}

\* What HealthyOrNoWorse wants of account a, in the middle of a transaction
Standing(a) ==
    \/ InitHealthy(accts[a])
    \/ \E b \in OriginsNow(a) : MaintHealth(accts[a]) >= MaintHealth(saved[b])

\* An account is migrated once and for all.
MigratedIsFinal(x) ==
    /\ x.migrated => "DISABLED" \in x.flags
    /\ ~x.exists => ~x.migrated

\* Why HealthyOrNoWorse holds: an account whose checks are not suspended stands as it
\* should; receivership began on the positions the account had before the transaction,
\* as nothing that may precede its start moves any, and ends no worse than it began.
HealthInv ==
    /\ ComputeIsLeaf(tx)
    /\ \A a \in Accounts : MigratedIsFinal(accts[a]) /\ MigratedIsFinal(saved[a])
    /\ pc > 0 => \A a \in Accounts :
        /\ saved[a].migrated => accts[a].migrated
        /\ NoFlag(accts[a], {"FLASHLOAN", "RECEIVERSHIP"}) => Standing(a)
        /\ "RECEIVERSHIP" \in accts[a].flags =>
              accts[a].snapshot.assetsMaint - accts[a].snapshot.liabsMaint
                  = MaintHealth(saved[a])
        /\ (\A i \in 1 .. pc - 1 : MayPrecedeStart(i)) =>
              accts[a].coll = saved[a].coll /\ accts[a].debt = saved[a].debt

\* What an account lost that was x and is y, and what it was relieved of, at one.
Lost(x, y) == AssetValue(x, Scale) - AssetValue(y, Scale)
Relieved(x, y) == LiabValue(x, Scale) - LiabValue(y, Scale)

\* It lost no more than the premium of a receivership over the debt.
PremiumCapped(x, y) == Lost(x, y) * Scale <= Relieved(x, y) * MaxFee

\* The liquidations among the first n instructions
Liquidations(n) == Cardinality({i \in 1 .. n : tx.ixs[i].op = "liquidate"})

\* It lost no more than the two fees of liquidations over the debt, which each of the k
\* may have rounded down to a whole unit.
FeesCapped(x, y, k) ==
    Lost(x, y) * FinalDiscount <= Relieved(x, y) * Scale + k * (Scale * Scale)

\* Without consent an account loses no more than the premium of a receivership, or
\* the two fees of a liquidation, over the debt it is relieved of, however many
\* withdrawals and repayments by whomever; unless it is small enough to close out.
SeizureBounded ==
    [][Commits =>
        \A a \in Accounts :
            saved[a].exists /\ ~Consented(saved[a]) =>
                \/ AssetValue(saved[a], Scale) < Closeout
                \/ PremiumCapped(saved[a], saved'[a])
                \/ FeesCapped(saved[a], saved'[a], Liquidations(Len(tx.ixs)))]_vars

\* The transaction cannot commit: its last instruction ends a receivership, and none is
\* open or will be.
Doomed ==
    /\ pc <= Len(tx.ixs) /\ EndLast("end_liquidation")
    /\ \A i \in pc .. Len(tx.ixs) :
          ~IsIx(i, "start_liquidation") /\ ~IsIx(i, "start_deleverage")
    /\ \A a \in Accounts : "RECEIVERSHIP" \notin accts[a].flags

\* What is known of account a while its positions are others' to take: who owns it, what
\* a receivership of it is measured against, and what it has lost outside of one.
Measured(a) ==
    /\ accts[a].exists /\ accts[a].authority = saved[a].authority
    /\ "FROZEN" \in accts[a].flags <=> "FROZEN" \in saved[a].flags
    /\ "RECEIVERSHIP" \in accts[a].flags =>
          /\ accts[a].snapshot.assetsEquity = AssetValue(saved[a], Scale)
          /\ accts[a].snapshot.liabsEquity = LiabValue(saved[a], Scale)
    /\ "RECEIVERSHIP" \notin accts[a].flags =>
          \/ FeesCapped(saved[a], accts[a], Liquidations(pc - 1))
          \/ pc > Len(tx.ixs) /\ PremiumCapped(saved[a], accts[a])
          \/ Doomed

\* Why SeizureBounded holds: liquidations take their fees one by one; a receivership is
\* measured against what the account was before the transaction, and once it has ended
\* the transaction is over or cannot commit.
SeizureInv ==
    pc > 0 => \A a \in Accounts :
        saved[a].exists /\ ~Consented(saved[a]) /\ AssetValue(saved[a], Scale) >= Closeout
            => Measured(a)

\* The inductive invariant of the accounts.
IInv == BracketInv /\ ConsentInv /\ HealthInv /\ SeizureInv

\* type-crate/src/types/user_account.rs:32-33, ACCOUNT_DISABLED "indicates that the
\* account is disabled and no further actions can be taken on it".
DisabledIsFinal ==
    [][Commits =>
        \A a \in Accounts : "DISABLED" \in saved[a].flags => ~Moved(a)]_vars

=============================================================================
