------------------------------ MODULE BankConfig -----------------------------
(***************************************************************************)
(* The settings of a group's banks and everyone who changes them: the      *)
(* admin and the delegates who hold a part of his rights, the admin of     *)
(* emode, and the instructions anyone may send (adding a staked bank,      *)
(* propagating the settings of staked banks, migrating a curve).           *)
(*                                                                         *)
(* Weights are twentieths. The keys of an oracle are its feed, which some  *)
(* publisher owns, and the accounts of a venue or stake pool, left out.    *)
(* A configuration's options are a record of the fields it gives: "++"     *)
(* puts them over the bank's own. The operational state is in Bank.        *)
(***************************************************************************)
EXTENDS InterestCurve, FiniteSets

CONSTANTS
    Banks,         \* the banks a group may have
    OldGroups,     \* [banks, settings] left by earlier versions of the program
    Feeds,         \* the price feeds
    PythFeeds,     \* those published by Pyth; the others are Switchboard's
    NewConfigs,    \* configurations of banks that are added
    VenueConfigs,  \* configurations of banks at a venue that are added
    Options,       \* what the admin configures: [fields, rates, set, clear]
    RateOptions,   \* what the delegate of curves configures
    LimitOptions,  \* what the delegate of limits configures
    EmodeOptions,  \* what the admin of emode configures: [emodeTag, entries]
    Leverages,     \* leverages of a group: [init, maint]
    StakedOptions, \* what staked settings are edited to
    MinAge,        \* ORACLE_MIN_AGE
    Default        \* Pubkey::default()

ASSUME BankConfigAssumption ==
    /\ PythFeeds \subseteq Feeds /\ Default \notin Feeds
    /\ MinAge \in Nat

ConfigFields ==
    {"tag", "ai", "am", "li", "lm", "tier", "age", "depositLimit", "borrowLimit", "valueLimit",
     "curve"}
StakedFields == {"feed", "age", "tier", "ai", "am", "depositLimit", "valueLimit"}
VenueFields == StakedFields \cup {"tag", "setup"}
BankFields == ConfigFields \cup {"setup", "feed", "flags", "emodeTag", "entries"}

\* Whether the weights and ages among these settings are numbers
Numeric(r) == \A f \in DOMAIN r \cap {"ai", "am", "li", "lm", "age"} : r[f] \in Int

ASSUME OptionsAssumption ==
    /\ \A c \in NewConfigs : DOMAIN c = ConfigFields /\ Numeric(c) /\ c.curve \in Curves
    /\ \A c \in VenueConfigs : DOMAIN c = VenueFields /\ Numeric(c)
    /\ \A s \in StakedOptions : DOMAIN s = StakedFields /\ Numeric(s)
    /\ \A o \in Options :
           /\ DOMAIN o.fields \subseteq ConfigFields \ {"curve"} /\ Numeric(o.fields)
           /\ \A rates \in o.rates : AreRates(rates)
    /\ \A rates \in RateOptions : AreRates(rates)
    /\ \A l \in LimitOptions : DOMAIN l \subseteq {"depositLimit", "borrowLimit", "valueLimit"}
    /\ \A e \in EmodeOptions : DOMAIN e = {"emodeTag", "entries"}

VARIABLES
    banks,     \* the settings of the banks created so far
    leverage,  \* emode_max_init_leverage and emode_max_maint_leverage of the group
    settings   \* the group's StakedSettings, or none

configVars == <<banks, leverage, settings>>

One == 20
None == [none |-> TRUE]

DefaultLeverage == [init |-> 15, maint |-> 20]
GroupFlags == {"bad_debt", "freeze", "tokenless", "tokenless_complete"}
EmissionFlags == {"lending", "borrow"}
BankFlags == GroupFlags \cup EmissionFlags \cup {"close_enabled"}

PythSetups == {"pyth", "staked_pyth", "kamino_pyth", "solend_pyth", "drift_pyth"}
SwitchboardSetups == {"swb", "kamino_swb", "solend_swb", "drift_swb"}
VenueSetups ==
    [kamino |-> {"kamino_pyth", "kamino_swb"}, solend |-> {"solend_pyth", "solend_swb"},
     drift |-> {"drift_pyth", "drift_swb"}]

Frozen(b) == "freeze" \in b.flags

\* OraclePriceFeedAdapter::validate_bank_config, for some accounts given by the caller: the
\* feed is the bank's, and of the publisher its setup names.
OracleFits(b) ==
    \/ b.setup = "fixed"
    \/ b.setup \in PythSetups /\ b.feed \in PythFeeds
    \/ b.setup \in SwitchboardSetups /\ b.feed \in Feeds \ PythFeeds

\* BankConfig::validate, but for the curve
ValidWeights(b) ==
    /\ 0 <= b.ai /\ b.ai <= One
    /\ b.ai <= b.am /\ b.am <= 2 * One
    /\ One <= b.lm /\ b.lm <= b.li
    /\ b.tier = "isolated" => b.ai = 0 /\ b.am = 0

\* Wrong variant: any age will do.
ValidAnyAge(b) == ValidWeights(b) /\ ValidCurve(b.curve)

\* BankConfig::validate
Valid(b) == ValidWeights(b) /\ ValidCurve(b.curve) /\ b.age >= MinAge

\* StakedSettings::validate: of the weights only.
ValidStaked(s) ==
    /\ 0 <= s.ai /\ s.ai <= One
    /\ s.ai <= s.am /\ s.am <= 2 * One
    /\ s.tier = "isolated" => s.ai = 0 /\ s.am = 0

\* calculate_max_leverage and its bound: 1 / (1 - cw / lw) is at most the largest allowed.
LeverageWithin(cw, lw, most) == cw < lw /\ lw <= most * (lw - cw)

\* EmodeSettings::check_dupes
NoDuplicates(entries) == \A e, f \in entries : e.tag = f.tag => e = f

\* validate_entries_with_liability_weights
ValidEmode(b) ==
    /\ \A e \in b.entries :
           /\ 0 <= e.init /\ e.init <= e.maint
           /\ LeverageWithin(e.init, b.li, leverage.init)
           /\ LeverageWithin(e.maint, b.lm, leverage.maint)
    /\ NoDuplicates(b.entries)
-----------------------------------------------------------------------------
\* What Bank::new adds to a configuration
NewBank(config) ==
    config ++ [setup |-> "none", feed |-> Default, flags |-> {"close_enabled"},
               emodeTag |-> 0, entries |-> {}]

\* The placeholders of a bank whose tokens are never lent
NeverLent ==
    [li |-> 30, lm |-> 25, borrowLimit |-> 0,
     curve |-> [type |-> "seven", optimal |-> 0, plateau |-> 0, max |-> 0,
                zero |-> 0, hundred |-> 1, points |-> <<[util |-> 1, rate |-> 0]>>]]

Insert(b, bank) ==
    /\ b \notin DOMAIN banks
    /\ Valid(bank)
    /\ banks' = [c \in {b} |-> bank] ++ banks
    /\ UNCHANGED <<leverage, settings>>

Replace(b, bank) ==
    /\ banks' = [banks EXCEPT ![b] = bank]
    /\ UNCHANGED <<leverage, settings>>

\* lending_pool_add_bank and lending_pool_add_bank_with_seed
AddBank(b, config) ==
    /\ config.tag \in {"default", "sol"}
    /\ Insert(b, NewBank(config))

\* lending_pool_add_bank_permissionless
AddStakedBank(b) ==
    /\ settings # None
    /\ LET bank == [setup |-> "staked_pyth", tag |-> "staked"] ++ settings ++ NeverLent
       IN /\ OracleFits(bank)
          /\ Insert(b, bank ++ NewBank(bank))

\* lending_pool_add_bank_kamino, lending_pool_add_bank_solend and lending_pool_add_bank_drift
AddVenueBank(b, config) ==
    /\ config.setup \in VenueSetups[config.tag]
    /\ OracleFits(config)
    /\ Insert(b, config ++ NeverLent ++ NewBank(config))
-----------------------------------------------------------------------------
\* Bank::configure, without its validation
Configured(b, opt) ==
    [(opt.fields ++ b) EXCEPT
        !.curve = IF opt.rates = {} THEN b.curve
                  ELSE UpdatedCurve(b.curve, CHOOSE r \in opt.rates : TRUE),
        !.flags = (@ \cup opt.set) \ opt.clear]

\* configure_unfrozen_fields_only
LimitsOf(opt) ==
    [f \in DOMAIN opt.fields \cap {"depositLimit", "borrowLimit"} |-> opt.fields[f]]

\* Wrong variant: the entries of emode are not compared with weights that change.
ConfigureBankOnly(b, opt) ==
    LET bank == IF Frozen(banks[b]) THEN LimitsOf(opt) ++ banks[b]
                ELSE Configured(banks[b], opt)
    IN /\ ~Frozen(banks[b]) => Valid(bank)
       /\ Replace(b, bank)

\* lending_pool_configure_bank
ConfigureBank(b, opt) ==
    LET bank == IF Frozen(banks[b]) THEN LimitsOf(opt) ++ banks[b]
                ELSE Configured(banks[b], opt)
    IN /\ ~Frozen(banks[b]) => Valid(bank) /\ ValidEmode(bank)
       /\ Replace(b, bank)

\* Wrong variant: the delegate's rates reach frozen banks.
ConfigureInterestThawed(b, rates) ==
    LET curve == UpdatedCurve(banks[b].curve, rates)
    IN ValidCurve(curve) /\ Replace(b, [banks[b] EXCEPT !.curve = curve])

\* lending_pool_configure_bank_interest_only
ConfigureInterestOnly(b, rates) ==
    /\ ~Frozen(banks[b])
    /\ LET curve == UpdatedCurve(banks[b].curve, rates)
       IN ValidCurve(curve) /\ Replace(b, [banks[b] EXCEPT !.curve = curve])

\* lending_pool_configure_bank_limits_only
ConfigureLimitsOnly(b, limits) ==
    LET given == IF Frozen(banks[b])
                 THEN [f \in DOMAIN limits \ {"valueLimit"} |-> limits[f]] ELSE limits
    IN Replace(b, given ++ banks[b])

\* lending_pool_force_tokenless_repay_complete
ForceTokenlessRepayComplete(b) ==
    /\ "tokenless" \in banks[b].flags
    /\ Replace(b, [banks[b] EXCEPT !.flags = @ \cup {"tokenless_complete"}])

\* lending_pool_configure_bank_emode
ConfigureEmode(b, emode) ==
    LET bank == emode ++ banks[b]
    IN ValidEmode(bank) /\ Replace(b, bank)

\* lending_pool_clone_emode: the tag and the entries of another bank, not validated against
\* the weights of this one.
CloneEmode(from, to) ==
    Replace(to, [banks[to] EXCEPT !.emodeTag = banks[from].emodeTag,
                                  !.entries = banks[from].entries])

\* lending_pool_configure_bank_oracle
ConfigureOracle(b, setup, feed) ==
    /\ ~Frozen(banks[b])
    /\ setup # "fixed"
    /\ LET bank == [banks[b] EXCEPT !.setup = setup, !.feed = feed]
       IN OracleFits(bank) /\ Replace(b, bank)

\* lending_pool_set_fixed_oracle_price
SetFixedOraclePrice(b) ==
    /\ ~Frozen(banks[b])
    /\ banks[b].tag # "staked"
    /\ Replace(b, [banks[b] EXCEPT !.setup = "fixed", !.feed = Default])

\* migrate_curve
MigrateCurve(b) ==
    LET bank == [banks[b] EXCEPT !.curve = Migrated(@)]
    IN Valid(banks[b]) /\ Valid(bank) /\ Replace(b, bank)

\* The configure handler of the group
ConfigureGroup(l) ==
    /\ 1 <= l.init /\ l.init < l.maint /\ l.maint <= 100
    /\ leverage' = l
    /\ UNCHANGED <<banks, settings>>

\* initialize_staked_settings
InitStakedSettings(s) ==
    /\ settings = None
    /\ ValidStaked(s)
    /\ settings' = s
    /\ UNCHANGED <<banks, leverage>>

\* edit_staked_settings. An edit that leaves fields out is one that gives what they are.
EditStakedSettings(opt) ==
    /\ settings # None
    /\ ValidStaked(opt ++ settings)
    /\ settings' = opt ++ settings
    /\ UNCHANGED <<banks, leverage>>

\* Wrong variant: the feed is not validated when it changes.
PropagateBlindly(b) ==
    /\ settings # None /\ banks[b].tag = "staked"
    /\ LET bank == settings ++ banks[b] IN Valid(bank) /\ Replace(b, bank)

\* propagate_staked_settings: frozen banks too.
PropagateStakedSettings(b) ==
    /\ settings # None /\ banks[b].tag = "staked"
    /\ LET bank == settings ++ banks[b]
       IN /\ bank.feed # banks[b].feed => OracleFits(bank)
          /\ Valid(bank)
          /\ Replace(b, bank)

Init ==
    /\ \E old \in OldGroups : banks = old.banks /\ settings = old.settings
    /\ leverage = DefaultLeverage

GroupNext ==
    \/ \E l \in Leverages : ConfigureGroup(l)
    \/ \E s \in StakedOptions : InitStakedSettings(s) \/ EditStakedSettings(s)
    \/ \E b \in Banks :
           \/ \E config \in NewConfigs : AddBank(b, config)
           \/ \E config \in VenueConfigs : AddVenueBank(b, config)
           \/ AddStakedBank(b)

BankNext(b) ==
    \/ \E opt \in Options : ConfigureBank(b, opt)
    \/ \E rates \in RateOptions : ConfigureInterestOnly(b, rates)
    \/ \E limits \in LimitOptions : ConfigureLimitsOnly(b, limits)
    \/ \E emode \in EmodeOptions : ConfigureEmode(b, emode)
    \/ \E setup \in PythSetups \cup SwitchboardSetups, feed \in Feeds :
           ConfigureOracle(b, setup, feed)
    \/ \E from \in DOMAIN banks \ {b} : CloneEmode(from, b)
    \/ ForceTokenlessRepayComplete(b) \/ SetFixedOraclePrice(b)
    \/ MigrateCurve(b) \/ PropagateStakedSettings(b)

Next == GroupNext \/ \E b \in DOMAIN banks : BankNext(b)
-----------------------------------------------------------------------------
(* Properties *)

\* Weights that agree, no isolated backing and no lax oracle
Sound(b) ==
    /\ b.ai <= b.am /\ b.lm <= b.li
    /\ b.ai <= b.lm
    /\ \A e \in b.entries : e.init <= e.maint
    /\ b.tier = "isolated" => b.am = 0
    /\ b.age >= MinAge

\* An oracle its publisher and setup agree on, if any
Agrees(b) == b.setup = "none" \/ OracleFits(b)

\* The settings of a bank that no step may leave
GoodBank(b) ==
    /\ DOMAIN b = BankFields /\ Numeric(b)
    /\ b.curve \in Curves /\ ValidCurve(b.curve)
    /\ Sound(b) /\ Agrees(b)

GoodSettings(s) == s = None \/ (DOMAIN s = StakedFields /\ Numeric(s))

\* What earlier versions left, they had validated too.
ASSUME OldGroupsAssumption ==
    \A old \in OldGroups :
        /\ \A b \in DOMAIN old.banks : GoodBank(old.banks[b])
        /\ GoodSettings(old.settings)

\* Whoever changes the settings and in whatever order: an account the initial weights accept
\* is not liquidatable by the maintenance weights at the same prices, an isolated asset backs
\* nothing, and no price older than the program's floor asks for is too old. Validated
\* where weights change (configure, propagate, add), not where limits do.
SettingsSound == \A b \in DOMAIN banks : Sound(banks[b])

\* Entries below the weights of the bank's own debts
BelowDebts(b) == \A e \in b.entries : e.init < b.li /\ e.maint < b.lm

\* Only a clone lets an entry of emode reach the weights of its bank's debts, from where what
\* is borrowed backs more than itself: whoever configures weights or entries, adds, migrates,
\* propagates to or freezes banks, and whatever the group's leverage becomes meanwhile, what
\* is below stays below (validate_entries_with_liability_weights).
EmodeStaysBelow ==
    [][\A b \in DOMAIN banks' :
          \/ BelowDebts(banks'[b])
          \/ b \in DOMAIN banks /\ ~BelowDebts(banks[b])
          \/ \E from \in DOMAIN banks : CloneEmode(from, b)]_configVars

\* Every bank that has an oracle has one its publisher and setup agree on, though the feed of
\* a staked bank is set through the group's settings and its setup by the admin.
OracleAgrees == \A b \in DOMAIN banks : Agrees(banks[b])

Defined(c) ==
    /\ \A u \in 0 .. FullUtil : BaseRate(c, u) # NoRate
    /\ \A u \in 1 .. FullUtil : BaseRate(c, u - 1) <= BaseRate(c, u)
    /\ c.type = "seven" => BaseRate(c, 0) = c.zero * Fine
                           /\ (c.points = <<>> \/ c.points[Len(c.points)].util < FullUtil
                                  => BaseRate(c, FullUtil) = c.hundred * Fine)

\* At every utilization the curve of a bank has a rate, between those at the ends, and no
\* lower one at a higher utilization: a rate lerp has none for would stop the accrual.
CurveDefined == \A b \in DOMAIN banks : Defined(banks[b].curve)

\* Why the settings stay sound: what a bank is changed to is validated, or differs from what
\* was in fields that decide nothing.
ConfigInv == (\A b \in DOMAIN banks : GoodBank(banks[b])) /\ GoodSettings(settings)

\* Migrating a curve, which anyone may do, leaves the rate at every utilization as it is but
\* for rates above 1000%, which become 1000% at the curve's points.
KeepsRates(c, d) ==
    \A u \in 0 .. FullUtil :
        /\ BaseRate(d, u) <= BaseRate(c, u)
        /\ c.max <= FullRate => BaseRate(d, u) = BaseRate(c, u)

MigrationKeepsRates ==
    [][\A b \in DOMAIN banks :
          MigrateCurve(b) => KeepsRates(banks[b].curve, banks'[b].curve)]_configVars

\* What freezing a bank's settings leaves to nobody, while it stays frozen: its liability
\* weights, its asset tag, its oracle's setup and its rates below 1000%; and its asset
\* weights, tier, oracle and age are only those of the group's staked settings.
StaysFrozen(old, new) ==
    /\ <<new.li, new.lm, new.tag, new.setup>> = <<old.li, old.lm, old.tag, old.setup>>
    /\ old.curve.max <= FullRate =>
           \A u \in 0 .. FullUtil : BaseRate(new.curve, u) = BaseRate(old.curve, u)
    /\ \/ <<new.ai, new.am, new.tier, new.feed, new.age>>
              = <<old.ai, old.am, old.tier, old.feed, old.age>>
       \/ old.tag = "staked" /\ new = settings ++ old

FreezeHolds ==
    [][\A b \in DOMAIN banks : Frozen(banks[b]) => StaysFrozen(banks[b], banks'[b])]_configVars
=============================================================================
