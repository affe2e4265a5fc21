------------------------------- MODULE MCConfig ------------------------------
(***************************************************************************)
(* Model checking of BankConfig and Emissions together: every sequence of  *)
(* a few configuration steps on two banks with one of the emissions among  *)
(* them, which rewrites the flags, and every longer sequence of rewards.   *)
(***************************************************************************)
EXTENDS Emissions, TLC

CONSTANTS b1, b2, pyth, swb

VARIABLE budget  \* bound: the steps left of each kind, [config, rewards]

mcVars == <<emissionsVars, budget>>

Seven(zero, hundred, points) ==
    [type |-> "seven", optimal |-> 0, plateau |-> 0, max |-> 0,
     zero |-> zero, hundred |-> hundred, points |-> points]
Legacy(max) == [type |-> "legacy", optimal |-> 2, plateau |-> 4, max |-> max,
                zero |-> 0, hundred |-> 0, points |-> <<>>]

Config(tag, ai, am, li, lm) ==
    [tag |-> tag, ai |-> ai, am |-> am, li |-> li, lm |-> lm, tier |-> "collateral",
     age |-> 10, depositLimit |-> 1, borrowLimit |-> 1, valueLimit |-> 0,
     curve |-> Seven(1, 8, <<[util |-> 2, rate |-> 4]>>)]

MCNewConfigs == {Config("default", 16, 18, 24, 22), Config("sol", 18, 18, 20, 20)}
MCVenueConfigs ==
    {[tag |-> "kamino", setup |-> "kamino_swb", feed |-> swb, ai |-> 10, am |-> 12,
      tier |-> "collateral", age |-> 10, depositLimit |-> 1, valueLimit |-> 0]}

Option(fields, rates, set, clear) ==
    [fields |-> fields, rates |-> rates, set |-> set, clear |-> clear]
MCOptions ==
    {Option([li |-> 20, lm |-> 20], {}, {}, {}), Option([ai |-> 18, am |-> 17], {}, {}, {}),
     Option([tier |-> "isolated", ai |-> 0, am |-> 0], {}, {}, {}),
     Option([tier |-> "isolated"], {}, {}, {}), Option([tag |-> "staked"], {}, {}, {}),
     Option(<<>>, {}, {"freeze"}, {}), Option([depositLimit |-> 2, ai |-> 4], {}, {}, {"freeze"}),
     Option(<<>>, {<<>>}, {"tokenless"}, {})}
MCRateOptions ==
    {<<>>, [hundred |-> 3], [points |-> <<[util |-> 1, rate |-> 5], [util |-> 3, rate |-> 9]>>],
     [zero |-> 2, points |-> <<[util |-> 4, rate |-> 8]>>]}
MCLimitOptions == {[borrowLimit |-> 0, valueLimit |-> 1]}
MCEmodeOptions ==
    {[emodeTag |-> 1, entries |-> {[tag |-> 1, init |-> 20, maint |-> 21]}],
     [emodeTag |-> 2, entries |-> {[tag |-> 1, init |-> 18, maint |-> 19]}],
     [emodeTag |-> 1, entries |-> {}]}
MCLeverages == {[init |-> 4, maint |-> 5], [init |-> 5, maint |-> 4]}
Staked(feed, age, tier, ai, am) ==
    [feed |-> feed, age |-> age, tier |-> tier, ai |-> ai, am |-> am,
     depositLimit |-> 1, valueLimit |-> 1]
MCStakedOptions ==
    {Staked(pyth, 10, "collateral", 14, 16), Staked(swb, 10, "collateral", 14, 16),
     Staked(pyth, 5, "collateral", 14, 16), Staked(pyth, 10, "isolated", 0, 0)}
MCOldGroups ==
    LET bank(max) == [setup |-> "pyth", feed |-> pyth, curve |-> Legacy(max)]
                         ++ NewBank(Config("default", 16, 18, 26, 24))
    IN {[banks |-> <<>>, settings |-> None],
        [banks |-> b1 :> bank(12), settings |-> None],
        [banks |-> b1 :> bank(8), settings |-> Staked(pyth, 10, "collateral", 14, 16)]}
MCUpdatedFlags == {{"lending"}, {"freeze", "lending", "borrow"}, {"tokenless_complete", "lending"}}

MCInit ==
    /\ EmissionsInit
    /\ \A h, i \in Holders : holders[h] = holders[i]
    /\ \/ /\ budget = [config |-> 3, rewards |-> 1]
          /\ \A h \in Holders : holders[h].status = "open"
       \/ budget = [config |-> 0, rewards |-> 6] /\ Rewarded \in DOMAIN banks

MCNext ==
    \/ /\ budget.config > 0
       /\ Next
       /\ budget' = [budget EXCEPT !.config = @ - 1]
       /\ UNCHANGED rewardVars
    \/ /\ budget.rewards > 0
       /\ RewardNext
       /\ budget' = [budget EXCEPT !.rewards = @ - 1]

MCSpec == MCInit /\ [][MCNext]_mcVars
=============================================================================
