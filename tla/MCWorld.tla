------------------------------- MODULE MCWorld -------------------------------
(***************************************************************************)
(* What the game itself does: creatures and their spawn, decaying items,   *)
(* the market, the queries nobody waits for, and the coins a player        *)
(* carries (a hundred of them are three, and the bag has three places).     *)
(* One of these moves in a behaviour: the state space is the sum of        *)
(* theirs.  Each is fair when it is the one.                               *)
(***************************************************************************)
EXTENDS Creatures, Decay, Market, DatabaseTasks, Money

Few == {[coin |-> c, count |-> n] : c \in Coins, n \in {1, Ratio - 1, Ratio}}

Bags == {<<>>} \cup {<<s>> : s \in Few} \cup {<<s, t>> : s, t \in Few}

\* a bag of at most two stacks and, in a hand, nothing or two platinum coins
MCPurses ==
    {[slots |-> [i \in Slots |-> hand], bag |-> b, offered |-> Nowhere, fallen |-> 0, lost |-> 0] :
        b \in Bags, hand \in {None, [coin |-> Platinum, count |-> 2]}}

CONSTANT Trader     \* who stays in the market from the first offer on; others come and go

VARIABLE stage

worldVars == <<stage, creatureVars, decayVars, marketVars, vars, moneyVars>>

WorldInit ==
    /\ stage \in {"creatures", "decay", "market", "queries", "money"}
    /\ CreatureInit /\ DecayInit /\ MarketInit /\ Init /\ MoneyInit
    /\ stage # "market" => ware = "item"
    /\ stage # "money" => purse.bag = <<>> /\ \A i \in Slots : purse.slots[i] = None

WorldNext ==
    /\ UNCHANGED stage
    /\ \/ /\ stage = "creatures" /\ CreatureNext
          /\ UNCHANGED <<decayVars, marketVars, vars, moneyVars>>
       \/ /\ stage = "decay" /\ DecayNext
          /\ UNCHANGED <<creatureVars, marketVars, vars, moneyVars>>
       \/ /\ stage = "market" /\ MarketNext
          /\ nextId' > 1 => Trader \in inMarket'
          /\ UNCHANGED <<creatureVars, decayVars, vars, moneyVars>>
       \/ /\ stage = "queries" /\ Next
          /\ UNCHANGED <<creatureVars, decayVars, marketVars, moneyVars>>
       \/ /\ stage = "money" /\ MoneyNext
          /\ UNCHANGED <<creatureVars, decayVars, marketVars, vars>>

WorldFairness ==
    /\ []<>(stage # "decay") \/ DecayFairness
    /\ WF_marketVars(stage = "market" /\ CheckExpiredOffers)
    /\ WF_marketVars(stage = "market" /\ RunExpiryQuery)
    /\ WF_marketVars(stage = "market" /\ ProcessExpiredOffers)
    /\ WF_vars(stage = "queries" /\ ThreadMain)
    /\ WF_vars(stage = "queries" /\ Flush)
    /\ \A c \in Callers : WF_vars(stage = "queries" /\ Notify(c))

WorldSpec == WorldInit /\ [][WorldNext]_worldVars /\ WorldFairness

=============================================================================
