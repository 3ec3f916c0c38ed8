------------------------------- MODULE Account -------------------------------
(***************************************************************************)
(* What handling money promises whoever pays or is paid, whatever coins    *)
(* the money consists of: the player's money, carried or fallen at their   *)
(* feet, changes by the amount of the transaction and by nothing else, but *)
(* for what is lost of a sum received while the player is trading, and *)
(* a payment is refused only if the player carries less than its price.    *)
(***************************************************************************)
EXTENDS Integers

CONSTANTS Amounts, KindMoney, KindTotal

VARIABLES carried, fallen, lost, trading, receipt

account == <<carried, fallen, lost, receipt>>

Money == carried + fallen + lost

LostTrading == lost' >= lost /\ (lost' > lost => trading)

Receipt(kind, amount) == receipt' = [kind |-> kind, amount |-> amount]

AccountInit ==
    /\ carried \in Nat /\ fallen = 0 /\ lost = 0
    /\ receipt = [kind |-> "none", amount |-> 0]

Earn(amount) ==
    /\ Receipt("earned", amount)
    /\ Money' = Money + amount /\ carried' >= carried /\ LostTrading

Pay(price) ==
    /\ price <= carried
    /\ Receipt("paid", price)
    /\ Money' = Money - price /\ fallen' >= fallen /\ lost' = lost

\* A price of money and of things that may be money themselves: the money is
\* paid, and never more than the two together.
PayInKind ==
    /\ KindMoney <= carried
    /\ Receipt("in kind", KindTotal)
    /\ Money' \in (Money - KindTotal)..(Money - KindMoney)
    /\ fallen' >= fallen /\ lost' = lost

Refuse(price) ==
    /\ price > carried
    /\ Receipt("refused", price)
    /\ UNCHANGED <<carried, fallen, lost>>

AccountNext ==
    \/ \E amount \in Amounts : Earn(amount) \/ Pay(amount) \/ Refuse(amount)
    \/ PayInKind
    \/ Receipt("refused", KindTotal) /\ UNCHANGED <<carried, fallen, lost>>

AccountSpec == AccountInit /\ [][AccountNext]_account

=============================================================================
