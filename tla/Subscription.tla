----------------------------- MODULE Subscription -----------------------------
(***************************************************************************)
(* What billing promises of the tenants' accounts, said without rows,      *)
(* copies, customers or deliveries.  Stripe says something of an account   *)
(* with every event; an account follows what was said of it, each time the *)
(* whole of the newest that was heard, as if events were worked on one     *)
(* after the other.  An account that is upset, because events overtook     *)
(* each other, may follow an older event, or a part of one; but never one  *)
(* about somebody else.  StripeBilling is shown to implement this module.  *)
(***************************************************************************)
EXTENDS Naturals, Sequences

CONSTANTS Tenants, None  \* None: no subscription, and what an event leaves as it is

VARIABLES
    account, \* the plan, status and subscription of each tenant
    said,    \* what Stripe has said, in order, of whom
    heard,   \* the newest that was heard of each tenant, 0 for nothing
    upset    \* the tenants whose events were not heard one after the other

Columns == {"plan", "status", "sub"}

Words == [tenant : Tenants, plan : {"free", "starter", "pro", None},
          status : {"active", "past_due", "canceled", "incomplete", None},
          sub : Nat \cup {None}]

Init ==
    /\ account = [t \in Tenants |-> [plan |-> "free", status |-> "active", sub |-> None]]
    /\ said = <<>>
    /\ heard = [t \in Tenants |-> 0]
    /\ upset = {}

Says ==
    /\ Len(said') = Len(said) + 1
    /\ \A k \in DOMAIN said : said'[k] = said[k]
    /\ said'[Len(said')] \in Words
    /\ UNCHANGED <<account, heard, upset>>

\* A newer event is heard, perhaps while an older one is worked on.
Hears(t) ==
    /\ \E k \in DOMAIN said :
          /\ said[k].tenant = t /\ k > heard[t]
          /\ heard' = [heard EXCEPT ![t] = k]
    /\ upset' \in {upset, upset \cup {t}}
    /\ UNCHANGED <<account, said>>

\* An older one is heard, or the customer replaced.
Upsets(t) ==
    /\ upset' = upset \cup {t}
    /\ UNCHANGED <<account, said, heard>>

\* The account with some of the columns as the word says.
Told(a, word, columns) ==
    [f \in Columns |-> IF f \in columns /\ word[f] # None THEN word[f] ELSE a[f]]

Follows(t) ==
    /\ \E k \in DOMAIN said, columns \in SUBSET Columns :
          /\ said[k].tenant = t /\ k <= heard[t]
          /\ t \in upset \/ (k = heard[t] /\ columns = Columns)
          /\ account' = [account EXCEPT ![t] = Told(@, said[k], columns)]
    /\ UNCHANGED <<said, heard, upset>>

Next == Says \/ \E t \in Tenants : Hears(t) \/ Upsets(t) \/ Follows(t)

Spec == Init /\ [][Next]_<<account, said, heard, upset>>
===============================================================================
