---------------------------- MODULE ExchangeBook ----------------------------
(***************************************************************************)
(* What the exchange's book may look like to whoever knows nothing of      *)
(* ledgers, requests and posters: bids are placed by applications that     *)
(* exist, revised, and withdrawn unless they are institutional.  There is  *)
(* no retry, no copy of a row and no crash here; BidLedger implements this *)
(* specification with all of them.                                         *)
(***************************************************************************)
EXTENDS BidRules, Sequences

CONSTANTS App, MaxQty

VARIABLES
    class,  \* class[a]: the category application a was made in, if it was made
    book    \* the exchange's bids in the order it accepted them

bookVars == <<class, book>>

NotMade == "not made"
Made(a) == class[a] # NotMade
Restricted(a) == ~BidRights(class[a])

BookInit ==
    /\ class \in [App -> CategoryText \cup {NotMade}]
    /\ \A n \in DOMAIN book : Made(book[n].app) /\ book[n].live

Make(a, c) ==
    /\ ~Made(a)
    /\ class' = [class EXCEPT ![a] = c]
    /\ UNCHANGED book

Place(a, q) ==
    /\ Made(a)
    /\ book' = Append(book, [app |-> a, qty |-> q, live |-> TRUE])
    /\ UNCHANGED class

Revise(n, q) ==
    /\ book[n].live
    /\ book' = [book EXCEPT ![n].qty = q]
    /\ UNCHANGED class

Withdraw(n) ==
    /\ book[n].live /\ ~Restricted(book[n].app)
    /\ book' = [book EXCEPT ![n].live = FALSE]
    /\ UNCHANGED class

BookNext ==
    \/ \E a \in App, c \in CategoryText : Make(a, c)
    \/ \E a \in App, q \in 1 .. MaxQty : Place(a, q)
    \/ \E n \in DOMAIN book, q \in 1 .. MaxQty : Revise(n, q)
    \/ \E n \in DOMAIN book : Withdraw(n)

BookSpec == BookInit /\ [][BookNext]_bookVars
=============================================================================
