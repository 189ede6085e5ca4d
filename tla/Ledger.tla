------------------------------- MODULE Ledger -------------------------------
(* What the bank promises, without its hash table, its network and its      *)
(* command line: a book of accounts, each with the PIN it was opened with   *)
(* and a balance that an int can hold.  The book is kept in memory only.    *)
EXTENDS Naturals

CONSTANTS User, Pin,
          Amount,   \* the amounts that can be asked for
          INT_MAX

VARIABLE book       \* the open accounts: a function on the users that have one

Holders == DOMAIN book

Balance == 0 .. INT_MAX

Init == book = [u \in {} |-> [pin |-> 0, balance |-> 0]]

Open(u, p, b) ==
    /\ u \notin Holders /\ b \in Balance
    /\ book' = [v \in Holders \union {u} |->
                  IF v = u THEN [pin |-> p, balance |-> b] ELSE book[v]]

SetBalance(u, b) ==
    /\ u \in Holders /\ b \in Balance
    /\ book' = [book EXCEPT ![u].balance = b]

Deposit(u, a) == SetBalance(u, book[u].balance + a)

Withdraw(u, a) == a <= book[u].balance /\ SetBalance(u, book[u].balance - a)

Restart == book' = [u \in {} |-> [pin |-> 0, balance |-> 0]]

Next ==
    \/ \E u \in User, p \in Pin, b \in Amount : Open(u, p, b)
    \/ \E u \in Holders, a \in Amount : Deposit(u, a) \/ Withdraw(u, a)
    \/ Restart

Spec == Init /\ [][Next]_book

=============================================================================
