------------------------------ MODULE Customers ------------------------------
(* What people type, at the bank and at the ATM.                            *)
EXTENDS Integers

CONSTANTS User,      \* names that both programs accept
          Pin,       \* four-digit PINs
          Amount,    \* amounts of money, also ones that an int cannot hold
          INT_MAX,
          NULL

ASSUME CustomersAssumption ==
    INT_MAX \in Nat /\ Amount \subseteq Nat /\ NULL \notin User \union Pin

=============================================================================
