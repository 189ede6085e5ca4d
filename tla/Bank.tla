-------------------------------- MODULE Bank --------------------------------
(* The bank process: bank/bank.c and the loop of bank/bank-main.c.  A line  *)
(* that is refused for its form (Usage, Invalid command) has no effect and  *)
(* is not told apart from one that is never typed; a request that arrives   *)
(* damaged by the ATM's fixed-size buffer is kept, as its count of blocks   *)
(* and what is left of its last one.                                        *)
EXTENDS Customers, Sequences

CONSTANTS Bin, hash(_)   \* the bins of the hash table and the bin of a name

ASSUME BankAssumption ==
    /\ \A u \in User : hash(u) \in Bin
    /\ NULL \notin [pin : Pin, balance : 0 .. INT_MAX]

VARIABLES accounts,   \* the hash table from names to [pin, balance]
          cards,      \* the card files on disk: a function from names to PINs
          sendline,   \* the last line read from stdin, NULL before the first
          eof         \* stdin has reached its end

bankVars == <<accounts, cards, sendline, eof>>

Table == INSTANCE HashTable

Account(u) == IF u = NULL THEN NULL ELSE Table!hash_table_find(accounts, u)

Holders == {u \in User : Account(u) # NULL}

WithBalance(u, b) == Table!Overwrite(accounts, u, [Account(u) EXCEPT !.balance = b])

BankInit ==
    /\ accounts = Table!hash_table_create
    /\ cards = [u \in {} |-> NULL]
    /\ sendline = NULL
    /\ eof = FALSE

----------------------------------------------------------------------------
(* bank_process_local_command                                               *)

LocalCommand ==
    [cmd : {"create-user"}, user : User, pin : Pin, amt : Amount]
      \union [cmd : {"deposit"}, user : User, amt : Amount]
      \union [cmd : {"balance"}, user : User]

MayCreate(c) == c.amt <= INT_MAX /\ Account(c.user) = NULL

\* The account enters the table before its card file is written.
WithNewAccount(c) ==
    Table!hash_table_add(accounts, c.user, [pin |-> c.pin, balance |-> c.amt])

CreateUser(c) ==
    /\ c.cmd = "create-user" /\ MayCreate(c)
    /\ accounts' = WithNewAccount(c)
    /\ cards' = [u \in DOMAIN cards \union {c.user} |->
                   IF u = c.user THEN c.pin ELSE cards[u]]

\* A mutant: the account stays although its card file could not be created.
AfterNoRollback(c) == WithNewAccount(c)

AfterRollback(c) == Table!hash_table_del(WithNewAccount(c), c.user)

CreateUserWithoutCard(c) ==
    /\ c.cmd = "create-user" /\ MayCreate(c)
    /\ accounts' = AfterRollback(c)
    /\ UNCHANGED cards

\* A mutant: the sum is not compared with INT_MAX and wraps around.
MayDepositAnything(c) == c.amt <= INT_MAX /\ Account(c.user) # NULL

MayDeposit(c) ==
    /\ c.amt <= INT_MAX
    /\ Account(c.user) # NULL
    /\ c.amt <= INT_MAX - Account(c.user).balance

Deposit(c) ==
    /\ c.cmd = "deposit" /\ MayDeposit(c)
    /\ accounts' = WithBalance(c.user, Account(c.user).balance + c.amt)
    /\ UNCHANGED cards

\* Everything else prints a line: a refusal, or the balance.
JustPrint(c) ==
    /\ \/ c.cmd = "create-user" /\ ~MayCreate(c)
       \/ c.cmd = "deposit" /\ ~MayDeposit(c)
       \/ c.cmd = "balance"
    /\ UNCHANGED <<accounts, cards>>

bank_process_local_command(c) ==
    CreateUser(c) \/ CreateUserWithoutCard(c) \/ Deposit(c) \/ JustPrint(c)

LocalLine ==
    /\ ~eof
    /\ \E c \in LocalCommand : bank_process_local_command(c) /\ sendline' = c
    /\ UNCHANGED eof

EndOfInput == ~eof /\ eof' = TRUE /\ UNCHANGED <<accounts, cards, sendline>>

\* At the end of stdin select still reports it ready, fgets fails without
\* being asked, and the line of the last success is processed once more.
ReplayLine ==
    /\ eof /\ sendline # NULL
    /\ bank_process_local_command(sendline)
    /\ UNCHANGED <<sendline, eof>>

----------------------------------------------------------------------------
(* bank_process_remote_command                                              *)

Reply == [text : {"", "Usage", "No such user", "Not authorized", "Authorized",
                  "Insufficient funds", "dispensed", "balance", "User logged out"},
          amt  : Nat]

Say(text) == [text |-> text, amt |-> 0]

\* The digits of the PIN are compared only when there are four of them; with
\* any other number the response is still the empty one.
PinReply(q) ==
    IF q.digits # 4 THEN Say("")
    ELSE IF q.pin = Account(q.user).pin THEN Say("Authorized")
    ELSE Say("Not authorized")

\* A mutant: the amount is not compared with the balance.
MayOverdraw(q) == q.amt <= INT_MAX

MayWithdraw(q) == q.amt <= INT_MAX /\ q.amt <= Account(q.user).balance

WithdrawReply(q) ==
    IF MayWithdraw(q) THEN [text |-> "dispensed", amt |-> q.amt]
    ELSE IF q.amt > INT_MAX THEN Say("Usage")
    ELSE Say("Insufficient funds")

ExpectedBlocks(q) == IF q.cmd \in {"begin-session", "withdraw"} THEN 3 ELSE 2

Response(q) ==
    IF q.blocks # ExpectedBlocks(q) THEN Say("Usage")
    ELSE IF q.cmd = "end-session" THEN Say("User logged out")
    ELSE IF Account(q.user) = NULL THEN Say("No such user")
    ELSE CASE q.cmd = "begin-session" -> PinReply(q)
           [] q.cmd = "withdraw"      -> WithdrawReply(q)
           [] q.cmd = "balance"       -> [text |-> "balance", amt |-> Account(q.user).balance]

\* A mutant: a response that was left empty is not sent.
RepliesUnlessEmpty(q) == IF Response(q).text = "" THEN <<>> ELSE <<Response(q)>>

\* A mutant: begin-session falls through to a second bank_send.
RepliesTwice(q) ==
    IF q.cmd = "begin-session" THEN <<Response(q), Response(q)>> ELSE <<Response(q)>>

\* What is sent back: begin-session sends from inside the branch of a
\* well-formed request, the other commands send whatever they made of theirs.
Replies(q) ==
    IF q.cmd = "begin-session" /\ q.blocks # 3 THEN <<>> ELSE <<Response(q)>>

\* A mutant: the whole balance is paid out and not taken off.
DebitBelowBalance(q) ==
    IF q.cmd = "withdraw" /\ Response(q).text = "dispensed" /\ q.amt < Account(q.user).balance
    THEN q.amt ELSE 0

Debit(q) ==
    IF q.cmd = "withdraw" /\ Response(q).text = "dispensed" THEN q.amt ELSE 0

bank_process_remote_command(q) ==
    /\ accounts' = IF Debit(q) = 0
                   THEN accounts
                   ELSE WithBalance(q.user, Account(q.user).balance - Debit(q))
    /\ UNCHANGED <<cards, sendline, eof>>

\* The process is killed and started again: the accounts were in memory only.
BankRestart ==
    /\ accounts' = Table!hash_table_create
    /\ sendline' = NULL /\ eof' = FALSE
    /\ UNCHANGED cards

\* The requests the bank can be sent: whole, or cut by the ATM's buffers.
RemoteRequest ==
    [cmd : {"begin-session"}, user : User \union {NULL}, blocks : {2, 3},
     pin : Pin, digits : 0 .. 4]
      \union [cmd : {"withdraw"}, user : User \union {NULL}, blocks : {2, 3}, amt : Amount]
      \union [cmd : {"balance", "end-session"}, user : User \union {NULL}, blocks : {2}]

RemoteLine == ~eof /\ \E q \in RemoteRequest : bank_process_remote_command(q)

BankNext == LocalLine \/ RemoteLine \/ EndOfInput \/ ReplayLine \/ BankRestart

\* The bank on its own, asked anything at any time.
BankSpec == BankInit /\ [][BankNext]_bankVars

----------------------------------------------------------------------------

\* The accounts that can be looked up, as the book of Ledger.
Book == [u \in Holders |-> Account(u)]

L == INSTANCE Ledger WITH book <- Book

\* The bank's table, its order of creating and rolling back an account, and
\* its checks before a deposit or a withdrawal add up to a book that only ever
\* opens accounts and moves balances within 0 .. INT_MAX.
KeepsTheLedger == L!Spec

\* An account that can be found has a card, with the PIN it was created with:
\* creation adds the account before it tries to write the card.
AccountsHaveTheirCards ==
    \A u \in Holders : u \in DOMAIN cards /\ cards[u] = Account(u).pin

\* bank.md, deposit: "the command will add $<amt> to the account": a balance
\* goes up only by a line that the operator typed, and typing has to come first.
CreditsWhatWasTyped ==
    [][\A u \in Holders : u \in Holders' /\ Account(u)'.balance > Account(u).balance => ~eof]_bankVars

=============================================================================
