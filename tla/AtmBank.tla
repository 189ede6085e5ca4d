------------------------------- MODULE AtmBank -------------------------------
(* The ATM and the bank, joined by the router of router/router-main.c and   *)
(* the UDP sockets between the three processes.  A socket is a queue; a     *)
(* datagram may be lost from any of them (a full buffer, or a process that  *)
(* is not running when it arrives).  Nothing is retransmitted and atm_recv  *)
(* has no timeout.                                                          *)
EXTENDS Bank, ATM, SequencesExt

VARIABLES toRouter, toBank, toATM,   \* datagrams waiting in the three sockets
          orphans,                   \* history: commands the ATM died waiting for
          debited                    \* history: the sum of all debits

net == <<toRouter, toBank, toATM>>

vars == <<bankVars, atmVars, net, orphans, debited>>

\* src is the port a datagram comes from, of the command it was sent for (a
\* history field: nothing in the datagram tells).
Datagram(src, of, body) == [src |-> src, of |-> of, body |-> body]

InFlight == Range(toRouter) \union Range(toBank) \union Range(toATM)

Init ==
    /\ BankInit /\ ATMInit
    /\ toRouter = <<>> /\ toBank = <<>> /\ toATM = <<>>
    /\ orphans = 0 /\ debited = 0

----------------------------------------------------------------------------

\* The commands that talk to the bank, up to their atm_send.
Sends ==
    /\ \/ \E p \in Pin : EnterPin(p)
       \/ \E a \in Amount : Withdraw(a)
       \/ Balance
       \/ EndSession
    /\ toRouter' = Append(toRouter, Datagram("atm", command', Request(command')))
    /\ UNCHANGED <<bankVars, toBank, toATM, orphans, debited>>

AtThePinPrompt ==
    /\ RefusePin \/ \E u \in User : BeginSession(u, cards)
    /\ UNCHANGED <<bankVars, net, orphans, debited>>

ATMReceives ==
    /\ toATM # <<>>
    /\ TakeReply(Head(toATM).body)
    /\ toATM' = Tail(toATM)
    /\ UNCHANGED <<bankVars, toRouter, toBank, orphans, debited>>

\* One datagram, to the other side than the one its port names.
Route ==
    /\ toRouter # <<>>
    /\ toRouter' = Tail(toRouter)
    /\ IF Head(toRouter).src = "atm"
       THEN toBank' = Append(toBank, Head(toRouter)) /\ UNCHANGED toATM
       ELSE toATM' = Append(toATM, Head(toRouter)) /\ UNCHANGED toBank
    /\ UNCHANGED <<bankVars, atmVars, orphans, debited>>

\* The socket is looked at only when stdin has nothing; at the end of its
\* input it always has.
BankReceives ==
    /\ ~eof /\ toBank # <<>>
    /\ LET d == Head(toBank)
           replies == Replies(d.body)
       IN  /\ bank_process_remote_command(d.body)
           /\ toRouter' = toRouter \o
                [i \in DOMAIN replies |-> Datagram("bank", d.of, replies[i])]
           /\ debited' = debited + Debit(d.body)
    /\ toBank' = Tail(toBank)
    /\ UNCHANGED <<atmVars, toATM, orphans>>

BankLocally ==
    /\ LocalLine \/ ReplayLine
    /\ UNCHANGED <<atmVars, net, orphans, debited>>

BankInputEnds == EndOfInput /\ UNCHANGED <<atmVars, net, orphans, debited>>

Shorter(queue) == {RemoveAt(queue, i) : i \in DOMAIN queue}

Lose ==
    /\ \/ toRouter' \in Shorter(toRouter) /\ UNCHANGED <<toBank, toATM>>
       \/ toBank' \in Shorter(toBank) /\ UNCHANGED <<toRouter, toATM>>
       \/ toATM' \in Shorter(toATM) /\ UNCHANGED <<toRouter, toBank>>
    /\ UNCHANGED <<bankVars, atmVars, orphans, debited>>

\* A process that dies takes what waits in its socket with it.
ATMDies ==
    /\ ATMRestart
    /\ toATM' = <<>>
    /\ orphans' = IF pc = "recv" THEN orphans + 1 ELSE orphans
    /\ UNCHANGED <<bankVars, toRouter, toBank, debited>>

BankDies ==
    /\ BankRestart
    /\ toBank' = <<>>
    /\ UNCHANGED <<atmVars, toRouter, toATM, orphans, debited>>

Next ==
    \/ AtThePinPrompt \/ Sends \/ ATMReceives
    \/ Route
    \/ BankReceives \/ BankLocally
    \/ BankInputEnds \/ Lose \/ ATMDies \/ BankDies

Spec == Init /\ [][Next]_vars

----------------------------------------------------------------------------

\* The states of the three processes and of the sockets between them.
TypeOK ==
    /\ \A u \in Holders : Account(u).balance \in 0 .. INT_MAX
    /\ DOMAIN cards \subseteq User /\ Range(cards) \subseteq Pin
    /\ sendline \in LocalCommand \union {NULL} /\ eof \in BOOLEAN
    /\ pc \in {"ready", "pin", "recv"} /\ (command = NULL <=> pc = "ready")
    /\ active = (user_logged_in # NULL)
    /\ \A d \in InFlight : d.src = "bank" => d.body \in Reply
    /\ orphans \in Nat /\ debited \in Nat /\ dispensed \in Nat

\* No more datagrams are on the way than the command the ATM waits for and
\* those it died waiting for: the bank answers a request at most once and the
\* ATM asks nothing while it waits.
OneAnswerPerCommand ==
    Len(toRouter) + Len(toBank) + Len(toATM)
        <= orphans + (IF pc = "recv" THEN 1 ELSE 0)

\* As long as the ATM has never died in the middle of a command, whatever is
\* on the way belongs to the command it waits for, so the untagged datagram
\* that atm_recv takes is the answer to it, losses and bank restarts or not.
AnswersBelongToTheCommand ==
    orphans = 0 => \A d \in InFlight : d.of = command

\* The cash printed as dispensed, with what is still on its way, was debited
\* before: no loss, stale answer or restart of either side pays out twice.
CashWasDebited ==
    LET Amt(d) == IF d.src = "bank" /\ d.body.text = "dispensed" THEN d.body.amt ELSE 0
        Sum(queue) == SumFunction([i \in DOMAIN queue |-> Amt(queue[i])])
    IN  dispensed + Sum(toRouter) + Sum(toATM) <= debited

\* atm.md, withdraw: "$<amt> dispensed" and "those funds should be subtracted
\* from the logged-in user's balance".  The only way down for a balance is a
\* withdrawal typed in a session of that user, by exactly the amount typed.
DebitsWhatWasTyped ==
    [][\A u \in Holders : u \in Holders' /\ Account(u)'.balance < Account(u).balance
         => /\ toBank # <<>>
            /\ Head(toBank).of.cmd = "withdraw" /\ Head(toBank).of.user = u
            /\ Head(toBank).of.amt = Account(u).balance - Account(u)'.balance]_vars

=============================================================================
