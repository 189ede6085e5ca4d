--------------------------------- MODULE ATM ---------------------------------
(* The ATM process: atm/atm.c and the loop of atm/atm-main.c.  Its requests *)
(* are printed into buffers of MessageSize bytes, so that a long name pushes *)
(* out the end of the message; a request is described by what arrives.      *)
EXTENDS Customers

CONSTANTS NameLength(_),   \* the number of letters of a name
          MessageSize      \* the size of message, withdraw_message, ...: 256

\* The commands that the ATM sends to the bank; begin-session has no PIN yet
\* while it is asked for.
Command ==
    [cmd : {"begin-session"}, user : User, pin : Pin \union {NULL}]
      \union [cmd : {"withdraw"}, user : User, amt : Amount]
      \union [cmd : {"balance", "end-session"}, user : User]

ASSUME ATMAssumption == NULL \notin Command

VARIABLES pc,               \* "ready": at the prompt, "pin": at PIN?, "recv": in atm_recv
          active,           \* atm->active
          user_logged_in,   \* atm->user_logged_in, NULL when empty
          command,          \* the command being executed, NULL at the prompt
          dispensed         \* history: the sum of the amounts printed as dispensed

atmVars == <<pc, active, user_logged_in, command, dispensed>>

ATMInit ==
    /\ pc = "ready"
    /\ active = FALSE
    /\ user_logged_in = NULL
    /\ command = NULL
    /\ dispensed = 0

----------------------------------------------------------------------------
(* The requests, as snprintf leaves them                                    *)

\* The number a keeps when only its first room digits are left (room > 0):
\* they are written from the first on, as long as there is room.
FirstDigits(a, room) ==
    LET Printed[n \in 0 .. a] ==
            IF n < 10 THEN [number |-> n, room |-> room - 1]
            ELSE LET front == Printed[n \div 10]
                 IN  IF front.room > 0 THEN [number |-> n, room |-> front.room - 1] ELSE front
    IN  Printed[a].number

\* A mutant: one byte of the buffer is forgotten.
RoomAfterOneLess(prefix, u) == MessageSize - 2 - prefix - NameLength(u)

\* The bytes left, before the terminating zero, after prefix and the name.
RoomAfter(prefix, u) == MessageSize - 1 - prefix - NameLength(u)

\* Lengths of the constant parts of the formats, before the name.
Prefix(cmd) == CASE cmd = "begin-session" -> 14   \* "begin-session "
                 [] cmd = "withdraw"      -> 9    \* "withdraw "
                 [] cmd = "balance"       -> 8    \* "balance "
                 [] cmd = "end-session"   -> 12   \* "end-session "

\* A name that lost its end is nobody's.
NameSent(cmd, u) == IF RoomAfter(Prefix(cmd), u) >= 0 THEN u ELSE NULL

\* The third block follows a space.
RoomForArgument(cmd, u) == RoomAfter(Prefix(cmd), u) - 1

BeginRequest(u, p) ==
    LET room == RoomForArgument("begin-session", u)
    IN  [cmd    |-> "begin-session",
         user   |-> NameSent("begin-session", u),
         blocks |-> IF room > 0 THEN 3 ELSE 2,
         pin    |-> p,
         digits |-> IF room >= 4 THEN 4 ELSE IF room > 0 THEN room ELSE 0]

WithdrawRequest(u, a) ==
    LET room == RoomForArgument("withdraw", u)
    IN  [cmd    |-> "withdraw",
         user   |-> NameSent("withdraw", u),
         blocks |-> IF room > 0 THEN 3 ELSE 2,
         amt    |-> IF room > 0 THEN FirstDigits(a, room) ELSE 0]

PlainRequest(cmd, u) == [cmd |-> cmd, user |-> NameSent(cmd, u), blocks |-> 2]

Request(c) ==
    CASE c.cmd = "begin-session" -> BeginRequest(c.user, c.pin)
      [] c.cmd = "withdraw"      -> WithdrawRequest(c.user, c.amt)
      [] OTHER                   -> PlainRequest(c.cmd, c.user)

----------------------------------------------------------------------------
(* atm_process_command                                                      *)

Execute(c) ==
    /\ command' = c
    /\ pc' = "recv"
    /\ UNCHANGED <<active, user_logged_in, dispensed>>

\* begin-session up to the prompt for the PIN; cards is the directory that
\* holds the card files.
BeginSession(u, cards) ==
    /\ pc = "ready" /\ ~active
    /\ u \in DOMAIN cards
    /\ pc' = "pin"
    /\ command' = [cmd |-> "begin-session", user |-> u, pin |-> NULL]
    /\ UNCHANGED <<active, user_logged_in, dispensed>>

\* Anything but four digits, or the end of the input, ends the command.
RefusePin ==
    /\ pc = "pin"
    /\ pc' = "ready" /\ command' = NULL
    /\ UNCHANGED <<active, user_logged_in, dispensed>>

EnterPin(p) == pc = "pin" /\ Execute([command EXCEPT !.pin = p])

Withdraw(a) ==
    /\ pc = "ready" /\ active
    /\ Execute([cmd |-> "withdraw", user |-> user_logged_in, amt |-> a])

Balance ==
    pc = "ready" /\ active /\ Execute([cmd |-> "balance", user |-> user_logged_in])

EndSession ==
    pc = "ready" /\ active /\ Execute([cmd |-> "end-session", user |-> user_logged_in])

Opens(r) == command.cmd = "begin-session" /\ r.text = "Authorized"

\* The session is over whatever the answer to end-session says.
Closes(r) == command.cmd = "end-session"

\* Whatever the command, the datagram that arrives is taken for its answer.
TakeReply(r) ==
    /\ pc = "recv"
    /\ active' = (Opens(r) \/ (active /\ ~Closes(r)))
    /\ user_logged_in' = IF Opens(r) THEN command.user
                         ELSE IF Closes(r) THEN NULL ELSE user_logged_in
    /\ dispensed' = IF r.text = "dispensed" THEN dispensed + r.amt ELSE dispensed
    /\ pc' = "ready" /\ command' = NULL

\* The process ends, also while it waits, and is started again.
ATMRestart ==
    /\ pc' = "ready" /\ active' = FALSE /\ user_logged_in' = NULL /\ command' = NULL
    /\ UNCHANGED dispensed

=============================================================================
