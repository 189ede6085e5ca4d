--------------------------- MODULE AtmBankProofs ---------------------------
(***************************************************************************)
(* Proofs about AtmBank: which datagrams can be on the way between the ATM *)
(* and the bank, for any users, amounts, name lengths and buffer size, any  *)
(* loss of datagrams and any restarts of the two processes.                *)
(***************************************************************************)
EXTENDS AtmBank, BankProofs, SumLemmas

-----------------------------------------------------------------------------
(* Lemmas about the sockets.                                               *)

\* Some sequence, of whatever elements it has.
IsQueue(queue) == queue \in Seq(Range(queue))

LEMMA QueueOf ==
  ASSUME NEW S, NEW queue \in Seq(S)
  PROVE  IsQueue(queue) /\ Range(queue) \subseteq S
  BY DEF IsQueue, Range

LEMMA EmptyQueue == IsQueue(<<>>) /\ Len(<<>>) = 0 /\ Range(<<>>) = {}
  BY DEF IsQueue, Range

LEMMA LengthOfQueue ==
  ASSUME NEW queue, IsQueue(queue)
  PROVE  Len(queue) \in Nat /\ (Len(queue) = 0 <=> Range(queue) = {})
  BY DEF IsQueue, Range

LEMMA AppendToQueue ==
  ASSUME NEW queue, IsQueue(queue), NEW d
  PROVE  /\ IsQueue(Append(queue, d))
         /\ Len(Append(queue, d)) = Len(queue) + 1
         /\ Range(Append(queue, d)) \subseteq Range(queue) \union {d}
  <1> DEFINE S == Range(queue) \union {d}
  <1>1. queue \in Seq(S)
    BY DEF IsQueue
  <1>2. Append(queue, d) \in Seq(S) /\ Len(Append(queue, d)) = Len(queue) + 1
    BY <1>1
  <1> QED BY <1>2, QueueOf

LEMMA HeadAndTailOfQueue ==
  ASSUME NEW queue, IsQueue(queue), queue # <<>>
  PROVE  /\ IsQueue(Tail(queue))
         /\ Len(Tail(queue)) = Len(queue) - 1
         /\ Range(Tail(queue)) \subseteq Range(queue)
         /\ Head(queue) \in Range(queue)
  <1>1. /\ Tail(queue) \in Seq(Range(queue))
        /\ Len(Tail(queue)) = Len(queue) - 1
        /\ Head(queue) \in Range(queue)
    BY DEF IsQueue
  <1> QED BY <1>1, QueueOf

LEMMA JoinQueues ==
  ASSUME NEW queue, IsQueue(queue), NEW S, NEW more \in Seq(S)
  PROVE  /\ IsQueue(queue \o more)
         /\ Len(queue \o more) = Len(queue) + Len(more)
         /\ Range(queue \o more) \subseteq Range(queue) \union S
  <1> DEFINE T == Range(queue) \union S
  <1>1. queue \in Seq(T) /\ more \in Seq(T)
    BY DEF IsQueue
  <1>2. queue \o more \in Seq(T) /\ Len(queue \o more) = Len(queue) + Len(more)
    BY <1>1
  <1> QED BY <1>2, QueueOf

\* What is left when one datagram was lost.
LEMMA ShorterQueue ==
  ASSUME NEW queue, IsQueue(queue), NEW rest \in Shorter(queue)
  PROVE  IsQueue(rest) /\ Len(rest) = Len(queue) - 1 /\ Range(rest) \subseteq Range(queue)
  <1>1. PICK i \in DOMAIN queue : rest = RemoveAt(queue, i)
    BY DEF Shorter
  <1>2. i \in 1 .. Len(queue) /\ Len(queue) \in Nat
    BY DEF IsQueue
  <1>3. /\ SubSeq(queue, 1, i - 1) \in Seq(Range(queue))
        /\ Len(SubSeq(queue, 1, i - 1)) = i - 1
    BY <1>2 DEF IsQueue
  <1>4. /\ SubSeq(queue, i + 1, Len(queue)) \in Seq(Range(queue))
        /\ Len(SubSeq(queue, i + 1, Len(queue))) = Len(queue) - i
    BY <1>2 DEF IsQueue
  <1>5. rest \in Seq(Range(queue)) /\ Len(rest) = (i - 1) + (Len(queue) - i)
    BY <1>1, <1>3, <1>4 DEF RemoveAt
  <1> QED BY <1>2, <1>5, QueueOf

\* bank_process_remote_command sends at most one datagram.
LEMMA AtMostOneReply ==
  ASSUME NEW q, NEW of
  PROVE  LET sent == [i \in DOMAIN Replies(q) |-> Datagram("bank", of, Replies(q)[i])]
         IN  /\ sent \in Seq({Datagram("bank", of, Response(q))})
             /\ Len(sent) \in {0, 1}
  <1> DEFINE sent == [i \in DOMAIN Replies(q) |-> Datagram("bank", of, Replies(q)[i])]
  <1>1. CASE Replies(q) = <<>>
    <2>1. sent = <<>>
      BY <1>1
    <2> QED BY <2>1
  <1>2. CASE Replies(q) = <<Response(q)>>
    <2>1. sent = <<Datagram("bank", of, Response(q))>>
      BY <1>2
    <2> QED BY <2>1
  <1> QED BY <1>1, <1>2 DEF Replies

-----------------------------------------------------------------------------
(* Which datagrams can be on the way.                                      *)

Waiting == Len(toRouter) + Len(toBank) + Len(toATM)

Allowed == orphans + (IF pc = "recv" THEN 1 ELSE 0)

Sockets == IsQueue(toRouter) /\ IsQueue(toBank) /\ IsQueue(toATM) /\ orphans \in Nat

AnswersInv == Sockets /\ OneAnswerPerCommand /\ AnswersBelongToTheCommand

\* With nobody waiting and no command orphaned, nothing is on the way; with
\* the one datagram of a command in one socket, the others are empty.
LEMMA NothingInFlight ==
  ASSUME Sockets, Waiting <= 0
  PROVE  InFlight = {}
  <1>1. Len(toRouter) = 0 /\ Len(toBank) = 0 /\ Len(toATM) = 0
    BY LengthOfQueue DEF Sockets, Waiting
  <1> QED BY <1>1, LengthOfQueue DEF Sockets, InFlight

\* A step that adds nothing to what is on the way but datagrams of the same
\* commands, and leaves the ATM and the orphans alone, keeps the invariant.
LEMMA StepOfTheNet ==
  ASSUME AnswersInv, Sockets', Waiting' <= Waiting, UNCHANGED <<pc, command, orphans>>,
         \A d \in InFlight' : \E e \in InFlight : d.of = e.of
  PROVE  AnswersInv'
  <1>1. Waiting \in Int /\ Waiting' \in Int /\ Allowed \in Int
    BY LengthOfQueue DEF AnswersInv, Sockets, Waiting, Allowed
  <1>2. OneAnswerPerCommand'
    BY <1>1 DEF AnswersInv, OneAnswerPerCommand, Waiting, Allowed
  <1>3. AnswersBelongToTheCommand'
    BY DEF AnswersInv, AnswersBelongToTheCommand
  <1> QED BY <1>2, <1>3 DEF AnswersInv

\* A step after which the ATM does not wait: whatever is still on the way is
\* then that of an orphan.
LEMMA StepToThePrompt ==
  ASSUME Sockets', Waiting' <= orphans', pc' # "recv"
  PROVE  AnswersInv'
  <1>1. OneAnswerPerCommand'
    BY DEF OneAnswerPerCommand, Waiting, Sockets
  <1>2. AnswersBelongToTheCommand'
    <2> SUFFICES ASSUME orphans' = 0 PROVE InFlight' = {}
      BY DEF AnswersBelongToTheCommand
    <2>1. (Waiting <= 0)'
      OBVIOUS
    <2>2. \A queue : IsQueue(queue) => Len(queue) \in Nat /\ (Len(queue) = 0 <=> Range(queue) = {})
      BY LengthOfQueue
    <2>3. Len(toRouter)' = 0 /\ Len(toBank)' = 0 /\ Len(toATM)' = 0
      BY <2>1, <2>2 DEF Sockets, Waiting
    <2> QED BY <2>2, <2>3 DEF Sockets, InFlight
  <1> QED BY <1>1, <1>2 DEF AnswersInv

LEMMA InitAnswers == Init => AnswersInv
  <1> SUFFICES ASSUME Init PROVE AnswersInv
    OBVIOUS
  <1>1. Sockets
    BY EmptyQueue DEF Init, Sockets
  <1>2. Waiting = 0 /\ orphans = 0
    BY EmptyQueue DEF Init, Waiting
  <1>3. OneAnswerPerCommand
    BY <1>2 DEF OneAnswerPerCommand, Waiting
  <1>4. AnswersBelongToTheCommand
    BY EmptyQueue DEF Init, InFlight, AnswersBelongToTheCommand
  <1> QED BY <1>1, <1>3, <1>4 DEF AnswersInv

\* The ATM asks only when it does not wait yet.
LEMMA StepSends == ASSUME AnswersInv, Sends PROVE AnswersInv'
  <1> DEFINE d == Datagram("atm", command', Request(command'))
  <1>1. pc # "recv" /\ pc' = "recv"
    BY DEF Sends, EnterPin, Withdraw, Balance, EndSession, Execute
  <1>2. toRouter' = Append(toRouter, d) /\ UNCHANGED <<toBank, toATM, orphans>>
    BY DEF Sends
  <1>3. Sockets' /\ Len(toRouter)' = Len(toRouter) + 1
        /\ Range(toRouter') \subseteq Range(toRouter) \union {d}
    BY <1>2, AppendToQueue DEF AnswersInv, Sockets
  <1>4. Len(toRouter) \in Nat /\ Len(toBank) \in Nat /\ Len(toATM) \in Nat
    BY LengthOfQueue DEF AnswersInv, Sockets
  <1>5. OneAnswerPerCommand'
    BY <1>1, <1>2, <1>3, <1>4 DEF AnswersInv, Sockets, OneAnswerPerCommand
  <1>6. AnswersBelongToTheCommand'
    <2> SUFFICES ASSUME orphans' = 0 PROVE \A e \in InFlight' : e.of = command'
      BY DEF AnswersBelongToTheCommand
    <2>1. InFlight = {}
      BY <1>1, <1>2, NothingInFlight DEF AnswersInv, OneAnswerPerCommand, Waiting
    <2>2. InFlight' \subseteq {d}
      BY <1>2, <1>3, <2>1 DEF InFlight
    <2> QED BY <2>2 DEF Datagram
  <1> QED BY <1>3, <1>5, <1>6 DEF AnswersInv

\* Before the question for the PIN nothing has been sent.
LEMMA StepPrompt == ASSUME AnswersInv, AtThePinPrompt PROVE AnswersInv'
  <1>1. pc # "recv" /\ pc' # "recv" /\ UNCHANGED <<net, orphans>>
    BY DEF AtThePinPrompt, RefusePin, BeginSession
  <1>2. Sockets' /\ Waiting' <= orphans'
    BY <1>1 DEF AnswersInv, Sockets, net, Waiting, OneAnswerPerCommand
  <1> QED BY <1>1, <1>2, StepToThePrompt

\* atm_recv takes one datagram and the command is over.
LEMMA StepReceives == ASSUME AnswersInv, ATMReceives PROVE AnswersInv'
  <1>1. pc = "recv" /\ pc' # "recv" /\ toATM # <<>>
    BY DEF ATMReceives, TakeReply
  <1>2. toATM' = Tail(toATM) /\ UNCHANGED <<toRouter, toBank, orphans>>
    BY DEF ATMReceives
  <1>3. Sockets' /\ Len(toATM)' = Len(toATM) - 1
    BY <1>1, <1>2, HeadAndTailOfQueue DEF AnswersInv, Sockets
  <1>4. Len(toRouter) \in Nat /\ Len(toBank) \in Nat /\ Len(toATM) \in Nat
    BY LengthOfQueue DEF AnswersInv, Sockets
  <1>5. Waiting' <= orphans'
    BY <1>1, <1>2, <1>3, <1>4 DEF AnswersInv, Sockets, OneAnswerPerCommand, Waiting
  <1> QED BY <1>1, <1>3, <1>5, StepToThePrompt

\* The router puts a datagram into another socket.
LEMMA StepRoute == ASSUME AnswersInv, Route PROVE AnswersInv'
  <1> DEFINE d == Head(toRouter)
  <1>1. /\ IsQueue(Tail(toRouter)) /\ Len(Tail(toRouter)) = Len(toRouter) - 1
        /\ Range(Tail(toRouter)) \subseteq Range(toRouter) /\ d \in Range(toRouter)
    BY HeadAndTailOfQueue DEF AnswersInv, Sockets, Route
  <1>2. \A queue \in {toBank, toATM} :
          /\ IsQueue(Append(queue, d)) /\ Len(Append(queue, d)) = Len(queue) + 1
          /\ Range(Append(queue, d)) \subseteq Range(queue) \union {d}
    BY AppendToQueue DEF AnswersInv, Sockets
  <1>3. Len(toRouter) \in Nat /\ Len(toBank) \in Nat /\ Len(toATM) \in Nat
    BY LengthOfQueue DEF AnswersInv, Sockets
  <1>4. toRouter' = Tail(toRouter)
        /\ \/ toBank' = Append(toBank, d) /\ UNCHANGED toATM
           \/ toATM' = Append(toATM, d) /\ UNCHANGED toBank
    BY DEF Route
  <1>5. UNCHANGED <<pc, command, orphans>>
    BY DEF Route, atmVars
  <1>6. Sockets' /\ Waiting' <= Waiting
    <2>1. Sockets'
      BY <1>1, <1>2, <1>4, <1>5 DEF AnswersInv, Sockets
    <2>2. /\ Len(toRouter)' = Len(toRouter) - 1
          /\ \/ Len(toBank)' = Len(toBank) + 1 /\ Len(toATM)' = Len(toATM)
             \/ Len(toATM)' = Len(toATM) + 1 /\ Len(toBank)' = Len(toBank)
      BY <1>1, <1>2, <1>4
    <2> QED BY <1>3, <2>1, <2>2 DEF Waiting
  <1>7. InFlight' \subseteq InFlight
    BY <1>1, <1>2, <1>4 DEF InFlight
  <1> QED BY <1>5, <1>6, <1>7, StepOfTheNet

\* The bank takes a request and puts at most one answer to it in its place.
LEMMA StepBankReceives == ASSUME AnswersInv, BankReceives PROVE AnswersInv'
  <1> DEFINE d == Head(toBank)
             sent == [i \in DOMAIN Replies(d.body) |->
                        Datagram("bank", d.of, Replies(d.body)[i])]
             answer == Datagram("bank", d.of, Response(d.body))
  <1>1. /\ IsQueue(Tail(toBank)) /\ Len(Tail(toBank)) = Len(toBank) - 1
        /\ Range(Tail(toBank)) \subseteq Range(toBank) /\ d \in Range(toBank)
    BY HeadAndTailOfQueue DEF AnswersInv, Sockets, BankReceives
  <1>2. sent \in Seq({answer}) /\ Len(sent) \in {0, 1}
    BY AtMostOneReply
  <1>3. toRouter' = toRouter \o sent /\ toBank' = Tail(toBank) /\ UNCHANGED toATM
    BY DEF BankReceives
  <1>4. UNCHANGED <<pc, command, orphans>>
    BY DEF BankReceives, atmVars
  <1> HIDE DEF sent
  <1>5. /\ IsQueue(toRouter \o sent) /\ Len(toRouter \o sent) = Len(toRouter) + Len(sent)
        /\ Range(toRouter \o sent) \subseteq Range(toRouter) \union {answer}
    BY <1>2, JoinQueues DEF AnswersInv, Sockets
  <1>6. Len(toRouter) \in Nat /\ Len(toBank) \in Nat /\ Len(toATM) \in Nat
    BY LengthOfQueue DEF AnswersInv, Sockets
  <1>7. Sockets' /\ Waiting' <= Waiting
    <2>1. Sockets'
      BY <1>1, <1>3, <1>4, <1>5 DEF AnswersInv, Sockets
    <2>2. /\ Len(toRouter)' <= Len(toRouter) + 1 /\ Len(toBank)' = Len(toBank) - 1
          /\ Len(toATM)' = Len(toATM) /\ Len(toRouter)' \in Nat
      BY <1>1, <1>2, <1>3, <1>5, <1>6
    <2> QED BY <1>6, <2>1, <2>2 DEF Waiting
  <1>8. InFlight' \subseteq InFlight \union {answer}
    BY <1>1, <1>3, <1>5 DEF InFlight
  <1>9. \A e \in InFlight' : \E f \in InFlight : e.of = f.of
    BY <1>1, <1>8 DEF InFlight, Datagram
  <1> QED BY <1>4, <1>7, <1>9, StepOfTheNet

\* A lost datagram, and what dies with a socket, only make room.
LEMMA StepFaults == ASSUME AnswersInv, Lose \/ ATMDies \/ BankDies PROVE AnswersInv'
  <1>1. Len(toRouter) \in Nat /\ Len(toBank) \in Nat /\ Len(toATM) \in Nat
    BY LengthOfQueue DEF AnswersInv, Sockets
  <1>2. CASE Lose
    <2>1. \A queue \in {toRouter, toBank, toATM} : \A rest \in Shorter(queue) :
            IsQueue(rest) /\ Len(rest) = Len(queue) - 1 /\ Range(rest) \subseteq Range(queue)
      BY ShorterQueue DEF AnswersInv, Sockets
    <2>2. UNCHANGED <<pc, command, orphans>>
      BY <1>2 DEF Lose, atmVars
    <2>3. Sockets' /\ Waiting' <= Waiting /\ InFlight' \subseteq InFlight
      BY <1>1, <1>2, <2>1, <2>2 DEF Lose, AnswersInv, Sockets, Waiting, InFlight
    <2> QED BY <2>2, <2>3, StepOfTheNet
  <1>3. CASE ATMDies
    <2>1. pc' # "recv" /\ toATM' = <<>> /\ UNCHANGED <<toRouter, toBank>>
          /\ orphans' = IF pc = "recv" THEN orphans + 1 ELSE orphans
      BY <1>3 DEF ATMDies, ATMRestart
    <2>2. Sockets' /\ Len(toATM)' = 0
      BY <2>1, EmptyQueue DEF AnswersInv, Sockets
    <2>3. Waiting' <= orphans'
      BY <1>1, <2>1, <2>2 DEF AnswersInv, Sockets, OneAnswerPerCommand, Waiting
    <2> QED BY <2>1, <2>2, <2>3, StepToThePrompt
  <1>4. CASE BankDies
    <2>1. toBank' = <<>> /\ UNCHANGED <<pc, command, orphans, toRouter, toATM>>
      BY <1>4 DEF BankDies, atmVars
    <2>2. Sockets' /\ Waiting' <= Waiting /\ InFlight' \subseteq InFlight
      BY <1>1, <2>1, EmptyQueue DEF AnswersInv, Sockets, Waiting, InFlight
    <2> QED BY <2>1, <2>2, StepOfTheNet
  <1> QED BY <1>2, <1>3, <1>4

-----------------------------------------------------------------------------

\* The two claims about what is on the way are inductive together.
LEMMA StepAnswers == ASSUME AnswersInv, [Next]_vars PROVE AnswersInv'
  <1>1. CASE UNCHANGED <<atmVars, net, orphans>>
    BY <1>1 DEF atmVars, net, AnswersInv, Sockets, OneAnswerPerCommand,
                AnswersBelongToTheCommand, InFlight
  <1>2. CASE UNCHANGED vars
    BY <1>1, <1>2 DEF vars
  <1>3. CASE BankLocally \/ BankInputEnds
    BY <1>1, <1>3 DEF BankLocally, BankInputEnds
  <1> QED BY <1>2, <1>3, StepSends, StepPrompt, StepReceives, StepRoute,
             StepBankReceives, StepFaults DEF Next

\* In every reachable state the sockets hold no more than they may.
THEOREM AnswersInvariance == Spec => []AnswersInv
  <1>1. AnswersInv /\ [Next]_vars => AnswersInv'
    BY StepAnswers
  <1> QED BY <1>1, InitAnswers, PTL DEF Spec

\* No more datagrams are ever on the way than commands that wait, or died
\* waiting, for an answer.
THEOREM AnswersAreCounted == Spec => []OneAnswerPerCommand
  <1>1. AnswersInv => OneAnswerPerCommand
    BY DEF AnswersInv
  <1> QED BY <1>1, AnswersInvariance, PTL

\* An ATM that never died in a command takes only answers to the command it
\* waits for, although nothing in a datagram says what it answers.
THEOREM AnswersAreNotStale == Spec => []AnswersBelongToTheCommand
  <1>1. AnswersInv => AnswersBelongToTheCommand
    BY DEF AnswersInv
  <1> QED BY <1>1, AnswersInvariance, PTL

-----------------------------------------------------------------------------
(* What snprintf leaves of an amount.                                      *)

IsPrinted(printed, a, room) ==
    printed = [n \in 0 .. a |->
                 IF n < 10 THEN [number |-> n, room |-> room - 1]
                 ELSE LET front == printed[n \div 10]
                      IN  IF front.room > 0 THEN [number |-> n, room |-> front.room - 1] ELSE front]

LEMMA PrintedExists ==
  ASSUME NEW a \in Nat, NEW room
  PROVE  \E printed : IsPrinted(printed, a, room)
  <1> DEFINE Bad == {m \in Nat : ~ \E printed : IsPrinted(printed, m, room)}
  <1> SUFFICES ASSUME Bad # {} PROVE FALSE
    OBVIOUS
  <1>1. PICK m \in Bad : \A k \in Bad : m <= k
    <2>1. Bad \in SUBSET Nat
      OBVIOUS
    <2> HIDE DEF Bad
    <2> QED BY <2>1, SmallestNumber
  <1>2. CASE m < 10
    <2> DEFINE g == [n \in 0 .. m |-> [number |-> n, room |-> room - 1]]
    <2>1. \A n \in 0 .. m : n < 10
      BY <1>1, <1>2
    <2>2. IsPrinted(g, m, room)
      BY <2>1 DEF IsPrinted
    <2> QED BY <2>2
  <1>3. CASE ~ (m < 10)
    <2>1. m \in Nat /\ m - 1 \in Nat /\ m - 1 \notin Bad
      BY <1>1, <1>3
    <2>2. PICK g : IsPrinted(g, m - 1, room)
      BY <2>1
    <2> DEFINE Step(f, n) ==
                 IF n < 10 THEN [number |-> n, room |-> room - 1]
                 ELSE LET front == f[n \div 10]
                      IN  IF front.room > 0 THEN [number |-> n, room |-> front.room - 1] ELSE front
               h == [n \in 0 .. m |-> Step(g, n)]
    <2>3. \A n \in 0 .. m - 1 : g[n] = Step(g, n)
      BY <2>2 DEF IsPrinted
    <2>4. \A n \in 0 .. m : n < 10 \/ n \div 10 \in 0 .. m - 1
      BY <2>1
    <2>5. \A n \in 0 .. m - 1 : n \in 0 .. m
      BY <2>1
    <2>6. \A n \in 0 .. m : h[n] = Step(g, n)
      BY Zenon
    <2>7. \A n \in 0 .. m : n < 10 \/ h[n \div 10] = g[n \div 10]
      <3> HIDE DEF Step, h
      <3> QED BY <2>3, <2>4, <2>5, <2>6
    <2>8. \A n \in 0 .. m : Step(g, n) = Step(h, n)
      <3> HIDE DEF h
      <3> QED BY <2>7
    <2>9. h = [n \in 0 .. m |-> Step(h, n)]
      <3> HIDE DEF Step
      <3> QED BY <2>8
    <2>10. IsPrinted(h, m, room)
      <3> HIDE DEF h
      <3> QED BY <2>9 DEF IsPrinted
    <2> QED BY <2>10
  <1> QED BY <1>2, <1>3

LEMMA FirstDigitsType ==
  ASSUME NEW a \in Nat, NEW room
  PROVE  FirstDigits(a, room) \in Nat
  <1> DEFINE printed == CHOOSE f : IsPrinted(f, a, room)
             Bad == {n \in 0 .. a : printed[n].number \notin Nat}
  <1>1. FirstDigits(a, room) = printed[a].number
    BY DEF FirstDigits, IsPrinted
  <1>2. IsPrinted(printed, a, room)
    BY PrintedExists
  <1> HIDE DEF printed
  <1>3. ASSUME Bad # {} PROVE FALSE
    <2>1. PICK n \in Bad : \A k \in Bad : n <= k
      <3>1. Bad \in SUBSET Nat
        OBVIOUS
      <3> HIDE DEF Bad
      <3> QED BY <1>3, <3>1, SmallestNumber
    <2>2. n \in 0 .. a /\ n \in Nat /\ printed[n].number \notin Nat
      OBVIOUS
    <2>3. ~ (n < 10) /\ printed[n] = printed[n \div 10]
      BY <1>2, <2>2 DEF IsPrinted
    <2>4. n \div 10 \in 0 .. a /\ n \div 10 < n
      BY <2>2, <2>3
    <2> QED BY <2>1, <2>2, <2>3, <2>4
  <1> QED BY <1>1, <1>3

\* A request of the ATM is one that the bank understands, cut or not.
LEMMA RequestType ==
  ASSUME NEW c \in Command
  PROVE  IsRequest(Request(c))
  <1>1. CASE c.cmd = "begin-session"
    <2>1. c.user \in User
      BY <1>1 DEF Command
    <2> QED BY <1>1, <2>1 DEF IsRequest, Request, BeginRequest, NameSent
  <1>2. CASE c.cmd = "withdraw"
    <2>1. c.user \in User /\ c.amt \in Nat
      BY <1>2, CustomersAssumption DEF Command
    <2>2. \A room : FirstDigits(c.amt, room) \in Nat
      BY <2>1, FirstDigitsType
    <2> HIDE DEF FirstDigits, RoomForArgument
    <2> QED BY <1>2, <2>1, <2>2 DEF IsRequest, Request, WithdrawRequest, NameSent
  <1>3. CASE c.cmd \in {"balance", "end-session"}
    <2>1. c.user \in User
      BY <1>3 DEF Command
    <2> QED BY <1>3, <2>1 DEF IsRequest, Request, PlainRequest, NameSent
  <1> QED BY <1>1, <1>2, <1>3 DEF Command

-----------------------------------------------------------------------------
(* The cash in a socket.                                                   *)

Amt(d) == IF d.src = "bank" /\ d.body.text = "dispensed" THEN d.body.amt ELSE 0

Amounts(queue) == [i \in DOMAIN queue |-> Amt(queue[i])]

Cash(queue) == SumFunction(Amounts(queue))

HasAmounts(queue) == IsQueue(queue) /\ \A d \in Range(queue) : Amt(d) \in Nat

LEMMA AmountsType ==
  ASSUME NEW queue, HasAmounts(queue)
  PROVE  /\ Len(queue) \in Nat /\ DOMAIN queue = 1 .. Len(queue)
         /\ Amounts(queue) \in [1 .. Len(queue) -> Nat]
         /\ Amounts(queue) \in [1 .. Len(queue) -> Int]
  <1>1. Len(queue) \in Nat /\ DOMAIN queue = 1 .. Len(queue)
    BY DEF HasAmounts, IsQueue
  <1>2. \A i \in DOMAIN queue : Amt(queue[i]) \in Nat
    BY DEF HasAmounts, Range
  <1> QED BY <1>1, <1>2 DEF Amounts

LEMMA CashType ==
  ASSUME NEW queue, HasAmounts(queue)
  PROVE  Cash(queue) \in Nat
  <1> DEFINE S == 1 .. Len(queue)
             f == Amounts(queue)
  <1>1. IsFiniteSet(S) /\ f \in [S -> Nat]
    BY AmountsType, FS_Interval
  <1> HIDE DEF S, f
  <1>2. SumFunction(f) \in Nat
    BY <1>1, SumOfNaturals
  <1> QED BY <1>2 DEF Cash, f

LEMMA CashOfNothing == HasAmounts(<<>>) /\ Cash(<<>>) = 0
  <1>1. Amounts(<<>>) \in [{} -> Int]
    BY DEF Amounts
  <1>2. SumFunction(Amounts(<<>>)) = 0
    <2> HIDE DEF Amounts
    <2> QED BY <1>1, SumOfNothing
  <1> QED BY <1>2, EmptyQueue DEF Cash, HasAmounts

LEMMA CashAppended ==
  ASSUME NEW queue, HasAmounts(queue), NEW d, Amt(d) \in Nat
  PROVE  HasAmounts(Append(queue, d)) /\ Cash(Append(queue, d)) = Cash(queue) + Amt(d)
  <1> DEFINE n == Len(queue)
             longer == Append(queue, d)
             f == Amounts(queue)
             g == Amounts(longer)
  <1>1. HasAmounts(longer)
    BY AppendToQueue DEF HasAmounts
  <1>2. n \in Nat /\ Len(longer) = n + 1 /\ DOMAIN queue = 1 .. n /\ DOMAIN longer = 1 .. n + 1
    BY <1>1, AmountsType, AppendToQueue DEF HasAmounts
  <1>3. longer[n + 1] = d /\ \A i \in 1 .. n : longer[i] = queue[i]
    BY <1>2 DEF HasAmounts, IsQueue
  <1>4. f \in [1 .. n -> Int] /\ g \in [1 .. n + 1 -> Int]
    BY <1>1, <1>2, AmountsType
  <1>5. g[n + 1] = Amt(d) /\ \A i \in 1 .. n : g[i] = f[i]
    BY <1>2, <1>3 DEF Amounts
  <1> HIDE DEF n, f, g, longer
  <1>6. SumFunction(g) = SumFunction(f) + g[n + 1]
    BY <1>2, <1>4, <1>5, SumWithLast
  <1> QED BY <1>1, <1>5, <1>6 DEF Cash, f, g, longer

\* One datagram is taken out.
LEMMA CashTakenOut ==
  ASSUME NEW queue, HasAmounts(queue), NEW p \in DOMAIN queue, NEW rest, IsQueue(rest),
         Len(rest) = Len(queue) - 1, Range(rest) \subseteq Range(queue),
         \A i \in 1 .. Len(rest) : rest[i] = queue[Before(i, p)]
  PROVE  HasAmounts(rest) /\ Cash(rest) = Cash(queue) - Amt(queue[p])
  <1> DEFINE n == Len(queue)
             f == Amounts(queue)
             g == Amounts(rest)
  <1>1. HasAmounts(rest)
    BY DEF HasAmounts
  <1>2. n \in Nat /\ p \in 1 .. n /\ DOMAIN queue = 1 .. n /\ DOMAIN rest = 1 .. n - 1
    BY <1>1, AmountsType
  <1>3. f \in [1 .. n -> Int] /\ g \in [1 .. n - 1 -> Int]
    BY <1>1, AmountsType
  <1>4. f[p] = Amt(queue[p]) /\ \A i \in 1 .. n - 1 : g[i] = f[Before(i, p)]
    <2>1. \A i \in 1 .. n - 1 : Before(i, p) \in 1 .. n
      BY <1>2 DEF Before
    <2> QED BY <1>2, <2>1 DEF Amounts
  <1> HIDE DEF n, f, g
  <1>5. SumFunction(g) = SumFunction(f) - f[p]
    BY <1>2, <1>3, <1>4, SumWithoutOne
  <1> QED BY <1>1, <1>4, <1>5 DEF Cash, f, g

LEMMA CashOfTail ==
  ASSUME NEW queue, HasAmounts(queue), queue # <<>>
  PROVE  HasAmounts(Tail(queue)) /\ Cash(Tail(queue)) = Cash(queue) - Amt(Head(queue))
  <1>1. /\ IsQueue(Tail(queue)) /\ Len(Tail(queue)) = Len(queue) - 1
        /\ Range(Tail(queue)) \subseteq Range(queue)
    BY HeadAndTailOfQueue DEF HasAmounts
  <1>2. 1 \in DOMAIN queue /\ queue[1] = Head(queue) /\ Len(queue) \in Nat
    BY DEF HasAmounts, IsQueue
  <1>3. \A i \in 1 .. Len(Tail(queue)) : Tail(queue)[i] = queue[Before(i, 1)]
    BY <1>1, <1>2 DEF HasAmounts, IsQueue, Before
  <1> QED BY <1>1, <1>2, <1>3, CashTakenOut

LEMMA CashOfShorter ==
  ASSUME NEW queue, HasAmounts(queue), NEW rest \in Shorter(queue)
  PROVE  HasAmounts(rest) /\ Cash(rest) <= Cash(queue)
  <1>1. PICK p \in DOMAIN queue : rest = RemoveAt(queue, p)
    BY DEF Shorter
  <1>2. IsQueue(rest) /\ Len(rest) = Len(queue) - 1 /\ Range(rest) \subseteq Range(queue)
    BY ShorterQueue DEF HasAmounts
  <1>3. p \in 1 .. Len(queue) /\ Len(queue) \in Nat
    BY DEF HasAmounts, IsQueue
  <1>4. \A i \in 1 .. Len(rest) : rest[i] = queue[Before(i, p)]
    <2> DEFINE n == Len(queue)
               front == SubSeq(queue, 1, p - 1)
               back == SubSeq(queue, p + 1, n)
               S == Range(queue)
    <2>1. queue \in Seq(S)
      BY DEF HasAmounts, IsQueue
    <2>2. /\ front \in Seq(S) /\ Len(front) = p - 1
          /\ \A i \in 1 .. p - 1 : front[i] = queue[i]
      BY <1>3, <2>1
    <2>3. /\ back \in Seq(S) /\ Len(back) = n - p
          /\ \A i \in 1 .. n - p : back[i] = queue[p + i]
      BY <1>3, <2>1
    <2>4. rest = front \o back /\ Len(rest) = n - 1
      BY <1>1, <1>2 DEF RemoveAt
    <2> HIDE DEF front, back, S
    <2> TAKE i \in 1 .. Len(rest)
    <2>5. i \in 1 .. n - 1
      BY <2>4
    <2>6. CASE i < p
      <3>1. rest[i] = front[i]
        BY <1>3, <2>2, <2>3, <2>4, <2>5, <2>6
      <3> QED BY <1>3, <2>2, <2>5, <2>6, <3>1 DEF Before
    <2>7. CASE ~ (i < p)
      <3>1. rest[i] = back[i - (p - 1)]
        BY <1>3, <2>2, <2>3, <2>4, <2>5, <2>7
      <3>2. i - (p - 1) \in 1 .. n - p /\ p + (i - (p - 1)) = i + 1
        BY <1>3, <2>5, <2>7
      <3> QED BY <2>3, <2>7, <3>1, <3>2 DEF Before
    <2> QED BY <2>6, <2>7
  <1>5. HasAmounts(rest) /\ Cash(rest) = Cash(queue) - Amt(queue[p])
    BY <1>2, <1>4, CashTakenOut
  <1>6. Amt(queue[p]) \in Nat /\ Cash(queue) \in Nat
    BY CashType DEF HasAmounts, Range
  <1> QED BY <1>5, <1>6

-----------------------------------------------------------------------------
(* The inductive invariant behind CashWasDebited.                          *)

\* A datagram of the ATM is the request of the command it was sent for.
Asked(d) == d.src = "atm" /\ d.of \in Command /\ d.body = Request(d.of)

Answered(d) == d.src = "bank" /\ (d.body.text = "dispensed" => d.body.amt \in Nat)

\* The router keeps the directions apart.
Directions ==
    /\ \A d \in Range(toRouter) : Asked(d) \/ Answered(d)
    /\ \A d \in Range(toBank) : Asked(d)
    /\ \A d \in Range(toATM) : Answered(d)

CardTypes == DOMAIN cards \subseteq User /\ Range(cards) \subseteq Pin

SessionTypes ==
    /\ pc \in {"ready", "pin", "recv"} /\ (command = NULL <=> pc = "ready")
    /\ command \in Command \union {NULL}
    /\ pc = "pin" => command.cmd = "begin-session"
    /\ user_logged_in \in User \union {NULL} /\ active = (user_logged_in # NULL)

SumTypes == dispensed \in Nat /\ debited \in Nat

ConsoleTypes == sendline \in LocalCommand \union {NULL} /\ eof \in BOOLEAN

CashInv ==
    /\ Sockets /\ Directions /\ CardTypes /\ SessionTypes /\ SumTypes /\ ConsoleTypes
    /\ CashWasDebited

\* Requests carry no cash.
LEMMA AmountOfDatagram ==
  ASSUME NEW d, Asked(d) \/ Answered(d)
  PROVE  Amt(d) \in Nat /\ (d.src = "atm" => Amt(d) = 0)
  BY DEF Asked, Answered, Amt

LEMMA CashOfSockets ==
  ASSUME Sockets, Directions
  PROVE  /\ HasAmounts(toRouter) /\ HasAmounts(toATM)
         /\ Cash(toRouter) \in Nat /\ Cash(toATM) \in Nat
  BY AmountOfDatagram, CashType DEF Sockets, Directions, HasAmounts

LEMMA CashIsSum == CashWasDebited <=> dispensed + Cash(toRouter) + Cash(toATM) <= debited
  BY DEF CashWasDebited, Cash, Amounts, Amt

\* The amount of the answer is what was debited for it.
LEMMA AnswerIsDebit ==
  ASSUME NEW q, IsRequest(q), NEW of
  PROVE  /\ Answered(Datagram("bank", of, Response(q))) /\ Debit(q) \in Nat
         /\ Amt(Datagram("bank", of, Response(q))) = Debit(q)
  <1>1. Response(q).text = "dispensed" => q.cmd = "withdraw" /\ Response(q).amt = q.amt
    BY DEF IsRequest, Response, PinReply, WithdrawReply, Say, ExpectedBlocks
  <1>2. Debit(q) \in Nat
    BY DEF Debit, IsRequest
  <1> QED BY <1>1, <1>2 DEF Answered, Datagram, Amt, Debit, IsRequest

LEMMA InitCash == Init => CashInv
  <1> SUFFICES ASSUME Init PROVE CashInv
    OBVIOUS
  <1>1. Sockets /\ Directions
    BY EmptyQueue DEF Init, Sockets, Directions
  <1>2. CardTypes /\ SessionTypes /\ SumTypes /\ ConsoleTypes
    BY DEF Init, BankInit, ATMInit, CardTypes, SessionTypes, SumTypes, ConsoleTypes, Range
  <1>3. CashWasDebited
    <2>1. Cash(toRouter) = 0 /\ Cash(toATM) = 0 /\ dispensed = 0 /\ debited = 0
      BY CashOfNothing DEF Init, ATMInit
    <2> HIDE DEF Cash
    <2> QED BY <2>1, CashIsSum
  <1> QED BY <1>1, <1>2, <1>3 DEF CashInv

\* What each step does to the session.
LEMMA StepSession ==
  ASSUME SessionTypes, CardTypes, [Next]_vars
  PROVE  SessionTypes'
  <1>1. CASE Sends
    <2>1. /\ command' \in Command /\ pc' = "recv"
          /\ UNCHANGED <<active, user_logged_in>>
      <3>1. ASSUME NEW p \in Pin, EnterPin(p) PROVE command' \in Command
        <4>1. command \in [cmd : {"begin-session"}, user : User, pin : Pin \union {NULL}]
          BY <3>1, ATMAssumption DEF EnterPin, SessionTypes, Command
        <4>2. command' = [command EXCEPT !.pin = p]
          BY <3>1 DEF EnterPin, Execute
        <4> QED BY <4>1, <4>2 DEF Command
      <3>2. ASSUME active PROVE user_logged_in \in User
        BY <3>2 DEF SessionTypes
      <3>3. ASSUME NEW a \in Amount, Withdraw(a) PROVE command' \in Command
        BY <3>2, <3>3 DEF Withdraw, Execute, Command
      <3>4. ASSUME Balance \/ EndSession PROVE command' \in Command
        BY <3>2, <3>4 DEF Balance, EndSession, Execute, Command
      <3> QED BY <1>1, <3>1, <3>3, <3>4
              DEF Sends, EnterPin, Withdraw, Balance, EndSession, Execute
    <2> QED BY <2>1, ATMAssumption DEF SessionTypes
  <1>2. CASE AtThePinPrompt
    <2>1. CASE RefusePin
      BY <2>1 DEF RefusePin, SessionTypes
    <2>2. ASSUME NEW u \in User, BeginSession(u, cards) PROVE SessionTypes'
      <3>1. command' \in Command /\ command'.cmd = "begin-session"
        BY <2>2 DEF BeginSession, Command
      <3> QED BY <2>2, <3>1, ATMAssumption DEF BeginSession, SessionTypes
    <2> QED BY <1>2, <2>1, <2>2 DEF AtThePinPrompt
  <1>3. CASE ATMReceives
    <2> DEFINE r == Head(toATM).body
    <2>1. TakeReply(r)
      BY <1>3 DEF ATMReceives
    <2> HIDE DEF r
    <2>2. command \in Command
      BY <2>1 DEF TakeReply, SessionTypes
    <2>3. command.user \in User
      BY <2>2 DEF Command
    <2> QED BY <2>1, <2>3, CustomersAssumption DEF TakeReply, Opens, Closes, SessionTypes
  <1>4. CASE ATMDies
    BY <1>4 DEF ATMDies, ATMRestart, SessionTypes
  <1>5. CASE UNCHANGED atmVars
    BY <1>5 DEF atmVars, SessionTypes
  <1>6. Route \/ BankReceives \/ BankLocally \/ BankInputEnds \/ Lose \/ BankDies
          \/ UNCHANGED vars => UNCHANGED atmVars
    BY DEF Route, BankReceives, BankLocally, BankInputEnds, Lose, BankDies, vars
  <1> QED BY <1>1, <1>2, <1>3, <1>4, <1>5, <1>6 DEF Next

\* What each step does to the card files and to what the bank reads from its
\* console.
LEMMA StepConsole ==
  ASSUME CardTypes, ConsoleTypes, [Next]_vars
  PROVE  CardTypes' /\ ConsoleTypes'
  <1>1. ASSUME NEW c \in LocalCommand, bank_process_local_command(c)
        PROVE  CardTypes'
    <2>1. CASE CreateUser(c)
      <3>1. c.user \in User /\ c.pin \in Pin
        BY <2>1, NewAccountType DEF CreateUser
      <3>2. cards' = [u \in DOMAIN cards \union {c.user} |->
                        IF u = c.user THEN c.pin ELSE cards[u]]
        BY <2>1 DEF CreateUser
      <3>3. \A u \in DOMAIN cards : cards[u] \in Pin
        BY DEF CardTypes, Range
      <3>4. DOMAIN cards' \subseteq User /\ \A u \in DOMAIN cards' : cards'[u] \in Pin
        BY <3>1, <3>2, <3>3 DEF CardTypes
      <3> QED BY <3>4 DEF CardTypes, Range
    <2>2. CASE UNCHANGED cards
      BY <2>2 DEF CardTypes
    <2> QED BY <1>1, <2>1, <2>2
            DEF bank_process_local_command, CreateUserWithoutCard, Deposit, JustPrint
  <1>2. CASE BankLocally
    <2>1. CASE LocalLine
      BY <1>1, <2>1 DEF LocalLine, ConsoleTypes
    <2>2. CASE ReplayLine
      BY <1>1, <2>2 DEF ReplayLine, ConsoleTypes
    <2> QED BY <1>2, <2>1, <2>2 DEF BankLocally
  <1>3. CASE BankDies
    BY <1>3 DEF BankDies, BankRestart, CardTypes, ConsoleTypes
  <1>4. CASE BankInputEnds
    BY <1>4 DEF BankInputEnds, EndOfInput, CardTypes, ConsoleTypes
  <1>5. CASE UNCHANGED <<cards, sendline, eof>>
    BY <1>5 DEF CardTypes, ConsoleTypes
  <1>6. AtThePinPrompt \/ Sends \/ ATMReceives \/ Route \/ BankReceives \/ Lose \/ ATMDies
          \/ UNCHANGED vars => UNCHANGED <<cards, sendline, eof>>
    BY DEF AtThePinPrompt, Sends, ATMReceives, Route, BankReceives, Lose, ATMDies, vars,
           bankVars, bank_process_remote_command
  <1> QED BY <1>2, <1>3, <1>4, <1>5, <1>6 DEF Next

\* The datagrams on the way, and the cash they carry.
Flow == Directions /\ SumTypes /\ CashWasDebited

\* A step on which the cash dispensed and on its way grows by no more than
\* what is debited.
LEMMA CashMoves ==
  ASSUME Sockets, Flow, Sockets', Directions', SumTypes',
         dispensed' + Cash(toRouter') + Cash(toATM') - debited'
           <= dispensed + Cash(toRouter) + Cash(toATM) - debited
  PROVE  Flow'
  <1>1. /\ Cash(toRouter) \in Nat /\ Cash(toATM) \in Nat
        /\ Cash(toRouter') \in Nat /\ Cash(toATM') \in Nat
    <2>1. HasAmounts(toRouter') /\ HasAmounts(toATM')
      BY AmountOfDatagram DEF Sockets, Directions, HasAmounts
    <2> QED BY <2>1, CashType, CashOfSockets DEF Flow
  <1>2. dispensed + Cash(toRouter) + Cash(toATM) <= debited
    BY CashIsSum DEF Flow
  <1>3. dispensed' + Cash(toRouter') + Cash(toATM') <= debited'
    BY <1>1, <1>2 DEF Flow, SumTypes
  <1>4. CashWasDebited'
    BY <1>3 DEF CashWasDebited, Cash, Amounts, Amt
  <1> QED BY <1>4 DEF Flow

LEMMA FlowSends ==
  ASSUME Sockets, Flow, Sockets', SessionTypes', Sends
  PROVE  Flow'
  <1> DEFINE d == Datagram("atm", command', Request(command'))
  <1>1. toRouter' = Append(toRouter, d) /\ UNCHANGED <<toBank, toATM, debited>>
    BY DEF Sends
  <1>2. pc' = "recv" /\ UNCHANGED dispensed
    BY DEF Sends, EnterPin, Withdraw, Balance, EndSession, Execute
  <1>3. command' \in Command
    BY <1>2 DEF SessionTypes
  <1>4. Asked(d)
    BY <1>3 DEF Asked, Datagram
  <1>5. Amt(d) = 0
    BY <1>4, AmountOfDatagram DEF Asked
  <1> HIDE DEF d
  <1>6. Cash(toRouter') = Cash(toRouter) /\ Cash(toRouter) \in Nat /\ Cash(toATM) \in Nat
    BY <1>1, <1>5, CashOfSockets, CashAppended DEF Flow
  <1>7. Range(toRouter') \subseteq Range(toRouter) \union {d}
    BY <1>1, AppendToQueue DEF Sockets
  <1>8. Directions'
    BY <1>1, <1>4, <1>7 DEF Flow, Directions
  <1> QED BY <1>1, <1>2, <1>6, <1>8, CashMoves DEF Flow, SumTypes

LEMMA FlowReceives ==
  ASSUME Sockets, Flow, Sockets', ATMReceives
  PROVE  Flow'
  <1> DEFINE d == Head(toATM)
  <1>1. toATM # <<>> /\ toATM' = Tail(toATM) /\ UNCHANGED <<toRouter, toBank, debited>>
    BY DEF ATMReceives
  <1>2. dispensed' = IF d.body.text = "dispensed" THEN dispensed + d.body.amt ELSE dispensed
    BY DEF ATMReceives, TakeReply
  <1>3. Range(toATM') \subseteq Range(toATM) /\ d \in Range(toATM)
    BY <1>1, HeadAndTailOfQueue DEF Sockets
  <1>4. Answered(d)
    BY <1>3 DEF Flow, Directions
  <1>5. Amt(d) \in Nat /\ dispensed' = dispensed + Amt(d)
    <2>1. Amt(d) = IF d.body.text = "dispensed" THEN d.body.amt ELSE 0
      BY <1>4 DEF Amt, Answered
    <2> QED BY <1>2, <1>4, <2>1 DEF Answered, Flow, SumTypes
  <1>6. HasAmounts(toATM) /\ Cash(toATM') = Cash(toATM) - Amt(d)
    BY <1>1, CashOfSockets, CashOfTail DEF Flow
  <1>7. Cash(toRouter') = Cash(toRouter) /\ Cash(toRouter) \in Nat /\ Cash(toATM) \in Nat
    BY <1>1, CashOfSockets DEF Flow
  <1>8. Directions' /\ SumTypes'
    BY <1>1, <1>3, <1>5 DEF Flow, Directions, SumTypes
  <1> HIDE DEF d
  <1>9. dispensed' + Cash(toRouter') + Cash(toATM') - debited'
          <= dispensed + Cash(toRouter) + Cash(toATM) - debited
    BY <1>1, <1>5, <1>6, <1>7 DEF Flow, SumTypes
  <1> QED BY <1>8, <1>9, CashMoves

LEMMA FlowRoute ==
  ASSUME Sockets, Flow, Sockets', Route
  PROVE  Flow'
  <1> DEFINE d == Head(toRouter)
  <1>1. toRouter # <<>> /\ toRouter' = Tail(toRouter) /\ UNCHANGED <<dispensed, debited>>
    BY DEF Route, atmVars
  <1>2. Range(toRouter') \subseteq Range(toRouter) /\ d \in Range(toRouter)
    BY <1>1, HeadAndTailOfQueue DEF Sockets
  <1>3. Asked(d) \/ Answered(d)
    BY <1>2 DEF Flow, Directions
  <1>4. Cash(toRouter') = Cash(toRouter) - Amt(d) /\ Amt(d) \in Nat
    BY <1>1, <1>3, AmountOfDatagram, CashOfSockets, CashOfTail DEF Flow
  <1>5. CASE d.src = "atm"
    <2>1. toBank' = Append(toBank, d) /\ UNCHANGED toATM
      BY <1>5 DEF Route
    <2>2. Asked(d) /\ Amt(d) = 0
      BY <1>3, <1>5, AmountOfDatagram DEF Answered
    <2>3. Range(toBank') \subseteq Range(toBank) \union {d}
      BY <2>1, AppendToQueue DEF Sockets
    <2>4. Directions' /\ SumTypes'
      BY <1>1, <1>2, <2>1, <2>2, <2>3 DEF Flow, Directions, SumTypes
    <2> HIDE DEF d
    <2>5. dispensed' + Cash(toRouter') + Cash(toATM') - debited'
            <= dispensed + Cash(toRouter) + Cash(toATM) - debited
      BY <1>1, <1>4, <2>1, <2>2, CashOfSockets DEF Flow, SumTypes
    <2> QED BY <2>4, <2>5, CashMoves
  <1>6. CASE d.src # "atm"
    <2>1. toATM' = Append(toATM, d) /\ UNCHANGED toBank
      BY <1>6 DEF Route
    <2>2. Answered(d)
      BY <1>3, <1>6 DEF Asked
    <2>3. Range(toATM') \subseteq Range(toATM) \union {d}
      BY <2>1, AppendToQueue DEF Sockets
    <2>4. Cash(toATM') = Cash(toATM) + Amt(d)
      BY <1>4, <2>1, CashOfSockets, CashAppended DEF Flow
    <2>5. Directions' /\ SumTypes'
      BY <1>1, <1>2, <2>1, <2>2, <2>3 DEF Flow, Directions, SumTypes
    <2> HIDE DEF d
    <2>6. dispensed' + Cash(toRouter') + Cash(toATM') - debited'
            <= dispensed + Cash(toRouter) + Cash(toATM) - debited
      BY <1>1, <1>4, <2>4, CashOfSockets DEF Flow, SumTypes
    <2> QED BY <2>5, <2>6, CashMoves
  <1> QED BY <1>5, <1>6

\* The bank debits what it answers to have dispensed.
LEMMA FlowBankReceives ==
  ASSUME Sockets, Flow, Sockets', BankReceives
  PROVE  Flow'
  <1> DEFINE d == Head(toBank)
             q == d.body
             answer == Datagram("bank", d.of, Response(q))
             sent == [i \in DOMAIN Replies(q) |-> Datagram("bank", d.of, Replies(q)[i])]
  <1>1. /\ toBank # <<>> /\ toBank' = Tail(toBank) /\ toRouter' = toRouter \o sent
        /\ debited' = debited + Debit(q) /\ UNCHANGED <<toATM, dispensed>>
    BY DEF BankReceives, atmVars
  <1>2. Range(toBank') \subseteq Range(toBank) /\ d \in Range(toBank)
    BY <1>1, HeadAndTailOfQueue DEF Sockets
  <1>3. IsRequest(q)
    BY <1>2, RequestType DEF Flow, Directions, Asked
  <1>4. Answered(answer) /\ Debit(q) \in Nat /\ Amt(answer) = Debit(q)
    BY <1>3, AnswerIsDebit
  <1>5. CASE Replies(q) = <<>>
    <2>1. sent = <<>>
      BY <1>5
    <2>2. toRouter' = toRouter
      <3> HIDE DEF sent
      <3> QED BY <1>1, <2>1 DEF Sockets, IsQueue
    <2> HIDE DEF d, sent, q
    <2>3. Directions' /\ SumTypes'
      BY <1>1, <1>2, <1>4, <2>2 DEF Flow, Directions, SumTypes
    <2>4. dispensed' + Cash(toRouter') + Cash(toATM') - debited'
            <= dispensed + Cash(toRouter) + Cash(toATM) - debited
      BY <1>1, <1>4, <2>2, CashOfSockets DEF Flow, SumTypes
    <2> QED BY <2>3, <2>4, CashMoves
  <1>6. CASE Replies(q) = <<Response(q)>>
    <2>1. sent = <<answer>>
      BY <1>6
    <2> HIDE DEF sent, d, answer
    <2>2. toRouter' = Append(toRouter, answer)
      <3>1. toRouter \in Seq(Range(toRouter) \union {answer})
        BY DEF Sockets, IsQueue
      <3> QED BY <1>1, <2>1, <3>1
    <2>3. Range(toRouter') \subseteq Range(toRouter) \union {answer}
      BY <2>2, AppendToQueue DEF Sockets
    <2>4. Cash(toRouter') = Cash(toRouter) + Debit(q)
      BY <1>4, <2>2, CashOfSockets, CashAppended DEF Flow
    <2>5. Directions' /\ SumTypes'
      <3>1. \A e \in Range(toRouter') : Asked(e) \/ Answered(e)
        BY <1>4, <2>3 DEF Flow, Directions
      <3>2. \A e \in Range(toBank') : Asked(e)
        BY <1>2 DEF Flow, Directions
      <3>3. \A e \in Range(toATM') : Answered(e)
        BY <1>1 DEF Flow, Directions
      <3> QED BY <1>1, <1>4, <3>1, <3>2, <3>3 DEF Flow, Directions, SumTypes
    <2>6. dispensed' + Cash(toRouter') + Cash(toATM') - debited'
            <= dispensed + Cash(toRouter) + Cash(toATM) - debited
      BY <1>1, <1>4, <2>4, CashOfSockets DEF Flow, SumTypes
    <2> QED BY <2>5, <2>6, CashMoves
  <1> QED BY <1>5, <1>6 DEF Replies

\* What is lost is debited and never paid out.
LEMMA FlowFaults ==
  ASSUME Sockets, Flow, Sockets', Lose \/ ATMDies \/ BankDies
  PROVE  Flow'
  <1>1. UNCHANGED <<dispensed, debited>>
    BY DEF Lose, ATMDies, ATMRestart, BankDies, atmVars
  <1>2. /\ Cash(toRouter) \in Nat /\ Cash(toATM) \in Nat
        /\ HasAmounts(toRouter) /\ HasAmounts(toATM)
    BY CashOfSockets DEF Flow
  <1>3. \A queue \in {toRouter, toBank, toATM} : \A rest \in Shorter(queue) :
          Range(rest) \subseteq Range(queue)
    BY ShorterQueue DEF Sockets
  <1>4. \A queue \in {toRouter, toATM} : \A rest \in Shorter(queue) :
          HasAmounts(rest) /\ Cash(rest) <= Cash(queue)
    BY <1>2, CashOfShorter
  <1>5. Directions' /\ SumTypes'
    <2>1. CASE Lose
      BY <1>1, <1>3, <2>1 DEF Lose, Flow, Directions, SumTypes
    <2>2. CASE ATMDies \/ BankDies
      BY <1>1, <2>2, EmptyQueue DEF ATMDies, BankDies, Flow, Directions, SumTypes
    <2> QED BY <2>1, <2>2
  <1>6. Cash(toRouter') <= Cash(toRouter) /\ Cash(toATM') <= Cash(toATM)
    <2>1. CASE Lose
      BY <1>2, <1>4, <2>1 DEF Lose
    <2>2. CASE ATMDies \/ BankDies
      BY <1>2, <2>2, CashOfNothing DEF ATMDies, BankDies
    <2> QED BY <2>1, <2>2
  <1>7. Cash(toRouter') \in Nat /\ Cash(toATM') \in Nat
    <2>1. HasAmounts(toRouter') /\ HasAmounts(toATM')
      BY <1>5, AmountOfDatagram DEF Sockets, Directions, HasAmounts
    <2> QED BY <2>1, CashType
  <1>8. dispensed' + Cash(toRouter') + Cash(toATM') - debited'
          <= dispensed + Cash(toRouter) + Cash(toATM) - debited
    BY <1>1, <1>2, <1>6, <1>7 DEF Flow, SumTypes
  <1> QED BY <1>5, <1>8, CashMoves

LEMMA StepFlow ==
  ASSUME Sockets, Flow, Sockets', SessionTypes', [Next]_vars
  PROVE  Flow'
  <1>1. CASE UNCHANGED <<net, dispensed, debited>>
    BY <1>1 DEF net, Flow, Directions, SumTypes, CashWasDebited
  <1>2. AtThePinPrompt \/ BankLocally \/ BankInputEnds \/ UNCHANGED vars
          => UNCHANGED <<net, dispensed, debited>>
    BY DEF AtThePinPrompt, RefusePin, BeginSession, BankLocally, BankInputEnds, vars, atmVars
  <1> QED BY <1>1, <1>2, FlowSends, FlowReceives, FlowRoute, FlowBankReceives, FlowFaults
          DEF Next

-----------------------------------------------------------------------------

\* The claim about the cash is inductive with the types of the sockets.
LEMMA StepCash == ASSUME CashInv, AnswersInv', [Next]_vars PROVE CashInv'
  <1>1. Sockets' /\ SessionTypes' /\ CardTypes' /\ ConsoleTypes'
    BY StepSession, StepConsole DEF CashInv, AnswersInv
  <1>2. Flow'
    BY <1>1, StepFlow DEF CashInv, Flow
  <1> QED BY <1>1, <1>2 DEF CashInv, Flow

\* In every reachable state the sockets hold what they may, and no cash that
\* was not debited.
THEOREM CashInvariance == Spec => []CashInv
  <1>1. CashInv /\ AnswersInv' /\ [Next]_vars => CashInv'
    BY StepCash
  <1> QED BY <1>1, InitCash, AnswersInvariance, PTL DEF Spec

\* Whatever is lost and whoever restarts, the ATM never pays out, and has
\* never on the way to it, more than the bank has debited.
THEOREM CashCorrect == Spec => []CashWasDebited
  <1>1. CashInv => CashWasDebited
    BY DEF CashInv
  <1> QED BY <1>1, CashInvariance, PTL

-----------------------------------------------------------------------------
(* The bank in the net: the proofs about the bank alone carry over, since   *)
(* whatever arrives at it is a request that it understands.                *)

\* The withdrawal that the next datagram asks for is carried out.
Withdraws ==
    /\ toBank # <<>>
    /\ LET d == Head(toBank)
       IN  /\ Asked(d) /\ d.body.cmd = "withdraw" /\ d.body.user \in Holders
           /\ d.body.amt \in Nat /\ L!Withdraw(d.body.user, d.body.amt)

LEMMA BankInTheNet ==
  ASSUME AtMostTwoPerBin, BankInv, Sockets, Directions, [Next]_vars
  PROVE  BankInv' /\ (OpensOrDeposits \/ Withdraws \/ L!Restart)
  <1>1. CASE BankReceives
    <2> DEFINE d == Head(toBank)
    <2>1. bank_process_remote_command(d.body) /\ toBank # <<>>
      BY <1>1 DEF BankReceives
    <2>2. Asked(d)
      BY <2>1, HeadAndTailOfQueue DEF Sockets, Directions
    <2>3. IsRequest(d.body)
      BY <2>2, RequestType DEF Asked
    <2> HIDE DEF d
    <2>4. /\ \/ UNCHANGED Book
             \/ d.body.cmd = "withdraw" /\ d.body.user \in Holders
                /\ L!Withdraw(d.body.user, d.body.amt)
          /\ TableOK(accounts') /\ AccountsHaveTheirCards'
      BY <2>1, <2>3, StepRemote
    <2>5. UNCHANGED sendline
      BY <2>1 DEF bank_process_remote_command
    <2>6. d.body.cmd = "withdraw" => d.body.amt \in Nat
      BY <2>3 DEF IsRequest
    <2>7. BankInv'
      BY <2>4, <2>5 DEF BankInv
    <2>8. UNCHANGED Book \/ Withdraws
      BY <2>1, <2>2, <2>4, <2>6 DEF Withdraws, d
    <2> QED BY <2>7, <2>8 DEF OpensOrDeposits
  <1>2. CASE BankLocally
    <2>1. PICK c \in LocalCommand : bank_process_local_command(c) /\ sendline' = c
      BY <1>2 DEF BankLocally, LocalLine, ReplayLine, BankInv
    <2> QED BY <2>1, StepLocal DEF BankInv
  <1>3. CASE BankDies
    <2>1. Holders' = {} /\ TableOK(accounts') /\ L!Restart /\ sendline' = NULL
      BY <1>3, EmptyBook DEF BankDies, BankRestart
    <2> QED BY <2>1 DEF BankInv, AccountsHaveTheirCards
  <1>4. CASE UNCHANGED <<accounts, cards, sendline>>
    BY <1>4, StepLeavesTable DEF BankInv, OpensOrDeposits
  <1>5. AtThePinPrompt \/ Sends \/ ATMReceives \/ Route \/ BankInputEnds \/ Lose \/ ATMDies
          \/ UNCHANGED vars => UNCHANGED <<accounts, cards, sendline>>
    BY DEF AtThePinPrompt, Sends, ATMReceives, Route, BankInputEnds, EndOfInput, Lose,
           ATMDies, vars, bankVars
  <1> QED BY <1>1, <1>2, <1>3, <1>4, <1>5 DEF Next

LEMMA ResponseType ==
  ASSUME TableOK(accounts), NEW q, IsRequest(q)
  PROVE  Response(q) \in Reply
  <1>1. \A text \in {"", "Usage", "No such user", "Not authorized", "Authorized",
                     "Insufficient funds", "User logged out"} : Say(text) \in Reply
    BY DEF Say, Reply
  <1>2. PinReply(q) \in Reply
    BY <1>1 DEF PinReply
  <1>3. q.cmd = "withdraw" => WithdrawReply(q) \in Reply
    BY <1>1 DEF WithdrawReply, Reply, IsRequest
  <1>4. Account(q.user) # NULL => [text |-> "balance", amt |-> Account(q.user).balance] \in Reply
    <2> SUFFICES ASSUME Account(q.user) # NULL PROVE Account(q.user).balance \in Nat
      BY DEF Reply
    <2>1. q.user \in Holders
      BY DEF IsRequest, Holders, Account
    <2> QED BY <2>1, AccountType, CustomersAssumption DEF Holders
  <1> HIDE DEF Reply
  <1> QED BY <1>1, <1>2, <1>3, <1>4 DEF Response, IsRequest

RepliesOK ==
    \A queue \in {toRouter, toBank, toATM} : \A d \in Range(queue) :
      d.src = "bank" => d.body \in Reply

LEMMA StepReplies ==
  ASSUME BankInv, Sockets, Directions, RepliesOK, [Next]_vars
  PROVE  RepliesOK'
  <1>1. CASE Sends
    <2> DEFINE d == Datagram("atm", command', Request(command'))
    <2>1. toRouter' = Append(toRouter, d) /\ UNCHANGED <<toBank, toATM>> /\ d.src # "bank"
      BY <1>1 DEF Sends, Datagram
    <2> HIDE DEF d
    <2>2. Range(toRouter') \subseteq Range(toRouter) \union {d}
      BY <2>1, AppendToQueue DEF Sockets
    <2> QED BY <2>1, <2>2 DEF RepliesOK
  <1>2. CASE ATMReceives
    <2>1. Range(toATM') \subseteq Range(toATM) /\ UNCHANGED <<toRouter, toBank>>
      BY <1>2, HeadAndTailOfQueue DEF ATMReceives, Sockets
    <2> QED BY <2>1 DEF RepliesOK
  <1>3. CASE Route
    <2> DEFINE d == Head(toRouter)
    <2>1. Range(toRouter') \subseteq Range(toRouter) /\ d \in Range(toRouter)
      BY <1>3, HeadAndTailOfQueue DEF Route, Sockets
    <2>2. \/ toBank' = Append(toBank, d) /\ UNCHANGED toATM
          \/ toATM' = Append(toATM, d) /\ UNCHANGED toBank
      BY <1>3 DEF Route
    <2> HIDE DEF d
    <2>3. /\ Range(toBank') \subseteq Range(toBank) \union {d}
          /\ Range(toATM') \subseteq Range(toATM) \union {d}
      BY <2>2, AppendToQueue DEF Sockets
    <2> QED BY <2>1, <2>3 DEF RepliesOK
  <1>4. CASE BankReceives
    <2> DEFINE d == Head(toBank)
               answer == Datagram("bank", d.of, Response(d.body))
               sent == [i \in DOMAIN Replies(d.body) |->
                          Datagram("bank", d.of, Replies(d.body)[i])]
    <2>1. Range(toBank') \subseteq Range(toBank) /\ d \in Range(toBank)
      BY <1>4, HeadAndTailOfQueue DEF BankReceives, Sockets
    <2>2. IsRequest(d.body)
      BY <2>1, RequestType DEF Directions, Asked
    <2>3. answer.src = "bank" /\ answer.body \in Reply
      BY <2>2, ResponseType DEF Datagram, BankInv
    <2>4. toRouter' = toRouter \o sent /\ UNCHANGED toATM
      BY <1>4 DEF BankReceives
    <2>5. sent \in Seq({answer})
      BY AtMostOneReply
    <2> HIDE DEF sent, answer, d
    <2>6. Range(toRouter') \subseteq Range(toRouter) \union {answer}
      BY <2>4, <2>5, JoinQueues DEF Sockets
    <2> QED BY <2>1, <2>3, <2>4, <2>6 DEF RepliesOK
  <1>5. CASE Lose
    <2>1. \A queue \in {toRouter, toBank, toATM} : \A rest \in Shorter(queue) :
            Range(rest) \subseteq Range(queue)
      BY ShorterQueue DEF Sockets
    <2> QED BY <1>5, <2>1 DEF Lose, RepliesOK
  <1>6. CASE ATMDies \/ BankDies
    BY <1>6, EmptyQueue DEF ATMDies, BankDies, RepliesOK
  <1>7. CASE UNCHANGED net
    BY <1>7 DEF net, RepliesOK
  <1>8. AtThePinPrompt \/ BankLocally \/ BankInputEnds \/ UNCHANGED vars => UNCHANGED net
    BY DEF AtThePinPrompt, BankLocally, BankInputEnds, vars
  <1> QED BY <1>1, <1>2, <1>3, <1>4, <1>5, <1>6, <1>7, <1>8 DEF Next

\* The bank's invariant, as that of the three processes together.
NetInv == CashInv /\ BankInv /\ RepliesOK

LEMMA InitNet == Init => NetInv
  <1> SUFFICES ASSUME Init PROVE NetInv
    OBVIOUS
  <1>1. RepliesOK
    BY EmptyQueue DEF Init, RepliesOK
  <1> QED BY <1>1, InitCash, BankInitInv DEF Init, NetInv

\* A step of the three processes keeps what holds of each.
LEMMA StepNet == ASSUME AtMostTwoPerBin, NetInv, CashInv', [Next]_vars PROVE NetInv'
  BY BankInTheNet, StepReplies DEF NetInv, CashInv

\* In every reachable state the bank's tables are whole and its answers are
\* answers, whatever arrived through the router.
THEOREM NetInvariance ==
  ASSUME AtMostTwoPerBin
  PROVE  Spec => []NetInv
  <1>1. NetInv /\ CashInv' /\ [Next]_vars => NetInv'
    BY StepNet
  <1> QED BY <1>1, InitNet, CashInvariance, PTL DEF Spec

\* The types are among what holds of the three processes.
LEMMA NetTypes == ASSUME NetInv PROVE TypeOK
  <1>1. \A u \in Holders : Account(u).balance \in 0 .. INT_MAX
    BY AccountType DEF NetInv, BankInv, Holders
  <1>2. \A d \in InFlight : d.src = "bank" => d.body \in Reply
    BY DEF NetInv, RepliesOK, InFlight
  <1> HIDE DEF Account, Holders, Reply
  <1>3. /\ DOMAIN cards \subseteq User /\ Range(cards) \subseteq Pin
        /\ sendline \in LocalCommand \union {NULL} /\ eof \in BOOLEAN
        /\ pc \in {"ready", "pin", "recv"} /\ (command = NULL <=> pc = "ready")
        /\ active = (user_logged_in # NULL)
    BY DEF NetInv, CashInv, CardTypes, ConsoleTypes, SessionTypes
  <1>4. orphans \in Nat /\ debited \in Nat /\ dispensed \in Nat
    BY DEF NetInv, CashInv, Sockets, SumTypes
  <1> QED BY <1>1, <1>2, <1>3, <1>4 DEF TypeOK

\* Every state of the three processes and their sockets has the types of
\* TypeOK: no balance leaves the range of an int, the processes know only
\* names and PINs that were typed, and each answer has the form of one.
THEOREM NetTypeCorrect ==
  ASSUME AtMostTwoPerBin
  PROVE  Spec => []TypeOK
  <1>1. NetInv => TypeOK
    BY NetTypes
  <1> QED BY <1>1, NetInvariance, PTL

\* The book of Ledger, for any amount: one that the ATM's buffer has cut need
\* not be one that anybody typed.
Net == INSTANCE Ledger WITH book <- Book, Amount <- Nat

\* Every step of the three processes is one of the ledger or leaves it.
LEMMA StepLedger == ASSUME AtMostTwoPerBin, NetInv, [Next]_vars PROVE [Net!Next]_Book
  <1>1. OpensOrDeposits \/ Withdraws \/ L!Restart
    BY BankInTheNet DEF NetInv, CashInv
  <1>2. Net!Holders = Holders /\ Amount \subseteq Nat
    BY CustomersAssumption DEF Net!Holders, Book
  <1>3. CASE OpensOrDeposits
    <2>1. ASSUME NEW u \in User, NEW p \in Pin, NEW b \in Amount, L!Open(u, p, b)
          PROVE  Net!Next
      <3>1. Net!Open(u, p, b)
        BY <2>1 DEF L!Open, Net!Open, L!Holders, Net!Holders, L!Balance, Net!Balance
      <3> QED BY <1>2, <3>1 DEF Net!Next
    <2>2. ASSUME NEW u \in Holders, NEW a \in Amount, L!Deposit(u, a)
          PROVE  Net!Next
      <3>1. Net!Deposit(u, a)
        BY <2>2 DEF L!Deposit, Net!Deposit, L!SetBalance, Net!SetBalance, L!Holders,
                    Net!Holders, L!Balance, Net!Balance
      <3> QED BY <1>2, <3>1 DEF Net!Next
    <2> QED BY <1>3, <2>1, <2>2 DEF OpensOrDeposits
  <1>4. CASE Withdraws
    <2>1. PICK u \in Holders, a \in Nat : L!Withdraw(u, a)
      BY <1>4 DEF Withdraws
    <2>2. Net!Withdraw(u, a)
      BY <2>1 DEF L!Withdraw, Net!Withdraw, L!SetBalance, Net!SetBalance, L!Holders,
                  Net!Holders, L!Balance, Net!Balance
    <2> QED BY <1>2, <2>2 DEF Net!Next
  <1>5. CASE L!Restart
    BY <1>5 DEF L!Restart, Net!Restart, Net!Next
  <1> QED BY <1>1, <1>3, <1>4, <1>5

\* Also behind the router and the ATM's buffers the bank keeps the book.
THEOREM LedgerInTheNet ==
  ASSUME AtMostTwoPerBin
  PROVE  Spec => Net!Spec
  <1>1. Init => Net!Init
    BY BankInitInv DEF Init, L!Init, Net!Init
  <1>2. NetInv /\ [Next]_vars => [Net!Next]_Book
    BY StepLedger
  <1> QED BY <1>1, <1>2, NetInvariance, PTL DEF Spec, Net!Spec

-----------------------------------------------------------------------------
(* What is debited is what was typed, unless the buffer cuts the amount.   *)

\* Every amount leaves the ATM whole: what withdraw_message cannot hold of
\* "withdraw <name> <amount>" are not digits.
RequestsFit ==
    \A u \in User, a \in Amount :
      LET room == RoomForArgument("withdraw", u)
      IN  room > 0 => FirstDigits(a, room) = a

\* Printing the numbers below m takes at most k bytes.
Within(printed, a, m, room, k) ==
    \A n \in 0 .. a : n < m => printed[n].number = n /\ printed[n].room \in Int
                                /\ printed[n].room >= room - k

LEMMA OneMoreDigit ==
  ASSUME NEW a \in Nat, NEW room \in Int, NEW m \in Nat, NEW k \in Nat, m >= 10, k < room,
         NEW printed, IsPrinted(printed, a, room), Within(printed, a, m, room, k)
  PROVE  Within(printed, a, 10 * m, room, k + 1)
  <1> SUFFICES ASSUME NEW n \in 0 .. a, n < 10 * m
               PROVE  /\ printed[n].number = n /\ printed[n].room \in Int
                      /\ printed[n].room >= room - (k + 1)
    BY DEF Within
  <1>1. CASE n < m
    BY <1>1 DEF Within
  <1>2. CASE ~ (n < m)
    <2> DEFINE front == printed[n \div 10]
    <2>1. ~ (n < 10) /\ n \div 10 \in 0 .. a /\ n \div 10 < m
      BY <1>2
    <2>2. front.room \in Int /\ front.room >= room - k
      BY <2>1 DEF Within
    <2> HIDE DEF front
    <2>3. printed[n] = IF n < 10 THEN [number |-> n, room |-> room - 1]
                       ELSE IF front.room > 0 THEN [number |-> n, room |-> front.room - 1]
                            ELSE front
      BY DEF IsPrinted, front
    <2>4. printed[n] = [number |-> n, room |-> front.room - 1]
      BY <2>1, <2>2, <2>3
    <2> QED BY <2>2, <2>4
  <1> QED BY <1>1, <1>2

\* Ten bytes hold any amount of ten digits.
LEMMA TenDigitsFit ==
  ASSUME NEW a \in Nat, a < 10000000000, NEW room \in Int, room >= 10
  PROVE  FirstDigits(a, room) = a
  <1> DEFINE printed == CHOOSE f : IsPrinted(f, a, room)
             Fits(m, k) == Within(printed, a, m, room, k)
  <1>1. FirstDigits(a, room) = printed[a].number
    BY DEF FirstDigits, IsPrinted
  <1>2. IsPrinted(printed, a, room)
    BY PrintedExists
  <1> HIDE DEF printed
  <1>3. Fits(10, 1)
    BY <1>2 DEF Within, IsPrinted
  <1>4. ASSUME NEW m \in Nat, NEW k \in Nat, m >= 10, k < 10, Fits(m, k)
        PROVE  Fits(10 * m, k + 1)
    BY <1>2, <1>4, OneMoreDigit
  <1> HIDE DEF Fits
  <1>5. Fits(100, 2)
    BY <1>3, <1>4
  <1>6. Fits(1000, 3)
    BY <1>4, <1>5
  <1>7. Fits(10000, 4)
    BY <1>4, <1>6
  <1>8. Fits(100000, 5)
    BY <1>4, <1>7
  <1>9. Fits(1000000, 6)
    BY <1>4, <1>8
  <1>10. Fits(10000000, 7)
    BY <1>4, <1>9
  <1>11. Fits(100000000, 8)
    BY <1>4, <1>10
  <1>12. Fits(1000000000, 9)
    BY <1>4, <1>11
  <1>13. Fits(10000000000, 10)
    BY <1>4, <1>12
  <1>14. printed[a].number = a
    BY <1>13 DEF Fits, Within
  <1> QED BY <1>1, <1>14

\* The buffer of 256 bytes holds every withdrawal of up to ten digits, which
\* are enough for INT_MAX, by somebody whose name has up to 235 letters.
THEOREM ShortRequestsFit ==
  ASSUME MessageSize = 256, \A u \in User : NameLength(u) \in 0 .. 235,
         \A a \in Amount : a < 10000000000
  PROVE  RequestsFit
  <1> SUFFICES ASSUME NEW u \in User, NEW a \in Amount
               PROVE  FirstDigits(a, RoomForArgument("withdraw", u)) = a
    BY DEF RequestsFit
  <1>1. RoomForArgument("withdraw", u) = 256 - 1 - 9 - NameLength(u) - 1
    BY DEF RoomForArgument, RoomAfter, Prefix
  <1>2. RoomForArgument("withdraw", u) \in Int /\ RoomForArgument("withdraw", u) >= 10
    BY <1>1
  <1>3. a \in Nat /\ a < 10000000000
    BY CustomersAssumption
  <1> HIDE DEF RoomForArgument, FirstDigits
  <1> QED BY <1>2, <1>3, TenDigitsFit

\* Opening accounts and depositing takes nothing from anybody.
LEMMA NoDebit ==
  ASSUME BankInv, OpensOrDeposits, NEW u \in Holders, u \in Holders'
  PROVE  ~ (Account(u)'.balance < Account(u).balance)
  <1>1. Account(u) \in Value /\ Account(u).balance \in Int
    BY AccountType DEF BankInv, Holders, Value
  <1>2. ASSUME NEW v \in User, NEW p, NEW b, L!Open(v, p, b)
        PROVE  Book'[u] = Book[u]
    <2>1. u # v
      BY <1>2, BookIsAccounts DEF L!Open, L!Holders
    <2> QED BY <1>2, <2>1, BookIsAccounts DEF L!Open, L!Holders
  <1>3. ASSUME NEW v \in Holders, NEW a \in Amount, L!Deposit(v, a)
        PROVE  Book'[u].balance \in Int /\ Book'[u].balance >= Book[u].balance
    <2>1. Book' = [Book EXCEPT ![v].balance = Book[v].balance + a] /\ a \in Nat
      BY <1>3, CustomersAssumption DEF L!Deposit, L!SetBalance
    <2>2. Book[u] \in Value /\ Book[u].balance \in Int
      BY <1>1, BookIsAccounts
    <2>3. Book'[u].balance = IF u = v THEN Book[u].balance + a ELSE Book[u].balance
      BY <2>1, <2>2, BookIsAccounts DEF Value
    <2> QED BY <2>1, <2>2, <2>3
  <1> HIDE DEF Account, Book, Holders
  <1> QED BY <1>1, <1>2, <1>3, BookIsAccounts DEF OpensOrDeposits

\* A withdrawal takes from one account, and what it takes was typed in a
\* session of its holder.
LEMMA DebitWasTyped ==
  ASSUME RequestsFit, BankInv, Withdraws,
         NEW u \in Holders, u \in Holders', Account(u)'.balance < Account(u).balance
  PROVE  LET of == Head(toBank).of
         IN  of.cmd = "withdraw" /\ of.user = u
             /\ of.amt = Account(u).balance - Account(u)'.balance
  <1> DEFINE d == Head(toBank)
             v == d.body.user
             a == d.body.amt
             room == RoomForArgument("withdraw", d.of.user)
  <1>1. /\ Asked(d) /\ d.body.cmd = "withdraw" /\ v \in Holders /\ a \in Nat
        /\ L!Withdraw(v, a)
    BY DEF Withdraws
  <1>2. d.of \in Command /\ d.body = Request(d.of)
    BY <1>1 DEF Asked
  <1>3. d.of.cmd = "withdraw"
    BY <1>1, <1>2 DEF Request, BeginRequest, WithdrawRequest, PlainRequest
  <1>4. d.of.user \in User /\ d.of.amt \in Amount
    BY <1>2, <1>3 DEF Command
  <1> HIDE DEF RoomForArgument, RoomAfter, Prefix, FirstDigits, Account, Book, Holders
  <1>5. v = NameSent("withdraw", d.of.user) /\ a = IF room > 0 THEN FirstDigits(d.of.amt, room) ELSE 0
    BY <1>2, <1>3 DEF Request, WithdrawRequest
  <1>6. v \in User /\ v # NULL
    BY <1>1, CustomersAssumption DEF Holders
  <1>7. v = d.of.user
    BY <1>5, <1>6 DEF NameSent
  <1>8. a = 0 \/ a = d.of.amt
    BY <1>4, <1>5 DEF RequestsFit
  <1> HIDE DEF d, v, a, room
  <1>9. Account(u) \in Value /\ Account(u).balance \in Int /\ Book[u] = Account(u)
        /\ Book'[u] = Account(u)'
    BY AccountType, BookIsAccounts DEF BankInv, Value, Holders
  <1>10. Book' = [Book EXCEPT ![v].balance = Book[v].balance - a]
    BY <1>1 DEF L!Withdraw, L!SetBalance
  <1>11. Book'[u].balance = IF u = v THEN Book[u].balance - a ELSE Book[u].balance
    BY <1>9, <1>10, BookIsAccounts DEF Value
  <1>12. u = v /\ a # 0 /\ a = Account(u).balance - Account(u)'.balance
    BY <1>1, <1>9, <1>11
  <1> QED BY <1>3, <1>7, <1>8, <1>12 DEF d

\* The action of DebitsWhatWasTyped.
DebitsAreTyped ==
    \A u \in Holders :
      u \in Holders' /\ Account(u)'.balance < Account(u).balance
        => /\ toBank # <<>>
           /\ Head(toBank).of.cmd = "withdraw" /\ Head(toBank).of.user = u
           /\ Head(toBank).of.amt = Account(u).balance - Account(u)'.balance

\* Every step of the three processes debits only what was typed.
LEMMA StepDebits ==
  ASSUME AtMostTwoPerBin, RequestsFit, NetInv, [Next]_vars
  PROVE  DebitsAreTyped
  <1> SUFFICES ASSUME NEW u \in Holders, u \in Holders',
                      Account(u)'.balance < Account(u).balance
               PROVE  /\ toBank # <<>>
                      /\ Head(toBank).of.cmd = "withdraw" /\ Head(toBank).of.user = u
                      /\ Head(toBank).of.amt = Account(u).balance - Account(u)'.balance
    BY DEF DebitsAreTyped
  <1>1. OpensOrDeposits \/ Withdraws \/ L!Restart
    BY BankInTheNet DEF NetInv, CashInv
  <1>2. ~ OpensOrDeposits
    BY NoDebit DEF NetInv
  <1>3. ~ L!Restart
    <2>1. L!Restart => Holders' = {}
      BY BookIsAccounts DEF L!Restart
    <2> QED BY <2>1
  <1>4. Withdraws /\ toBank # <<>>
    BY <1>1, <1>2, <1>3 DEF Withdraws
  <1> QED BY <1>4, DebitWasTyped DEF NetInv

\* A balance goes down only by a withdrawal typed in a session of its holder,
\* by exactly the amount typed, as long as the buffer holds the amounts.
THEOREM DebitsCorrect ==
  ASSUME AtMostTwoPerBin, RequestsFit
  PROVE  Spec => DebitsWhatWasTyped
  <1>1. NetInv /\ [Next]_vars => [DebitsAreTyped]_vars
    BY StepDebits
  <1> QED BY <1>1, NetInvariance, PTL DEF Spec, DebitsWhatWasTyped, DebitsAreTyped

\* The same for what is credited, whatever the network brings.
LEMMA StepCredits ==
  ASSUME AtMostTwoPerBin, NetInv, [Next]_vars
  PROVE  GainsAreFromTheConsole
  <1>1. CASE BankLocally
    BY <1>1, ConsoleGains DEF BankLocally, NetInv
  <1>2. CASE BankReceives
    <2> DEFINE d == Head(toBank)
    <2>1. bank_process_remote_command(d.body) /\ toBank # <<>>
      BY <1>2 DEF BankReceives
    <2>2. Asked(d)
      BY <2>1, HeadAndTailOfQueue DEF NetInv, CashInv, Sockets, Directions
    <2>3. IsRequest(d.body)
      BY <2>2, RequestType DEF Asked
    <2> HIDE DEF d
    <2> QED BY <2>1, <2>3, RemoteGains DEF NetInv, GainsAreFromTheConsole
  <1>3. CASE BankDies
    <2>1. Holders' = {}
      BY <1>3, EmptyBook DEF BankDies, BankRestart
    <2> QED BY <2>1 DEF GainsAreFromTheConsole, Gains
  <1>4. CASE UNCHANGED accounts
    BY <1>4, NobodyGains DEF NetInv, GainsAreFromTheConsole
  <1>5. AtThePinPrompt \/ Sends \/ ATMReceives \/ Route \/ BankInputEnds \/ Lose \/ ATMDies
          \/ UNCHANGED vars => UNCHANGED accounts
    BY DEF AtThePinPrompt, Sends, ATMReceives, Route, BankInputEnds, EndOfInput, Lose,
           ATMDies, vars, bankVars
  <1> QED BY <1>1, <1>2, <1>3, <1>4, <1>5 DEF Next

\* Nothing that an ATM sends, and nothing that is lost, late or sent by a
\* process that died, gives anybody money: it comes from the bank's console.
THEOREM NetCreditsCorrect ==
  ASSUME AtMostTwoPerBin
  PROVE  Spec => [][GainsAreFromTheConsole]_vars
  <1>1. NetInv /\ [Next]_vars => [GainsAreFromTheConsole]_vars
    BY StepCredits
  <1> QED BY <1>1, NetInvariance, PTL DEF Spec

=============================================================================
