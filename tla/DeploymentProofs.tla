-------------------------- MODULE DeploymentProofs --------------------------
(* Proofs about the four programs of Deployment together: what the init     *)
(* program leaves whatever the others do meanwhile, and what holds of ATM,  *)
(* router and bank however they are started and stopped.                    *)
EXTENDS Deployment, AtmBankProofs

\* The files belong to where the program is; between runs both exist or none,
\* unless a run was killed between them.
FilesInv ==
    /\ init \in {"idle", "bank", "atm"}
    /\ init = "bank" => files = {}
    /\ init = "atm" => files = {"bank"}
    /\ init = "idle" => \/ files \in {{}, {"bank", "atm"}}
                        \/ files = {"bank"} /\ status \in {"exists", "killed"}
    /\ status = "ok" => files = {"bank", "atm"}

LEMMA FilesInvImplies == FilesInv => InitIsAllOrNothing
  <1>1. Cardinality({}) = 0 /\ \A x : Cardinality({x}) = 1
    BY FS_EmptySet, FS_Singleton
  <1>2. Cardinality({"bank", "atm"}) = 2
    <2>1. {"bank", "atm"} = {"bank"} \union {"atm"} /\ "atm" \notin {"bank"}
      OBVIOUS
    <2>2. IsFiniteSet({"bank"}) /\ Cardinality({"bank"}) = 1
      BY FS_Singleton
    <2>3. Cardinality({"bank"} \union {"atm"}) = Cardinality({"bank"}) + 1
      BY <2>1, <2>2, FS_AddElement
    <2> QED BY <2>1, <2>2, <2>3
  <1> QED BY <1>1, <1>2 DEF FilesInv, InitIsAllOrNothing

LEMMA StepFiles == ASSUME FilesInv, [DepNext]_DepVars PROVE FilesInv'
  <1>1. CASE InitChecks
    BY <1>1 DEF FilesInv, InitChecks, Exits
  <1>2. CASE InitCreatesBank
    BY <1>2 DEF FilesInv, InitCreatesBank
  <1>3. CASE InitCreatesATM
    BY <1>3 DEF FilesInv, InitCreatesATM, Exits
  <1>4. CASE InitFails
    BY <1>4 DEF FilesInv, InitFails, FilesOfAFailure, Exits
  <1>5. CASE InitKilled
    BY <1>5 DEF FilesInv, InitKilled, Exits
  <1>6. CASE UNCHANGED <<files, init, status>>
    BY <1>6 DEF FilesInv
  <1>7. ASSUME Typed \/ Operated \/ InputEnds \/ Served \/ Started \/ (\E p \in up : Stop(p))
               \/ UNCHANGED DepVars
        PROVE  UNCHANGED <<files, init, status>>
    BY <1>7 DEF Typed, Operated, InputEnds, Served, RouterRuns, BankRuns, ATMRuns, Up, depVars, DepVars,
                Started, StartRouter, StartBank, StartATM, Starts, Stop
  <1> QED BY <1>1, <1>2, <1>3, <1>4, <1>5, <1>6, <1>7 DEF DepNext, InitRuns, GoesWrong

\* A run of init leaves both files or none, and its exit status tells which,
\* unless it is killed between its two files.
THEOREM InitCorrect == DepSpec => []InitIsAllOrNothing
  <1>1. DepInit => FilesInv
    BY DeploymentAssumption DEF DepInit, FilesInv
  <1>2. FilesInv /\ [DepNext]_DepVars => FilesInv'
    BY StepFiles
  <1> QED BY <1>1, <1>2, FilesInvImplies, PTL DEF DepSpec

-----------------------------------------------------------------------------
(* The three programs of AtmBank, started and stopped in any order.        *)

\* A process that starts dies first, for AtmBank; only a router that starts, and
\* loses all that waits for it at once, is no step of AtmBank.
LEMMA StepOfTheNetOrRouter ==
  ASSUME [DepNext]_DepVars
  PROVE  [Next]_vars \/ StartRouter
  <1>1. CASE InitRuns \/ GoesWrong \/ UNCHANGED DepVars
    BY <1>1 DEF InitRuns, InitChecks, InitCreatesBank, InitCreatesATM, GoesWrong, InitFails,
                InitKilled, Stop, DepVars
  <1>2. CASE Typed \/ Operated \/ InputEnds \/ Served
    BY <1>2 DEF Typed, Operated, InputEnds, Served, RouterRuns, BankRuns, ATMRuns, Up, Next
  <1>3. CASE Started
    BY <1>3 DEF Started, StartBank, StartATM, Next
  <1> QED BY <1>1, <1>2, <1>3 DEF DepNext

\* What a router that starts leaves alone, and what it empties.
LEMMA RouterStarts ==
  ASSUME StartRouter
  PROVE  /\ toRouter' = <<>>
         /\ UNCHANGED <<accounts, cards, sendline, eof, pc, command, active, user_logged_in,
                        dispensed, toBank, toATM, orphans, debited>>
  BY DEF StartRouter, bankVars, atmVars

LEMMA RouterAnswers == ASSUME AnswersInv, StartRouter PROVE AnswersInv'
  <1>1. Len(toRouter) \in Nat /\ Len(toBank) \in Nat /\ Len(toATM) \in Nat
    BY LengthOfQueue DEF AnswersInv, Sockets
  <1>2. Sockets' /\ Waiting' <= Waiting /\ InFlight' \subseteq InFlight
    BY <1>1, EmptyQueue, RouterStarts DEF AnswersInv, Sockets, Waiting, InFlight
  <1> QED BY <1>2, RouterStarts, StepOfTheNet

LEMMA RouterCash == ASSUME CashInv, AnswersInv', StartRouter PROVE CashInv'
  <1>1. Sockets' /\ Directions' /\ SumTypes' /\ CardTypes' /\ SessionTypes' /\ ConsoleTypes'
    BY RouterStarts, EmptyQueue
       DEF AnswersInv, CashInv, Directions, SumTypes, CardTypes, SessionTypes, ConsoleTypes
  <1>2. Cash(toRouter') = 0 /\ Cash(toRouter) \in Nat /\ Cash(toATM) \in Nat
    BY RouterStarts, CashOfNothing, CashOfSockets DEF CashInv
  <1>3. dispensed' + Cash(toRouter') + Cash(toATM') - debited'
          <= dispensed + Cash(toRouter) + Cash(toATM) - debited
    BY <1>2, RouterStarts DEF CashInv, SumTypes
  <1>4. Flow'
    BY <1>1, <1>3, CashMoves DEF CashInv, Flow
  <1> QED BY <1>1, <1>4 DEF CashInv, Flow

LEMMA RouterNet == ASSUME NetInv, CashInv', StartRouter PROVE NetInv' /\ UNCHANGED Book
  <1>1. RepliesOK'
    BY RouterStarts, EmptyQueue DEF NetInv, RepliesOK
  <1>2. BankInv' /\ UNCHANGED Book
    BY RouterStarts, StepLeavesTable DEF NetInv, BankInv
  <1> QED BY <1>1, <1>2 DEF NetInv

LEMMA StepDeployment ==
  ASSUME [DepNext]_DepVars
  PROVE  /\ AnswersInv => AnswersInv'
         /\ CashInv /\ AnswersInv' => CashInv'
         /\ AtMostTwoPerBin /\ NetInv /\ CashInv' => NetInv'
  BY StepOfTheNetOrRouter, StepAnswers, StepCash, StepNet, RouterAnswers, RouterCash, RouterNet

\* The inductive invariant of the deployment is that of the three programs.
LEMMA DeploymentInvariance ==
  /\ DepSpec => [](AnswersInv /\ CashInv)
  /\ AtMostTwoPerBin => (DepSpec => []NetInv)
  <1>1. DepInit => AnswersInv /\ CashInv /\ NetInv
    BY InitAnswers, InitCash, InitNet DEF DepInit
  <1>2. AnswersInv /\ CashInv /\ [DepNext]_DepVars => AnswersInv' /\ CashInv'
    BY StepDeployment
  <1>3. DepSpec => [](AnswersInv /\ CashInv)
    BY <1>1, <1>2, PTL DEF DepSpec
  <1>4. ASSUME AtMostTwoPerBin PROVE DepSpec => []NetInv
    <2>1. NetInv /\ CashInv' /\ [DepNext]_DepVars => NetInv'
      BY <1>4, StepDeployment
    <2> QED BY <1>1, <1>3, <2>1, PTL DEF DepSpec
  <1> QED BY <1>3, <1>4

\* However the programs are started and stopped, no more datagrams are on the
\* way than commands that wait, or died waiting, for an answer.
THEOREM DeployedAnswersAreCounted == DepSpec => []OneAnswerPerCommand
  <1>1. AnswersInv => OneAnswerPerCommand
    BY DEF AnswersInv
  <1> QED BY <1>1, DeploymentInvariance, PTL

\* However the programs are started and stopped, an ATM that was never stopped
\* in a command takes only answers to the command it waits for.
THEOREM DeployedAnswersAreNotStale == DepSpec => []AnswersBelongToTheCommand
  <1>1. AnswersInv => AnswersBelongToTheCommand
    BY DEF AnswersInv
  <1> QED BY <1>1, DeploymentInvariance, PTL

\* However the programs are started and stopped, the ATM never pays out, and has
\* never on the way to it, more than the bank has debited.
THEOREM DeployedCashCorrect == DepSpec => []CashWasDebited
  <1>1. CashInv => CashWasDebited
    BY DEF CashInv
  <1> QED BY <1>1, DeploymentInvariance, PTL

\* The types of AtmBank hold of the programs as an operator runs them.
THEOREM DeployedTypeCorrect ==
  ASSUME AtMostTwoPerBin
  PROVE  DepSpec => []TypeOK
  <1>1. NetInv => TypeOK
    BY NetTypes
  <1> QED BY <1>1, DeploymentInvariance, PTL

\* As an operator runs it, the bank keeps the book of Ledger: a start of any
\* program but the bank leaves it alone, and a start of the bank empties it.
THEOREM LedgerInTheDeployment ==
  ASSUME AtMostTwoPerBin
  PROVE  DepSpec => Net!Spec
  <1>1. DepInit => Net!Init
    BY BankInitInv DEF DepInit, Init, L!Init, Net!Init
  <1>2. NetInv /\ CashInv' /\ [DepNext]_DepVars => [Net!Next]_Book
    BY StepOfTheNetOrRouter, StepLedger, RouterNet
  <1> QED BY <1>1, <1>2, DeploymentInvariance, PTL DEF DepSpec, Net!Spec

\* As an operator runs it, a balance goes down only by what was typed in a
\* session of its holder.
THEOREM DeployedDebitsCorrect ==
  ASSUME AtMostTwoPerBin, RequestsFit
  PROVE  DepSpec => DebitsWhatWasTyped
  <1>1. NetInv /\ [DepNext]_DepVars => [DebitsAreTyped]_vars
    <2> SUFFICES ASSUME NetInv, [DepNext]_DepVars PROVE [DebitsAreTyped]_vars
      OBVIOUS
    <2>1. CASE [Next]_vars
      BY <2>1, StepDebits
    <2>2. CASE StartRouter
      <3>1. \A u \in Holders : ~ (Account(u)'.balance < Account(u).balance)
        BY <2>2, RouterStarts, AccountType DEF NetInv, BankInv, Holders, Account
      <3> QED BY <3>1 DEF DebitsAreTyped
    <2> QED BY <2>1, <2>2, StepOfTheNetOrRouter
  <1> QED BY <1>1, DeploymentInvariance, PTL DEF DepSpec, DebitsWhatWasTyped, DebitsAreTyped

-----------------------------------------------------------------------------
(* No command is swallowed.                                                 *)

\* The PIN, or the beginning of it, fits the request.
PinsFit == \A u \in User : RoomForArgument("begin-session", u) > 0

\* What the buffer of 256 bytes has room for: names of at most 239 letters.
THEOREM ShortNamesLeaveThePin ==
  ASSUME MessageSize = 256, \A u \in User : NameLength(u) \in 0 .. 239
  PROVE  PinsFit
  <1>1. Prefix("begin-session") = 14
    BY DEF Prefix
  <1>2. ASSUME NEW n \in 0 .. 239 PROVE 256 - 1 - 14 - n - 1 > 0
    OBVIOUS
  <1> QED BY <1>1, <1>2 DEF PinsFit, RoomForArgument, RoomAfter

\* The one request that the bank would not answer is never made.
LEMMA RequestIsAnswered ==
  ASSUME PinsFit, NEW c \in Command
  PROVE  Len(Replies(Request(c))) = 1
  <1>1. CASE c.cmd = "begin-session"
    <2>1. c.user \in User
      BY DEF Command
    <2>2. Request(c).blocks = 3
      BY <1>1, <2>1 DEF PinsFit, Request, BeginRequest
    <2> QED BY <2>2 DEF Replies
  <1>2. CASE c.cmd # "begin-session"
    <2>1. Request(c).cmd # "begin-session"
      BY <1>2 DEF Request, WithdrawRequest, PlainRequest
    <2> QED BY <2>1 DEF Replies
  <1> QED BY <1>1, <1>2

\* The router hands on what it takes, the bank puts an answer in the place of a
\* request.
LEMMA HopsKeepTheCommand ==
  ASSUME PinsFit, CashInv, Route \/ BankReceives
  PROVE  InFlight' # {}
  <1>1. CASE Route
    <2> DEFINE d == Head(toRouter)
    <2>1. \A queue \in {toBank, toATM} : IsQueue(Append(queue, d)) /\ Len(Append(queue, d)) > 0
      BY AppendToQueue, LengthOfQueue DEF CashInv, Sockets
    <2>2. toBank' = Append(toBank, d) \/ toATM' = Append(toATM, d)
      BY <1>1 DEF Route
    <2>3. \E queue \in {toBank', toATM'} : IsQueue(queue) /\ Len(queue) > 0
      BY <2>1, <2>2
    <2>4. \E queue \in {toBank', toATM'} : Range(queue) # {}
      BY <2>3, LengthOfQueue
    <2> QED BY <2>4 DEF InFlight
  <1>2. CASE BankReceives
    <2> DEFINE d == Head(toBank)
               sent == [i \in DOMAIN Replies(d.body) |->
                          Datagram("bank", d.of, Replies(d.body)[i])]
    <2>1. d.of \in Command /\ d.body = Request(d.of)
      BY <1>2, HeadAndTailOfQueue DEF BankReceives, CashInv, Sockets, Directions, Asked
    <2>2. Len(Replies(d.body)) = 1
      BY <2>1, RequestIsAnswered
    <2>3. sent \in Seq({Datagram("bank", d.of, Response(d.body))}) /\ Len(sent) = 1
      BY <2>2, AtMostOneReply DEF Replies
    <2>4. toRouter' = toRouter \o sent
      BY <1>2 DEF BankReceives
    <2> HIDE DEF sent
    <2>5. IsQueue(toRouter) /\ Len(toRouter) \in Nat
      BY LengthOfQueue DEF CashInv, Sockets
    <2>6. IsQueue(toRouter \o sent) /\ Len(toRouter \o sent) = Len(toRouter) + 1
      BY <2>3, <2>5, JoinQueues
    <2>7. ASSUME NEW queue, IsQueue(queue), Len(queue) = Len(toRouter) + 1
          PROVE  Range(queue) # {}
      BY <2>5, <2>7, LengthOfQueue
    <2>8. Range(toRouter') # {}
      BY <2>4, <2>6, <2>7
    <2> QED BY <2>8 DEF InFlight
  <1> QED BY <1>1, <1>2

SwallowsNothing ==
    pc = "recv" /\ InFlight # {} /\ AllUp /\ AllUp'
       => pc' = "ready" \/ (pc' = "recv" /\ InFlight' # {})

LEMMA StepSwallowsNothing ==
  ASSUME PinsFit, CashInv, [DepNext]_DepVars
  PROVE  SwallowsNothing
  <1> SUFFICES ASSUME pc = "recv", InFlight # {}, AllUp, AllUp'
               PROVE  pc' = "ready" \/ (pc' = "recv" /\ InFlight' # {})
    BY DEF SwallowsNothing
  <1>1. CASE UNCHANGED net /\ UNCHANGED pc
    BY <1>1 DEF net, InFlight
  <1>2. CASE InitRuns \/ GoesWrong \/ Operated \/ InputEnds \/ UNCHANGED DepVars
    BY <1>1, <1>2 DEF InitRuns, InitChecks, InitCreatesBank, InitCreatesATM, GoesWrong, InitFails,
                InitKilled, Stop, Operated, InputEnds, Up, BankLocally, BankInputEnds, DepVars, vars, atmVars
  <1>3. CASE Started
    BY <1>3 DEF Started, StartRouter, StartBank, StartATM, Starts, AllUp
  <1>4. CASE Typed
    BY <1>4 DEF Typed, Up, AtThePinPrompt, Sends, RefusePin, BeginSession, EnterPin, Withdraw,
                Balance, EndSession
  <1>5. CASE ATMRuns
    BY <1>5 DEF ATMRuns, Up, ATMReceives, TakeReply
  <1>6. CASE RouterRuns \/ BankRuns
    <2>1. Route \/ BankReceives
      BY <1>6 DEF RouterRuns, BankRuns, Up
    <2>2. UNCHANGED pc
      BY <2>1 DEF Route, BankReceives, atmVars
    <2> QED BY <2>1, <2>2, HopsKeepTheCommand
  <1> QED BY <1>2, <1>3, <1>4, <1>5, <1>6 DEF DepNext, Served

\* While the three programs run, a command that is on its way stays on its way
\* until the ATM has its answer, if the buffer has room for a PIN.
THEOREM CommandsAreNotSwallowed ==
  ASSUME PinsFit
  PROVE  DepSpec => NobodySwallowsACommand
  <1>1. CashInv /\ [DepNext]_DepVars => [SwallowsNothing]_DepVars
    BY StepSwallowsNothing
  <1> QED BY <1>1, DeploymentInvariance, PTL DEF DepSpec, NobodySwallowsACommand, SwallowsNothing
=============================================================================
