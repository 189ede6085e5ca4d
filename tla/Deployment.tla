------------------------------ MODULE Deployment ------------------------------
(* The four programs as an operator runs them: init.c creates the two       *)
(* files, and router, bank and ATM are started and stopped in any order.    *)
(* The ATM and the bank open their file first and exit without it.          *)
(*                                                                          *)
(* A process that is down keeps its variables of AtmBank here although they *)
(* are gone, and datagrams may pile up at a port that nobody has bound: no  *)
(* process sees either, since every start begins with fresh variables and   *)
(* an empty socket.                                                         *)
EXTENDS AtmBank, FiniteSets

ASSUME DeploymentAssumption == NULL \notin {"ok", "exists", "failed", "killed"}

VARIABLES files,    \* which of <init-fname>.bank and <init-fname>.atm exist
          init,     \* where the init program is: "idle", "bank" or "atm" (the
                    \* file it creates next)
          status,   \* how its last run ended: "ok" (0), "exists" (63), "failed" (64),
                    \* "killed", or NULL before the first
          up        \* the processes that run

depVars == <<files, init, status, up>>

DepVars == <<vars, depVars>>

DepInit == Init /\ files = {} /\ init = "idle" /\ status = NULL /\ up = {}

----------------------------------------------------------------------------
(* init.c                                                                   *)

Exits(s) == init' = "idle" /\ status' = s

\* Both names are looked at before the first file is created.
InitChecks ==
    /\ init = "idle"
    /\ \/ files # {} /\ Exits("exists")
       \/ files = {} /\ init' = "bank" /\ UNCHANGED status
    /\ UNCHANGED <<vars, files, up>>

InitCreatesBank ==
    /\ init = "bank"
    /\ files' = files \union {"bank"} /\ init' = "atm"
    /\ UNCHANGED <<vars, status, up>>

InitCreatesATM ==
    /\ init = "atm"
    /\ files' = files \union {"atm"} /\ Exits("ok")
    /\ UNCHANGED <<vars, up>>

\* A mutant: the first file stays when the second cannot be created.
KeepsTheFirst == files

FilesOfAFailure == IF init = "atm" THEN files \ {"bank"} ELSE files

\* fopen fails; the file of the bank is removed again.
InitFails ==
    /\ init \in {"bank", "atm"}
    /\ files' = FilesOfAFailure /\ Exits("failed")
    /\ UNCHANGED <<vars, up>>

InitKilled ==
    /\ init # "idle"
    /\ Exits("killed")
    /\ UNCHANGED <<vars, files, up>>

----------------------------------------------------------------------------
(* router_create, bank_create, atm_create                                   *)

Starts(p) == p \notin up /\ up' = up \union {p} /\ UNCHANGED <<files, init, status>>

\* load_auth_file; without its file the process exits with 64.
StartBank == "bank" \in files /\ Starts("bank") /\ BankDies

StartATM == "atm" \in files /\ Starts("atm") /\ ATMDies

StartRouter ==
    /\ Starts("router")
    /\ toRouter' = <<>>
    /\ UNCHANGED <<bankVars, atmVars, toBank, toATM, orphans, debited>>

Stop(p) ==
    /\ p \in up /\ up' = up \ {p}
    /\ UNCHANGED <<vars, files, init, status>>

Up(p, Action) == p \in up /\ Action /\ UNCHANGED depVars

Typed == Up("atm", AtThePinPrompt \/ Sends)

Operated == Up("bank", BankLocally)

\* From then on the bank runs, replaying its last line, and never looks at its
\* socket again; started anew it has a new stdin.
InputEnds == Up("bank", BankInputEnds)

RouterRuns == Up("router", Route)

BankRuns == Up("bank", BankReceives)

ATMRuns == Up("atm", ATMReceives)

InitRuns == InitChecks \/ InitCreatesBank \/ InitCreatesATM

\* What an operator cannot do without.
Served == RouterRuns \/ BankRuns \/ ATMRuns

Started == StartRouter \/ StartBank \/ StartATM

GoesWrong == InitFails \/ InitKilled \/ \E p \in up : Stop(p)

DepNext ==
    InitRuns \/ Started \/ Typed \/ Operated \/ InputEnds \/ Served \/ GoesWrong

\* Running processes keep running their loops; nobody has to start anything.
\* The bank takes from its socket when stdin has nothing to read: that it does
\* so in the end is an assumption on the operator, who does not type without a
\* pause, and at the end of the input it is not assumed (BankReceives, ~eof).
DepFairness == WF_DepVars(RouterRuns) /\ WF_DepVars(BankRuns) /\ WF_DepVars(ATMRuns)

DepSpec == DepInit /\ [][DepNext]_DepVars /\ DepFairness

----------------------------------------------------------------------------

AllUp == {"router", "bank", "atm"} \subseteq up

\* init.md: when init returns by itself it has created both files (0), or
\* found one and touched none (63), or failed; bank and ATM then find their
\* files both or none.  Only a run that is killed between its two files leaves
\* a bank that starts without an ATM.
InitIsAllOrNothing ==
    /\ status = "ok" => files = {"bank", "atm"}
    /\ init = "idle" /\ Cardinality(files) = 1 => status \in {"exists", "killed"}

\* The bank's stdin is at its end, and what is under way is requests only.
WaitsForADeafBank == eof /\ {d.src : d \in InFlight} = {"atm"}

\* A command that is under way while all three processes run is answered, and
\* the ATM goes back to its prompt, unless one of them stops meanwhile or the
\* bank's stdin ends before the bank has taken the request (what the bank has
\* answered arrives even then); also when the processes were started in another
\* order, were stopped before, or the name and argument of the request did not
\* fit its buffer.  (A request sent while the router or the bank is down is
\* lost, and atm_recv waits.)
EveryCommandIsAnswered ==
    pc = "recv" /\ InFlight # {} /\ AllUp ~> pc = "ready" \/ ~AllUp \/ WaitsForADeafBank

\* The same, step by step: a datagram that is on its way while the ATM waits is
\* passed on, or turned into an answer, or ends the wait; no program that runs
\* swallows it.  (The bank says nothing to a begin-session without its PIN,
\* which a name that is too long would make of it.)
NobodySwallowsACommand ==
    [][pc = "recv" /\ InFlight # {} /\ AllUp /\ AllUp'
         => pc' = "ready" \/ (pc' = "recv" /\ InFlight' # {})]_DepVars

=============================================================================
