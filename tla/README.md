# Verification of Past_Projects in TLA+

The repository holds five independent programs. This directory models the
four that keep state, model-checks the models with TLC and proves with TLAPS, for every value
of the constants: the invariants of the scheduler, its loops and its refinement; the
safety of the hash table, the bank, the ATM and the programs as they are deployed; that of the web server;
and the faithfulness of a 64-bit value representation. Every definition is
translated from the source; `PROJECT.json` maps the definitions to their lines
(a helper without an entry of its own stands for lines of the definition it serves).

## 1. The system and its parts

| Part | State | Operations | What is hard | Status |
|---|---|---|---|---|
| **Tomosulo** (`schedulersim.cpp`, `.hpp`, `schedulersim_driver.cpp`): a simulator of Tomasulo's algorithm | reservation stations (one unified table or one per unit), register alias table, cycle counter, statistics | try_issue, step (clear completed and broadcast, start ready), completed, complete; the driver's issue/step/retry and drain loops | tags name slots that are reused; renaming and write-after-write; loops that change the tables they walk; draining | modelled, checked, proved |
| **ATM_Bank_Prototype, util** (`hash_table.c`, `list.c`) | bins of linked lists, tail pointers, size counters | create, add, find, del | long sequences of legal calls; unsigned counters | modelled, checked, proved |
| **ATM_Bank_Prototype, bank** (`bank.c`, `bank-main.c`) | accounts in the hash table, card files, the last line of input | create-user, deposit, balance at its console; begin-session, withdraw, balance, end-session over the socket | roll-back of a half-created account; INT_MAX; end of input; restart | modelled, checked, proved |
| **ATM_Bank_Prototype, ATM** (`atm.c`, `atm-main.c`) | session (active, user), the command that waits for its answer | begin-session, PIN prompt, withdraw, balance, end-session | untagged datagrams, no timeout, 256-byte buffers, restart while waiting | modelled, checked, proved |
| **ATM_Bank_Prototype, router** (`router-main.c`) | nothing but its socket | forward to the other port | loss | modelled, checked, proved |
| **ATM_Bank_Prototype, init** (`init.c`) | two files | check, create the bank's, create the ATM's | failure or kill between the two; processes started and stopped in any order around it | modelled, checked, proved |
| **SummerCamp** (`summerCampServer.js`) | tasks suspended at an await, one global variable, the MongoDB collection | apply, review, filter by GPA, remove all, stop | interleaving between awaits; failures after the page is sent | modelled, checked, proved |
| **MicroOCaml, language** (`parse.rkt`, `ast.rkt`, `fv.rkt`, `lambdas.rkt`, `interp.rkt`, `interp-prim.rkt`): a small functional language, its parser and its interpreter | environments, closures, exceptions of the host, objects that change, the bytes read and written | parse; interp of every kind of expression and primitive | which clause takes a text; what an exception skips, which clause handles it; the order of effects | modelled, checked |
| **MicroOCaml, compiler** (`compile.rkt`, `compile-ops.rkt`, `assert.rkt`) | registers, stack and heap of the compiled code | compilation of every kind of expression; the instructions that result | offsets into a stack whose height changes on every path; tail calls; rest lists; handler frames | modelled but for overflow and the end of the heap, checked |
| **MicroOCaml, runtime** (`values.c`, `types.h`, `io.c`, `print.c`, `main.c`) | standard input and output, the words of values | wrap and unwrap, read-byte, peek-byte, write-byte, print the result | a byte that equals EOF; tags and shifts; which lists are proper; UTF-8 | modelled but for escapes and names of characters, checked, proved |
| **Cryptography_Exploit** | none | scripts over recorded ciphertext | | not modelled: this development states properties of programs with state |

The parts of one program interact as follows.

* The *driver* of Tomosulo calls the scheduler synchronously; within a step,
  completed slots broadcast to all tables and to the alias table before any
  instruction is started.
* The *ATM* and the *bank* talk through the *router* by UDP datagrams; each
  process is a single loop. The bank's loop serves stdin before its socket.
  The bank and the ATM share the directory of the card files, and each reads at
  its start one of the two files that *init* creates.
* *MicroOCaml* has two implementations of one language: a program is given to
  `interp`, or to `compile` and then to the machine, linked with the runtime in C. One test suite runs over both.
* The handlers of *SummerCamp* share the global `result` and the collection.
  Node runs one handler from one await to the next.

What makes each part correct:

* Tomosulo: every occupied slot stands for one outstanding instruction; every
  waiting source names the producer that program order gives it; the alias
  table names the youngest writer; units are pipelined; the counters measure
  what they are named after; the trace drains; and, above all, the machine
  fires instructions exactly as a machine without slots or tags would.
* Hash table: what is found is what was last stored; nothing stored is lost
  (violated, section 5); counters cannot wrap.
* Bank: its accounts behave as a ledger; an account has its card.
* ATM with bank: an answer belongs to its command; cash that is paid out was
  debited; debits were typed; commands are answered.
* Deployment: init leaves both files or none; whoever starts or stops when,
  a command under way while all three processes run is answered, unless the bank's stdin
  ends before the bank has taken the request.
* MicroOCaml: the parser reads what was written; compiled code answers and
  writes as the interpreter does and leaves the stack as it was; what is printed reads
  back; a word stands for one value and primitives do the same to both; a loop
  of tail calls runs in constant stack; programs end.
* SummerCamp: pages show the data of their own request; removals count once;
  every form is answered, what was confirmed is stored, every client is closed.

## 2. Modules

| Module | Models |
|---|---|
| `ProgramOrder` | trace lines, latencies and the data dependences of program order |
| `Dataflow` | abstract specification: accept in order, fire when producers are done, one start per unit and cycle |
| `Tomasulo` | the scheduler and its driver |
| `SchedulerLoops` | `complete_insts` and `fire_ready` slot by slot, as the code runs them |
| `TomasuloProofs` | the theorems about `Tomasulo` and `SchedulerLoops` |
| `HashTable`, `HashTableUse` | the table as operators on values; any sequence of calls on one table |
| `Customers` | the users, PINs and amounts the bank and the ATM share |
| `Ledger` | abstract specification of the bank |
| `Bank` | the bank process |
| `ATM` | the ATM process |
| `AtmBank` | ATM, router, bank and the sockets between them |
| `Deployment` | init, and the starts and stops of the three processes, around `AtmBank` |
| `SummerCamp` | the web server and its database |
| `HashTableProofs`, `BankProofs`, `AtmBankProofs`, `DeploymentProofs`, `SummerCampProofs` | the theorems about `HashTableUse`, `Bank`, `AtmBank`, `Deployment` and `SummerCamp` |
| `SumLemmas` | sums over finite sets (`SumFunction`), and the smallest member of a set of numbers |
| `Words` | MicroOCaml's values, the words that stand for them, and the primitives that need no heap, on both |
| `WordsProofs` | the theorems about `Words` |
| `Syntax` | abstract syntax; free variables and lambdas of an expression |
| `Parser` | `parse`: from what the reader of Racket gives to the abstract syntax |
| `Runtime` | the byte primitives and the printing of results |
| `Interpreter` | `interp`: what a program means |
| `Compiler` | `compile`: the instructions of a program |
| `Machine` | what the instructions do, one action each |
| `MicroOCaml` | text, parser, compiled code, printed result and interpreter side by side |
| `MC...` | instances of the above for TLC |

### Tomasulo

`pc` is where `main` is: it reads a line, offers it (`Issue`, `IssueFails`),
steps (`StepAfterIssue`), and offers the same line again while it is refused;
after the last line it steps until the tables are empty (`Drain`) and stores
the number of cycles (`SchedulerComplete`). `rest` indexes every entry of every
table by `rat_index`, the number that the code gives its slots; `rat` is the
alias table; `clock` is `current_cycle`, `stats` is `scheduler_stats_t`.
`SchedulerStep` is the whole of `scheduler_step`, the maxima it records
included. It is written with sets (the slots that complete, the slots that
fire); `SchedulerLoops` has the loops, one station after the other and each in slot order, on the
tables they are changing. They are recursive functions: `after[s]` is what the turns up to
that of slot `s` have left. The run `unified` shows in every reachable state that they
compute those sets, and `TomasuloProofs` proves it for every station. `prog`, `firedAt` and `inst` are history.

### Bank, ATM and their composition

A bin of the hash table is the sequence of elements reachable from `head`, the
position of the element that `tail` points to, and the counter. `hash()`
itself is a constant operator: the properties depend only on which names
collide. `Bank` takes one line, or one datagram, per step; creating a user is
one step with two outcomes, since nobody else acts between the insertion into
the table and the roll-back when the card file cannot be created. At the end of
a stdin that is a pipe or a file, `select` keeps reporting it ready, `fgets` fails
unnoticed and the last line is processed again (`ReplayLine`); the socket, which the loop
looks at only when stdin is not ready, is served no more.

`ATM` stops in `atm_recv` (`pc = "recv"`) and at the PIN prompt
(`pc = "pin"`). Its requests are what `snprintf` leaves of them in 256 bytes:
how many blocks, and the first digits of the last. A name that was cut is
nobody's (`NULL`). `AtmBank` joins the processes by three queues. A datagram
may be lost from any of them, and each process may die and start again, with
an empty socket and what it has on disk.

`Deployment` extends `AtmBank` by the file system (`files`), the program counter
and exit status of `init`, and the set `up` of running processes. `InitChecks`
looks at both names before either file is created, `InitFails` is the path on
which `fopen` fails and the bank's file is removed again, `InitKilled` a death
between the two files. Every step of `AtmBank` happens only while its
process is up, the end of the bank's input (`InputEnds`) included, and a start is `BankDies` or `ATMDies` of
`AtmBank`: fresh variables, a new stdin and an empty socket. An ATM or a bank without its file does not start.

### SummerCamp

A handler is a task that moves from `connecting` to `sent`, `answered`,
`closing` and `done`; each action is the code from one await to the next. MongoDB is
not in the repository: its operations take effect at once, between the call
and its answer. A call may throw, with or without its effect (`Throw`), and the
operator may stop the server at any time. `stored` (applications ever inserted)
and `failed` (requests whose handler caught an exception) are history.

### MicroOCaml

`Parser` starts from what the reader of Racket returns: data, symbols, and lists with
or without a symbol behind the dot. `parse_e` has the clauses of `parse-e` with guards
that exclude each other where the code relies on their order; the gensym of a
lambda is its place in the text. `Text` in `MicroOCaml` writes a program out again.

`Interpreter` is a function from programs to answers: a value, `'err`, or a
raised value on its way to a handler (a Racket exception in the code), together with the
world: the objects by their places, so that `vector-set!` is seen through
every reference and `eq?` tells objects apart, the bytes left to read, and the bytes
written. `Compiler` is `compile.rkt` clause by clause, with the same compile-time
environments and tail flags. An instruction stands for one idiom of the assembly
code: "push rax", "load a variable", "assert a procedure and jump to
its code", "install a handler frame". `Machine` runs them: `m` holds the
registers, the stack with its height `rsp`, the heap and the two files; words that were
popped stay in memory below `rsp`, as `raise` may bring them back. A
word of the machine is a type and a number; `Words` says what bits that is, and the invariant
`PrimitivesWorkOnBits` that the machine may leave the bits alone. A label is
named by the place of its expression in the program, which is what `gensym`
is for. The machine is deterministic; a behaviour is the run of one
program, chosen in `Init`, and ends with `outcome` "done", "err" (the runtime's
`raise_error`) or "crash" (a pop from an empty stack, a return into data, a word
followed as a pointer that is none). `Runtime` prints `rax` and the heap as
tokens; characters are printed as the bytes of `utf8_encode_char`.

The recursion over programs uses RECURSIVE operators, so nothing is proved in
these modules; `Words` has none and is where the proofs are.

## 3. Runs

| Run | What it asks | Instance |
|---|---|---|
| `unified` | the invariants of the scheduler; that the recorded schedule is legal and never slower than a serial one; that its loops compute the sets of the model | one station of 3; every trace of up to 4 lines with two sources or none over 2 registers, two units with latencies 1 and 3 |
| `per_unit` | refinement of `Dataflow`; every trace drains or is refused, every entry is freed; the statistics of `output/*_a2_d2_m2.out` | the latencies of the source, two entries per station; the traces of `test-traces/` and every trace of up to 3 short lines, one op of no unit among them; 85 cycles |
| `hash_table` | no stale answer, counters cover the bins, when exactly an entry is lost | 3 keys in one bin, a fourth alone; counter up to 6 |
| `hash_table_keeps` | *violation*: an entry that was added is found | the same |
| `bank` | refinement of `Ledger`; accounts have cards | 2 users in one bin, amounts 0, 1, 2, 4 with INT_MAX 3 |
| `bank_eof` | *violation*: balances grow only by typed lines | the same |
| `atm_bank` | answers, cash and debits with losses, restarts and an end of input | 2 users, one with a name of 236 letters; 2 console lines, 5 ATM inputs, 2 faults |
| `deployment` | init is all or nothing; every command under way is answered, unless the bank's input ends first, and no hop swallows it | 2 users, one with a name of 239 letters; 1 console line, 5 ATM inputs, 3 faults (stops, failures and kills of init) |
| `camp` | pages, removals, answers, confirmations and clients | 3 requests of any kind, 2 addresses, failures and stop |
| `micro_ocaml` | the parser reads what was written; compiled code agrees with the interpreter in answer and output; the printed result reads back; primitives work on bits; tail calls keep the stack; programs end | 5614 programs |
| `micro_ocaml_unraised` | *violation*: the agreement for `with-handlers` whose body does not raise | 4 programs |
| `micro_ocaml_bytes` | *violation*: the agreement for an input that holds the byte 255 | 4 programs |

**Why the bounds are enough to be interesting.** Write-after-write
with a reader takes three instructions (two writers of a register, one
reader), and so do two entries that become ready in the same cycle
(a producer and two that wait for it, in a station of three). With a fourth
instruction the station of three is full, so that lines are refused and slots
are reused; in `per_unit` the second of two MEM instructions is refused.
Latencies 1 and 3 let a younger instruction complete first. `MaxCycles` is more than the longest serial execution takes
(`BoundedNext` would stop a run that needs more, and `EveryTraceEndsOrIsRefused` would
then fail). Three colliding keys are the first that expose the tail pointer;
`MaxSize` 6 allows each to be inserted and deleted more than once. INT_MAX 3
is passed by sums of two amounts and by one amount alone. Five inputs at
the ATM are a session with a withdrawal and a second session that meets a stale
answer; two faults are a death and a loss, or the deaths of both sides. The lengths
of names are real: 236 is where `withdraw_message` is full after a
nine-digit amount, 239 where of a PIN only the first digit is left, which the bank answers with an
empty response, and from 240 on the PIN is gone and nothing is answered (section 5).
`deployment` has 239, the last length for which `EveryCommandIsAnswered` is true. Three faults there are a stop, and an init that failed or was killed
before or after it. Three requests are an insertion and two that read or remove it; requests
differ in nothing but their forms, so `MCSummerCamp` submits them in one order.
The programs of `MCMicroOCaml` are every primitive over every kind of
operand, every kind of expression, and most of them again as operands of the others;
each as global code, in the body of a lambda, of a definition with
a rest parameter and of a closure over its variable, since those are the
surroundings for which the compile-time environment and the tail flag differ. Loops by tail
calls take 1 to 8 rounds; 22 words is the most that any of them reaches, and
one round more by calls that are no tail calls exceeds it. The programs with effects read three bytes
of which one is 254 and one 128, write, and change objects that they share. `Half`, 2^63 in the
program, is 2^29, since TLC's integers have 32 bits: all characters and every number of these
programs fit, and the theorems of `WordsProofs` hold for every `Half`. Exceptions cross up to
three handlers. What the compiler is known to get wrong
(section 5) is left out of these programs, and is named there.
`Permutations` is used where the constants are interchangeable and only safety
is checked.

**Deadlock** is not checked where the system may rightly stop: the driver ends,
people stop typing, all requests are served.

**Fairness.** The driver is a loop that never waits: weak fairness of its
next-state action. The loops of router, bank and ATM never end and wait
only for datagrams that are there: weak fairness of `Route`, `BankReceives`
and `ATMReceives` in `deployment`, while their process is up; none for anything a person types, and nothing
makes anyone start a process. The bank serves stdin first and its socket only when stdin has nothing to read.
While stdin is open, `BankReceives` is weakly fair under an assumption on the operator, who types whole lines
and not without a pause. At the end of a stdin that is a pipe or a file stdin is always ready, and no fairness helps: the
guard `~eof` of `BankReceives` is false until the bank is started again. `EveryCommandIsAnswered` excepts exactly
that (`WaitsForADeafBank`: the input has ended and only requests are under way); an answer that the bank has
sent still has to arrive. Replays are not bounded in that run. Node's event loop runs every callback whose call has
been answered, and the database answers or the call throws:
weak fairness of `Proceeds`. A processor executes the next instruction: weak
fairness of `Step \/ Halt`. No fault is ever fair.

## 4. Theorems

`TomasuloProofs` proves, for any set of registers, any latencies of at least
one cycle, any station sizes (zero included), both kinds of station and any
trace, the theorems below. The assumptions are `ProgramOrderAssumption` and
`TomasuloAssumption`, which say no more than this.

* `TypeCorrect`, `SlotsCorrect`, `RenamingCorrect`, `AliasTableCorrect` and
  `PipeliningCorrect`: the five invariants of the run `unified` of the same names.
* `Invariance`: their conjunction with two more, `EntriesInOwnTable` and
  `FiredInThePast`, is inductive.
* `DataflowRefinement`: `Spec => DF!Spec`.
* `StatisticsCorrect`: the maxima the program reports never exceed what its three
  units can do. Beside the invariance it needs that only entries of a unit fire
  (`FiredAreUnits`); the counted slots then map one to one into the units, for the
  starts and the completions of a cycle, and into pairs of a unit and a stage.
* `CyclesCorrect`: each cycle is an accepted instruction or a counted stall,
  assuming that the station is unified or that every line of the trace has a
  unit: with separate stations an `op` of no unit is refused without a stall.

* `ScheduleCorrect`: in the history of a run no instruction starts before its producers in
  program order have been in their units for their latency, and no unit takes two in one cycle. It is the
  invariance seen from the end: it goes on speaking of instructions whose slots were reused long ago.
* `SerialBound`: with a station of at least one entry for every line, the clock never passes
  the serial time, a cycle to accept each line and then its latency. This is the safety half of
  `EveryTraceEndsOrIsRefused`, as a number: a lost broadcast, or a unit left idle, breaks it. A
  station of a single entry takes exactly that long.
* `CompletionLoopCorrect` and `FiringLoopCorrect`: in every reachable state the loops of the code,
  run slot by slot, compute the sets that `SchedulerStep` is written with.

None of the five is inductive alone. That a waiting source names its producer
after a step needs that the producer's slot really holds it
(`SlotsHoldOutstanding`), and that the alias table, from which the tag came,
named the youngest writer (`RatNamesYoungestWriter`). That two instructions of
a unit never start in the same cycle needs that entries of one unit share a
table (`EntriesInOwnTable`: `fire_ready` keeps its flags per table), and
that nothing has fired in the future (`FiredInThePast`). The proof of the step has
one lemma per part (`StepTypeOK`, `StepSlots`, `StepSources`, `StepRat`,
`StepUnits`), as has the proof of `Issue`; all rest on lemmas about the last
writer in program order (`ProducerIsUnique`, `ProducerAfterAppend`).

For the refinement, `ReadyIsDataflow` shows that an entry is ready in the tables
exactly when its instruction may fire in `Dataflow`, and `ReadyUnitFires` that a
unit with a ready entry starts one. A step of the scheduler is then a
`Tick`, an issue is an `Accept`, and everything else stutters.

For the serial bound, every instruction pays for cycles (`Paid`): one when it starts, one for each cycle in
its unit, never more than its price of one and its latency. `OldestFires`: when no instruction is in a unit,
the oldest that waits has nobody to wait for, and starts. So in every cycle in which main steps somebody pays
(`StepPays`), and the clock is at most what has been paid (`SerialInv`); `SumGrows` adds it up.
That main steps only when a table has an entry is the other half of the invariant (`DriverInv`).

For the loops, a recursive function is unique (`CompletionLoop`, `FiringLoop`: the first slot where
two solutions differ would be a contradiction), so it is enough that a closed form satisfies the
equation of each turn. `CompletedUpTo(s)` and `FlaggedUpTo(lo, s)` are the closed forms, `CompletionTurn` and
`FiringTurn` the turns. That the broadcast of a slot never reaches one that the same loop completes
needs an invariant, `FiredAreReady` (`FiredCorrect`): what is in a unit waits for nothing. That the flags pick
the first ready entry of a unit (`FlagPicksFirst`) needs that flags and rivals have
the same scope, a station (`Stations`, `FlagsDown`).

`WordsProofs` proves, for every `Half` that is a multiple of 32 and more than 32 times the
number of code points (`HalfAssumption`; 2^63 is one), for all values and without a bound:

* `ValuesComeBack`: `val_typeof` and the unwrap functions take every word back to
  the value it was made of. Each kind of value has a lemma that computes the residue of
  its words modulo 8, 16 and 32, which is all that the masks look at; the
  kinds are told apart because the residues differ.
* `EqComparesValues`: so `eq?` on words is equality of values, objects by their address.
* `OnePrimitiveWorksOnBits`, `TwoPrimitiveWorksOnBits`: the assertions of `assert.rkt` pass a
  word exactly if its value has the type, and the instructions of a primitive
  leave the word of its result. The results of arithmetic are words by `val_wrap_int`,
  whatever they come to; additions and subtractions commute with `Signed` since
  both are taken modulo 2 * Half.
* `IntegersWrap`: after an overflow the word is still an integer, the result
  modulo 2^60. The interpreter's integers go on: this is where the two differ.
* `CharactersComeBack`: the bytes of `utf8_encode_char` decode to the character, on each of its four branches.

The invariant `PrimitivesWorkOnBits` of the run `micro_ocaml` says the same of the values
that occur in its programs; the theorems rest on no program and no bound.

`SumLemmas` proves about the sums of the community modules what the next proofs need: a sum
does not depend on the order, and changes by what one term changes (`SumAfterChange`,
`SumWithLast`, `SumWithoutOne`, `SumOfPart`), and grows with its terms (`SumIsMonotone`, `SumGrows`). The sum is a fold, whose definition the provers
see; an induction over it is done without the library's induction theorem, by the smallest size of a
set for which the claim fails (`SmallestNumber`).

`HashTableProofs`, for any keys, values and hash function (`HashTableUseAssumption`:
a key has a bin, the bins are finitely many, NULL is no value):

* `AnswersCorrect`: a lookup answers NULL or the value last inserted. The invariant says
  of each bin that its keys belong there, each once, with the value of `last`, and that
  `tail` is inside the list. It holds without a bound on the keys of a bin: an addition
  that unlinks entries (section 5) loses them but never brings back an old one.
* `CountersCorrect`: a bin's counter is never behind its list, and the total is the sum of the
  counters. Behind, never equal: an unlinked entry stays counted.
* `LossesCorrect`: a table that has every entry loses one exactly by the insertion of a new key into a bin
  whose `tail` is not its last element. `HeldAfterAdd` and `HeldAfterDelete` say which keys a list
  holds after `list_add` and `list_del`; with the invariant, to hold a key is to find its last value (`KeepsIsComplete`).
* `KeepsWithoutCollisions`: so the table keeps every entry if no two keys share a bin. Two are enough to lose one: when
  the first of them is deleted, `tail` is NULL before a list that is not empty, and the next insertion drops the
  second. The bank only deletes what it has just added, which is why two names per bin are safe there (`BankProofs`).

`BankProofs`, for any users, PINs, amounts and `INT_MAX`, assuming that no three names share
a bin (`AtMostTwoPerBin`; with three the finding of section 5 strikes) and that NULL
is no account (`BankAssumption`):

* `LedgerRefinement`: `BankSpec => L!Spec`. On a bin of at most two entries `tail` stays
  on the first, so that an addition is an append (`AddToList`) and the roll-back of a
  creation gives the table back, counters included (`DeleteFromTable`); a write through
  the pointer of a lookup changes one account (`OverwriteInTable`). A step then is
  an `Open`, `Deposit`, `Withdraw` or `Restart` of the ledger, or a stutter.
* `CardsCorrect`: every account has a card with its PIN; inductive with the shape of the
  table and of `sendline`, whose line is run again at the end of the input.
* `CreditsCorrect`: whoever opens an account or gains does so by the line the bank executes, and
  gains exactly what it says; at the end of the input that line is still the last one typed. It
  bounds what `bank_eof` finds: the repetition is the only way that money comes from nowhere.

`AtmBankProofs`, for any users, name lengths, buffer size, losses and restarts:

* `AnswersAreCounted` and `AnswersAreNotStale`. The two invariants are inductive only
  together: an ATM that starts to wait finds every queue empty because the first
  counts them, and so the second holds of the datagram it sends. Two lemmas cover most steps:
  one for those of the network, one for those that bring the ATM to its prompt.
* `CashCorrect`. The invariant (`CashInv`) adds what is where: requests wait for the bank, answers
  for the ATM, and a request is `Request` of a command that was typed. A step then moves cash
  between the queues, the ATM and the debits, and `CashMoves` says which moves keep the claim.
  It holds also for colliding names and cut amounts (`ATMAssumption`: NULL is no command).
* `NetTypeCorrect` and `LedgerInTheNet`, for at most two names in a bin: the lemmas of `BankProofs`
  about one request hold of any request (`IsRequest`), and `BankInTheNet` shows that only such
  arrive. The ledger behind the ATM takes any amount, since a cut amount need not be
  one that anybody typed.
* `DebitsCorrect`, for at most two names in a bin and if `RequestsFit`: no amount loses digits
  that still fits at all. `ShortRequestsFit` says when: with 256 bytes, names of at most 235 letters and amounts of
  at most ten digits (an int has no more). From 236 letters on an amount of ten digits no
  longer fits, and the claim is false (section 5); the run `atm_bank` has such a name, with amounts of one and
  of nine digits, which fit.
* `NetCreditsCorrect` is its counterpart: no request, whole or cut, and no loss, late answer or
  death of a process gives anybody money.

`DeploymentProofs`, about the programs as an operator runs them:

* `InitCorrect`, from where `init` stands between its two files
  (`DeploymentAssumption`: NULL is no exit status).
* `DeployedAnswersAreCounted`, `DeployedAnswersAreNotStale`, `DeployedCashCorrect`, `DeployedTypeCorrect`,
  `LedgerInTheDeployment` and `DeployedDebitsCorrect`: what `AtmBankProofs` says, however the programs are started
  and stopped. A step of the deployment is one of `AtmBank` (`StepOfTheNetOrRouter`) but for one: a router that
  starts loses all that waited for it at once.
* `CommandsAreNotSwallowed`: while the three programs run, what is under way stays under way, as request or as
  answer, until the ATM returns to its prompt: the safety half of `EveryCommandIsAnswered`. It rests on what
  `CashInv` says of the requests that wait for the bank, and on `PinsFit`: a begin-session without its PIN is the one
  request that the bank does not answer. `ShortNamesLeaveThePin`: names of at most 239 letters satisfy it.

`SummerCampProofs`, for any number of requests, addresses and GPAs:

* `TypeCorrect` and `ReviewsCorrect`: beside the types, the invariant says that a form is
  there before anything else of a task, and that the reply to a review, while its
  handler has not resumed, is a stored application of the form's address (`AnswersMatch`).
  `Resume` assigns and reads `result` in one step; a proof with an await between
  the two would need that nobody else assigns it, which is false.
* `RemovalsCorrect`. The invariant (`CountsOnce`) counts: what the replies to the removals say was
  removed, whether their handlers have resumed or not, with what is still in the collection, is
  at most what was inserted. `SumAfterChange` does the step of each action.
* `FinishedCorrect`: a handler that has closed its client without an exception has stored the application it
  confirmed, or its page is what the database answered to this very request: the safety half of
  `EveryFormIsAnswered` and `ConfirmedIsStored`. The invariant (`Behind`) says what each place of a handler has behind it.

Only model-checked: liveness, which is out of the prover's reach; the statistics of the recorded
traces (`PrintsExpectedStatistics`), which are about three given inputs; and of MicroOCaml everything
but `Words`, since its parser, interpreter and compiler recur over programs with RECURSIVE operators.

## 5. What the runs found

* `hash_table_keeps`: `list_add` never advances `tail` (`list.c:59`), so a
  third entry of a bin drops the second; and `list_del` of the element of `tail` moves it back (`list.c:78`), so
  that after it a second is dropped as well. `hash_table.h:2` promises a map.
* `bank_eof`: the result of `fgets` is unchecked (`bank-main.c:41`); when stdin
  is a pipe or a file, its last line is executed over and over after its end, and no request is served any more.
* `micro_ocaml_unraised`: a `with-handlers` whose body returns normally adds 8 to
  `rsp` although nothing was left on the stack (`compile.rkt:370`; a handler
  leaves a word, the body does not). At the top level the program then returns to
  a wrong word; inside another expression operands are lost.
* `micro_ocaml_bytes`: `read_byte` and `peek_byte` keep the result of `getc` in a `char`
  (`io.c:10`), where the byte 255 is EOF; the interpreter reads 255.

Seen while reading, without a run of their own:

* ATM and bank. For names of 240 to 250 letters, which `atm.md:46` calls
  valid, begin-session loses its PIN, the bank does not answer a request of
  two blocks, and the ATM waits for ever (`atm.c:180`). A ten-digit amount loses a digit when the
name has 236 letters, so that what is debited is not what was typed (`atm.c:223`).
* SummerCamp. The applicant is told that the task is completed before the
  insertion is awaited; when it fails nobody learns. A GPA is compared with the threshold as a string (`summerCampServer.js:127`).
A second application is inserted beside the first and the review shows the first
(`:83`).
* Tomasulo. An op of no unit is refused for ever with one station per unit
(`schedulersim.cpp:328`).
* MicroOCaml, each seen in a trace of the model as well. `raise` rewinds the stack
  before it evaluates its operand, which then reads its variables two words off,
  and evaluates it once for every frame (`compile.rkt:283`). `r14` is not
  restored when a handler has run, so that a `raise` in a handler, or after a
  handled one, finds the same frame again and goes round for ever. The clauses of one
  `with-handlers` are tried from the last (`interp.rkt:146` begins with the first).
  The list of an `apply` in tail position is compiled as a tail
  expression: a call there drops the frame under construction. An
  `apply` to an improper list follows a word that is no pair. `integer->char`
  refuses 55295 and 57344 (`assert.rkt:53`). When the operand of a `raise` is an
  error, `interp` hands `'err` to the handlers. `fv` and `lambdas` skip the
  arguments of an `apply`, so its variables must occur elsewhere to be captured.
  Integers wrap modulo 2^60 in compiled code only. A void inside a list is printed as
  nothing. `eq?` answers differently on two mentions of a defined function, on equal
  string literals and on empty vectors, which compiled code represents by the same word or makes anew.

## 6. What is left out (not modelled)

Formatting, option parsing and the reports. Lines refused for their form, which
have no effect. Lines longer than the line buffers, and register numbers outside
the alias table: the code has no defined outcome for them. Memory exhaustion
and failures of `socket` and `bind` at the start. Of MicroOCaml: integers that
overflow (the theorem `IntegersWrap` says what they become), the end of the heap, which
the code does not look for, and variables without a binding (the compiler refuses them, the
interpreter answers `'err`). The reader of Racket is external. Of `print.c`, lines 127-783
are the escapes of strings and 785-809 the names of characters: tables, left out as data. `char.c`
is not linked, `main.c` calls the entry and prints. Recorded results, traces, figures and
binaries are data; `plot_experiment_results.py` and the scripts of
Cryptography_Exploit keep no state; the page templates are text.

## 7. Plan

Done, in this order: `ProgramOrder`, `Dataflow`, `Tomasulo`, `SchedulerLoops`,
`TomasuloProofs`; `HashTable`, `Ledger`, `Bank`, `ATM`, `AtmBank`; `SummerCamp`;
`Syntax`, `Interpreter`, `Compiler`, `Machine`, `MicroOCaml`; `Deployment`; the effects of
MicroOCaml, `Runtime`, `Words`, `WordsProofs`, `Parser`.

The proofs, in this order: the invariants and the refinement of `Tomasulo`; `WordsProofs`;
`StatisticsCorrect`, `CyclesCorrect`, `HashTableProofs`, `BankProofs`, `AtmBankProofs`,
`DeploymentProofs`, `SummerCampProofs`; `SumLemmas` and what rests on it (`CountersCorrect`,
`CashCorrect`, `RemovalsCorrect`); `NetTypeCorrect`, `LedgerInTheNet`, `DebitsCorrect`; the
loops of `SchedulerLoops`; the theorems of the deployment.

Last: `ScheduleCorrect` and `SerialBound`; `LossesCorrect` and `KeepsWithoutCollisions`;
`CommandsAreNotSwallowed`; `FinishedCorrect`; `CreditsCorrect` and `NetCreditsCorrect`.

Open: a bound on the stack of the compiled code that holds for every program, which needs `Compiler` and `Machine`
without RECURSIVE operators, and a run of the overflow of integers.
