-------------------------- MODULE SummerCampProofs --------------------------
(***************************************************************************)
(* Proofs about SummerCamp, for any number of overlapping requests, any     *)
(* addresses and GPAs, failures of the database and the stop command.      *)
(***************************************************************************)
EXTENDS SummerCamp, SumLemmas

-----------------------------------------------------------------------------
(* Lemmas about the collection.                                            *)

\* A nonempty set of positions has a least one, which Min chooses.
LEMMA MinOfPositions ==
  ASSUME NEW S \in SUBSET Nat, S # {}
  PROVE  Min(S) \in S
  BY SmallestNumber DEF Min

\* findOne finds nothing, or a document of the collection with the address.
LEMMA FindOneFinds ==
  ASSUME NEW email
  PROVE  \/ findOne(email) = NULL
         \/ \E i \in 1 .. Len(applicants) :
              findOne(email) = applicants[i] /\ applicants[i].email = email
  <1> DEFINE I == {i \in 1 .. Len(applicants) : applicants[i].email = email}
  <1>1. CASE I = {}
    BY <1>1 DEF findOne, SelectInSeq
  <1>2. CASE I # {}
    <2>0. I \in SUBSET Nat
      OBVIOUS
    <2>1. Min(I) \in I
      <3> HIDE DEF I
      <3> QED BY <1>2, <2>0, MinOfPositions
    <2>2. findOne(email) = applicants[Min(I)]
      BY <1>2, <2>1 DEF findOne, SelectInSeq
    <2> QED BY <2>1, <2>2
  <1> QED BY <1>1, <1>2

-----------------------------------------------------------------------------
(* The inductive invariant.                                                *)

Applicant == [id : stored, email : Email, gpa : Gpa]

\* TypeOK, with the functions and the sequence as such.
Types ==
    /\ task \in [Request -> [at : {"none", "connecting", "sent", "answered", "closing", "done"},
                             form : Form \union {NULL}]]
    /\ reply = [r \in Request |-> reply[r]]
    /\ page = [r \in Request |-> page[r]]
    /\ applicants \in Seq(Applicant)
    /\ stored \subseteq Request /\ failed \subseteq Request /\ up \in BOOLEAN

\* A task has a form from its start on, and no page before.
FormsComeFirst ==
    \A r \in Request : IF At(r, "none") THEN page[r] = NULL ELSE task[r].form \in Form

\* The application is stored and its address is that of the form of r.
Matches(r, doc) == doc # NULL => doc.id \in stored /\ doc.email = task[r].form.email

\* What the database answered to a review, while its handler has not resumed.
\* Other handlers assign result meanwhile; none touches this reply.
AnswersMatch ==
    \A r \in Request :
        At(r, "answered") /\ task[r].form.kind = "review" => Matches(r, reply[r].doc)

IInv == Types /\ FormsComeFirst /\ AnswersMatch /\ ReviewsShowTheirOwn

LEMMA InitIInv == Init => IInv
  <1> SUFFICES ASSUME Init PROVE IInv
    OBVIOUS
  <1>1. Types
    BY DEF Init, Types
  <1>2. FormsComeFirst /\ AnswersMatch /\ ReviewsShowTheirOwn
    BY DEF Init, FormsComeFirst, AnswersMatch, ReviewsShowTheirOwn, At
  <1> QED BY <1>1, <1>2 DEF IInv

\* The effect of an operation: the collection stays one of stored applications
\* and no application is forgotten to have been stored.
LEMMA EffectKeepsTypes ==
  ASSUME Types, FormsComeFirst, NEW r \in Request, ~At(r, "none"), Effect(r)
  PROVE  /\ applicants' \in Seq(Applicant')
         /\ stored \subseteq stored' /\ stored' \subseteq Request
  <1>1. stored \subseteq stored' /\ stored' \subseteq Request
    BY DEF Effect, Types
  <1>2. Applicant \subseteq Applicant'
    BY <1>1 DEF Applicant
  <1>3. applicants \in Seq(Applicant')
    BY <1>2 DEF Types
  <1>4. CASE task[r].form.kind = "apply"
    <2>1. task[r].form \in [kind : {"apply"}, email : Email, gpa : Gpa]
      BY <1>4 DEF FormsComeFirst, Form
    <2>2. Document(r) \in Applicant'
      BY <1>4, <2>1 DEF Document, Applicant, Effect
    <2>3. applicants' = Append(applicants, Document(r))
      BY <1>4 DEF Effect
    <2> QED BY <1>1, <1>3, <2>2, <2>3
  <1>5. CASE task[r].form.kind # "apply"
    <2>1. applicants' = <<>> \/ applicants' = applicants
      BY <1>5 DEF Effect
    <2>2. <<>> \in Seq(Applicant')
      OBVIOUS
    <2> QED BY <1>1, <1>3, <2>1, <2>2, Zenon
  <1> QED BY <1>4, <1>5

\* How far one step takes a task, the same for every action of a handler.
LEMMA StepTypes ==
  ASSUME Types, FormsComeFirst, [Next]_vars
  PROVE  /\ Types' /\ stored \subseteq stored'
         /\ \A r \in Request : ~At(r, "none") =>
              ~At(r, "none")' /\ task'[r].form = task[r].form
  <1> USE DEF At, Goto
  <1>1. ASSUME NEW r \in Request, NEW form \in Form, Submit(r, form)
        PROVE  Types' /\ stored = stored'
               /\ \A q \in Request : q # r => task'[q] = task[q]
    BY <1>1 DEF Submit, Types, Applicant
  <1>2. ASSUME NEW r \in Request, Connected(r) PROVE Types' /\ stored = stored'
    BY <1>2 DEF Connected, AfterConnect, Types, Applicant
  <1>3. ASSUME NEW r \in Request, Mongo(r) PROVE Types' /\ stored \subseteq stored'
    <2>1. applicants' \in Seq(Applicant') /\ stored \subseteq stored' /\ stored' \subseteq Request
      BY <1>3, EffectKeepsTypes DEF Mongo
    <2> QED BY <1>3, <2>1 DEF Mongo, Types
  <1>4. ASSUME NEW r \in Request, Resume(r) PROVE Types' /\ stored = stored'
    BY <1>4 DEF Resume, Types, Applicant
  <1>5. ASSUME NEW r \in Request, Throw(r) PROVE Types' /\ stored \subseteq stored'
    <2>1. applicants' \in Seq(Applicant') /\ stored \subseteq stored' /\ stored' \subseteq Request
      <3>1. CASE Effect(r)
        BY <1>5, <3>1, EffectKeepsTypes DEF Throw
      <3>2. CASE UNCHANGED <<applicants, stored>>
        BY <3>2 DEF Types, Applicant
      <3> QED BY <1>5, <3>1, <3>2 DEF Throw
    <2> QED BY <1>5, <2>1 DEF Throw, AfterCatch, Types
  <1>6. ASSUME NEW r \in Request, Close(r) PROVE Types' /\ stored = stored'
    BY <1>6 DEF Close, Types, Applicant
  <1>7. CASE Stop \/ UNCHANGED vars
    BY <1>7 DEF Stop, vars, Types, Applicant
  <1>8. ASSUME NEW r \in Request, Proceeds(r) \/ Throw(r)
        PROVE  \A q \in Request : ~At(q, "none") =>
                 ~At(q, "none")' /\ task'[q].form = task[q].form
    BY <1>8 DEF Proceeds, Connected, AfterConnect, Mongo, Resume, Close, Throw, AfterCatch, Types
  <1>9. ASSUME NEW r \in Request, NEW form \in Form, Submit(r, form)
        PROVE  \A q \in Request : ~At(q, "none") =>
                 ~At(q, "none")' /\ task'[q].form = task[q].form
    BY <1>9, <1>1 DEF Submit, Types
  <1> QED
    BY <1>1, <1>2, <1>3, <1>4, <1>5, <1>6, <1>7, <1>8, <1>9
    DEF Next, Proceeds, Stop, vars

\* The form of a task is given before anything else happens to it; the page of
\* an application follows at once.
LEMMA StepForms ==
  ASSUME Types, FormsComeFirst, [Next]_vars
  PROVE  FormsComeFirst'
  <1> SUFFICES ASSUME NEW q \in Request
               PROVE  IF At(q, "none")' THEN page'[q] = NULL ELSE task'[q].form \in Form
    BY DEF FormsComeFirst, At
  <1> USE DEF At, Goto
  <1>1. CASE ~At(q, "none")
    BY <1>1, StepTypes DEF FormsComeFirst
  <1>2. CASE At(q, "none")
    <2>1. ASSUME NEW r \in Request, NEW form \in Form, Submit(r, form)
          PROVE  IF At(q, "none")' THEN page'[q] = NULL ELSE task'[q].form \in Form
      <3>1. task' = [task EXCEPT ![r] = [at |-> "connecting", form |-> form]]
            /\ (q # r => page'[q] = page[q])
        BY <2>1 DEF Submit, Types
      <3> QED BY <1>2, <3>1 DEF Types, FormsComeFirst
    <2>2. ASSUME NEW r \in Request, Proceeds(r) \/ Throw(r)
          PROVE  task'[q] = task[q] /\ page'[q] = page[q]
      <3>1. q # r
        BY <1>2, <2>2 DEF Proceeds, Connected, Mongo, Resume, Close, Throw
      <3> QED BY <2>2, <3>1 DEF Proceeds, Connected, Mongo, Resume, Close, Throw, Types
    <2>3. CASE Stop \/ UNCHANGED vars
      BY <1>2, <2>3 DEF Stop, vars, FormsComeFirst
    <2> QED BY <1>2, <2>1, <2>2, <2>3 DEF Next, FormsComeFirst
  <1> QED BY <1>1, <1>2

\* A document keeps matching a form that stays what it is.
LEMMA MatchesStays ==
  ASSUME NEW r \in Request, NEW doc, Matches(r, doc),
         stored \subseteq stored', task'[r].form = task[r].form
  PROVE  Matches(r, doc)'
  BY DEF Matches

\* Only the database answers, and it answers a review with a document that is
\* stored under the address of the form.
LEMMA StepAnswers ==
  ASSUME Types, FormsComeFirst, AnswersMatch, [Next]_vars
  PROVE  AnswersMatch'
  <1> SUFFICES ASSUME NEW q \in Request, At(q, "answered")', task'[q].form.kind = "review"
               PROVE  Matches(q, reply[q].doc)'
    BY DEF AnswersMatch
  <1>1. CASE At(q, "answered") /\ reply'[q] = reply[q]
    <2>1. stored \subseteq stored' /\ task'[q].form = task[q].form
      BY <1>1, StepTypes DEF At
    <2>2. Matches(q, reply[q].doc)
      BY <1>1, <2>1 DEF AnswersMatch
    <2> QED BY <1>1, <2>1, <2>2 DEF Matches
  <1>2. ASSUME Mongo(q) PROVE Matches(q, reply[q].doc)'
    <2>1. task'[q].form = task[q].form /\ task[q].form.kind = "review"
      BY <1>2 DEF Mongo, Goto, Types
    <2>2. reply'[q].doc = findOne(task[q].form.email) /\ stored' = stored
      BY <1>2, <2>1 DEF Mongo, Answer, Effect, Types
    <2>3. Matches(q, findOne(task[q].form.email))
      <3>1. \A i \in 1 .. Len(applicants) : applicants[i].id \in stored
        <4>1. \A i \in 1 .. Len(applicants) : applicants[i] \in Applicant
          BY DEF Types
        <4> QED BY <4>1 DEF Applicant
      <3> QED BY <3>1, FindOneFinds DEF Matches
    <2> QED BY <2>1, <2>2, <2>3 DEF Matches
  <1>3. Mongo(q) \/ (At(q, "answered") /\ reply'[q] = reply[q])
    <2>1. ASSUME NEW r \in Request, NEW form \in Form, Submit(r, form)
          PROVE  At(q, "answered") /\ reply'[q] = reply[q]
      BY <2>1 DEF Submit, At, Types
    <2>2. ASSUME NEW r \in Request, Proceeds(r) \/ Throw(r)
          PROVE  Mongo(q) \/ (At(q, "answered") /\ reply'[q] = reply[q])
      BY <2>2 DEF Proceeds, Connected, AfterConnect, Mongo, Resume, Close, Throw, AfterCatch,
                  At, Goto, Types
    <2>3. CASE Stop \/ UNCHANGED vars
      BY <2>3 DEF Stop, vars, At
    <2> QED BY <2>1, <2>2, <2>3 DEF Next
  <1> QED BY <1>1, <1>2, <1>3

\* A page is made from the reply to its own request: result, which all reviews
\* share, is assigned and read without an await in between.
LEMMA StepPages ==
  ASSUME Types, FormsComeFirst, AnswersMatch, ReviewsShowTheirOwn, [Next]_vars
  PROVE  ReviewsShowTheirOwn'
  <1> SUFFICES ASSUME NEW q \in Request, page'[q] # NULL, task'[q].form.kind = "review"
               PROVE  Matches(q, page[q].doc)'
    BY DEF ReviewsShowTheirOwn, Matches
  <1>1. CASE page'[q] = page[q]
    <2>1. ~At(q, "none")
      BY <1>1 DEF FormsComeFirst
    <2>2. stored \subseteq stored' /\ task'[q].form = task[q].form
      BY <2>1, StepTypes
    <2> QED BY <1>1, <2>2 DEF ReviewsShowTheirOwn, Matches
  <1>2. ASSUME Resume(q) PROVE Matches(q, page[q].doc)'
    <2>1. task'[q].form = task[q].form /\ task[q].form.kind = "review" /\ stored' = stored
      BY <1>2 DEF Resume, Goto, Types
    <2>2. page'[q].doc = reply[q].doc
      BY <1>2, <2>1 DEF Resume, Renders, Rendered, Found, Types
    <2>3. Matches(q, reply[q].doc)
      BY <1>2, <2>1 DEF Resume, AnswersMatch
    <2> QED BY <2>1, <2>2, <2>3 DEF Matches
  <1>3. Resume(q) \/ page'[q] = page[q]
    <2>1. ASSUME NEW r \in Request, NEW form \in Form, Submit(r, form)
          PROVE  page'[q] = page[q]
      BY <2>1 DEF Submit, Types
    <2>2. ASSUME NEW r \in Request, Proceeds(r) \/ Throw(r)
          PROVE  Resume(q) \/ page'[q] = page[q]
      BY <2>2 DEF Proceeds, Connected, Mongo, Resume, Close, Throw, Types
    <2>3. CASE Stop \/ UNCHANGED vars
      BY <2>3 DEF Stop, vars
    <2> QED BY <2>1, <2>2, <2>3 DEF Next
  <1> QED BY <1>1, <1>2, <1>3

-----------------------------------------------------------------------------
(* The inductive invariant behind RemovalsCountOnce.                       *)

Started == {r \in Request : ~At(r, "none")}

\* What the database reported to a removal, whether or not its handler has
\* resumed and rendered it.
Count(r) ==
    IF reply[r] # NULL /\ task[r].form.kind = "remove" THEN reply[r].numberRemoved ELSE 0

Counts == [r \in Started |-> Count(r)]

\* An operation takes effect, and is answered, once.
FirstTime ==
    \A r \in Request :
        task[r].at \in {"none", "connecting", "sent"} => reply[r] = NULL /\ r \notin stored

RemovalsRenderTheirReply ==
    \A r \in Request :
        page[r] # NULL /\ task[r].form.kind = "remove" => page[r] = reply[r]

CountsOnce ==
    /\ IsFiniteSet(Started) /\ IsFiniteSet(stored)
    /\ \A r \in Started : Count(r) \in Nat
    /\ SumFunction(Counts) + Len(applicants) <= Cardinality(stored)

CountInv == FirstTime /\ RemovalsRenderTheirReply /\ CountsOnce

LEMMA InitCountInv == Init => CountInv
  <1> SUFFICES ASSUME Init PROVE CountInv
    OBVIOUS
  <1>1. FirstTime /\ RemovalsRenderTheirReply
    BY DEF Init, FirstTime, RemovalsRenderTheirReply
  <1>2. Started = {} /\ stored = {} /\ Len(applicants) = 0
    BY DEF Init, Started, At
  <1>3. IsFiniteSet({}) /\ Cardinality({}) = 0
    BY FS_EmptySet
  <1>4. SumFunction(Counts) = 0
    BY <1>2, SumOfNothing DEF Counts
  <1> QED BY <1>1, <1>2, <1>3, <1>4 DEF CountInv, CountsOnce

LEMMA StepFirstTime ==
  ASSUME Types, FirstTime, [Next]_vars
  PROVE  FirstTime'
  <1> USE DEF At, Goto
  <1>1. ASSUME NEW r \in Request, NEW form \in Form, Submit(r, form) PROVE FirstTime'
    BY <1>1 DEF Submit, Types, FirstTime
  <1>2. ASSUME NEW r \in Request, Proceeds(r) PROVE FirstTime'
    BY <1>2 DEF Proceeds, Connected, AfterConnect, Mongo, Effect, Resume, Close, Types, FirstTime
  <1>3. ASSUME NEW r \in Request, Throw(r) PROVE FirstTime'
    BY <1>3 DEF Throw, AfterCatch, Effect, Types, FirstTime
  <1>4. CASE Stop \/ UNCHANGED vars
    BY <1>4 DEF Stop, vars, FirstTime
  <1> QED BY <1>1, <1>2, <1>3, <1>4 DEF Next

\* A removal has no page until its handler resumes.
LEMMA StepRemovalPages ==
  ASSUME Types, FormsComeFirst, FirstTime, RemovalsRenderTheirReply, [Next]_vars
  PROVE  RemovalsRenderTheirReply'
  <1> USE DEF At, Goto
  <1>1. ASSUME NEW r \in Request, NEW form \in Form, Submit(r, form)
        PROVE  RemovalsRenderTheirReply'
    <2>1. /\ task' = [task EXCEPT ![r] = [at |-> "connecting", form |-> form]]
          /\ page[r] = NULL /\ UNCHANGED reply
          /\ page' = IF form.kind = "apply" THEN [page EXCEPT ![r] = form] ELSE page
      BY <1>1 DEF Submit, FormsComeFirst
    <2> QED BY <2>1 DEF Types, RemovalsRenderTheirReply
  <1>2. ASSUME NEW r \in Request, Mongo(r) PROVE RemovalsRenderTheirReply'
    <2>1. /\ reply[r] = NULL /\ UNCHANGED page
          /\ task' = [task EXCEPT ![r].at = "answered"]
          /\ reply' = [reply EXCEPT ![r] = Answer(r)]
      BY <1>2 DEF Mongo, FirstTime
    <2> HIDE DEF Answer
    <2> QED BY <2>1 DEF Types, RemovalsRenderTheirReply
  <1>3. ASSUME NEW r \in Request, Resume(r) PROVE RemovalsRenderTheirReply'
    BY <1>3 DEF Resume, Renders, Rendered, Types, RemovalsRenderTheirReply
  <1>4. ASSUME NEW r \in Request, Connected(r) \/ Close(r) \/ Throw(r)
        PROVE  RemovalsRenderTheirReply'
    BY <1>4 DEF Connected, Close, Throw, Types, RemovalsRenderTheirReply
  <1>5. CASE Stop \/ UNCHANGED vars
    BY <1>5 DEF Stop, vars, RemovalsRenderTheirReply
  <1> QED BY <1>1, <1>2, <1>3, <1>4, <1>5 DEF Next, Proceeds

LEMMA CountsType ==
  ASSUME CountsOnce, Types
  PROVE  /\ Counts \in [Started -> Int] /\ IsFiniteSet(Started)
         /\ SumFunction(Counts) \in Int
         /\ Len(applicants) \in Nat /\ Cardinality(stored) \in Nat
  <1>1. Counts \in [Started -> Int] /\ IsFiniteSet(Started)
    BY DEF CountsOnce, Counts
  <1>2. SumFunction(Counts) \in Int
    <2> HIDE DEF Counts, Started
    <2> QED BY <1>1, SumIsInteger
  <1> QED BY <1>1, <1>2, FS_CardinalityType DEF CountsOnce, Types

\* An insertion adds as much to the collection as to what was ever stored, and
\* a removal empties it.
LEMMA EffectOnTotals ==
  ASSUME Types, FirstTime, CountsOnce, NEW r \in Request, At(r, "sent"), Effect(r)
  PROVE  /\ IsFiniteSet(stored') /\ Cardinality(stored') \in Nat /\ Len(applicants') \in Nat
         /\ Len(applicants') + Cardinality(stored) <= Len(applicants) + Cardinality(stored')
         /\ task[r].form.kind = "remove" => stored' = stored /\ Len(applicants') = 0
  <1>1. /\ Len(applicants) \in Nat /\ Cardinality(stored) \in Nat
        /\ r \notin stored /\ IsFiniteSet(stored)
    BY CountsType DEF FirstTime, At, CountsOnce
  <1>2. CASE task[r].form.kind = "apply"
    <2>1. stored' = stored \union {r} /\ applicants' = Append(applicants, Document(r))
      BY <1>2 DEF Effect
    <2>2. IsFiniteSet(stored') /\ Cardinality(stored') = Cardinality(stored) + 1
      BY <1>1, <2>1, FS_AddElement
    <2>3. Len(applicants') = Len(applicants) + 1
      BY <2>1 DEF Types
    <2> QED BY <1>1, <1>2, <2>2, <2>3
  <1>3. CASE task[r].form.kind = "remove"
    <2>1. stored' = stored /\ Len(applicants') = 0
      BY <1>3 DEF Effect
    <2> QED BY <1>1, <2>1
  <1>4. CASE task[r].form.kind \notin {"apply", "remove"}
    <2>1. stored' = stored /\ applicants' = applicants
      BY <1>4 DEF Effect
    <2> QED BY <1>1, <1>4, <2>1
  <1> QED BY <1>2, <1>3, <1>4

\* Nothing is counted of a task that starts.
LEMMA StepCountsSubmit ==
  ASSUME Types, FirstTime, CountsOnce, NEW r \in Request, NEW form \in Form, Submit(r, form)
  PROVE  CountsOnce'
  <1>1. /\ r \notin Started /\ Started' = Started \union {r} /\ reply[r] = NULL
        /\ UNCHANGED <<reply, applicants, stored>>
        /\ \A q \in Started : task'[q] = task[q]
    BY DEF Submit, Started, At, Types, FirstTime
  <1>2. Count(r)' = 0 /\ \A q \in Started : Count(q)' = Count(q)
    BY <1>1 DEF Count
  <1>3. IsFiniteSet(Started')
    BY <1>1, FS_AddElement DEF CountsOnce
  <1>4. /\ Counts' \in [Started' -> Int] /\ r \in Started' /\ Counts'[r] = 0
        /\ Without(Counts', r) = Counts
    <2>1. Counts' = [q \in Started' |-> Count(q)']
      BY DEF Counts
    <2>2. Started' \ {r} = Started
      BY <1>1
    <2> QED BY <1>1, <1>2, <2>1, <2>2 DEF Without, Counts, CountsOnce
  <1>5. SumFunction(Counts') = SumFunction(Counts)
    <2> DEFINE S == Started'
               f == Counts'
    <2>1. IsFiniteSet(S) /\ f \in [S -> Int] /\ r \in S
      BY <1>3, <1>4
    <2> HIDE DEF S, f
    <2>2. SumFunction(f) = f[r] + SumFunction(Without(f, r)) /\ SumFunction(Without(f, r)) \in Int
      BY <2>1, SumWithout
    <2> QED BY <1>4, <2>2 DEF f
  <1> QED BY <1>1, <1>2, <1>3, <1>5 DEF CountsOnce

\* Steps that leave the replies alone: what is counted stays what it is.
LEMMA StepCountsSame ==
  ASSUME Types, FormsComeFirst, FirstTime, CountsOnce,
         \/ UNCHANGED vars \/ Stop
         \/ \E r \in Request : Connected(r) \/ Resume(r) \/ Close(r) \/ Throw(r)
  PROVE  CountsOnce'
  <1>1. /\ Started' = Started /\ UNCHANGED reply
        /\ \A q \in Request : task'[q].form = task[q].form
    BY DEF vars, Stop, Connected, AfterConnect, Resume, Close, Throw, AfterCatch, Started,
           At, Goto, Types
  <1>2. \A q \in Request : Count(q)' = Count(q)
    BY <1>1 DEF Count
  <1>3. Counts' = Counts
    BY <1>1, <1>2 DEF Counts, Started
  <1>4. IsFiniteSet(Started') /\ \A q \in Started' : Count(q)' \in Nat
    BY <1>1, <1>2 DEF CountsOnce, Started
  <1>5. CASE UNCHANGED <<applicants, stored>>
    BY <1>3, <1>4, <1>5 DEF CountsOnce
  <1>6. ASSUME NEW r \in Request, At(r, "sent"), Effect(r) PROVE CountsOnce'
    <2>1. /\ SumFunction(Counts) \in Int /\ Len(applicants) \in Nat /\ Cardinality(stored) \in Nat
          /\ SumFunction(Counts) + Len(applicants) <= Cardinality(stored)
      BY CountsType DEF CountsOnce
    <2>2. SumFunction(Counts') + Len(applicants') <= Cardinality(stored')
      BY <1>3, <1>6, <2>1, EffectOnTotals
    <2> QED BY <1>4, <1>6, <2>2, EffectOnTotals DEF CountsOnce
  <1> QED BY <1>5, <1>6 DEF vars, Stop, Connected, Resume, Close, Throw

\* What a removal is told to have removed is no longer in the collection.
LEMMA StepCountsMongo ==
  ASSUME Types, FirstTime, CountsOnce, NEW r \in Request, Mongo(r)
  PROVE  CountsOnce'
  <1>1. /\ At(r, "sent") /\ Effect(r) /\ reply[r] = NULL
        /\ reply' = [reply EXCEPT ![r] = Answer(r)]
        /\ task' = [task EXCEPT ![r].at = "answered"]
    BY DEF Mongo, Goto, At, FirstTime
  <1>2. /\ r \in Started /\ Started' = Started
        /\ \A q \in Request : task'[q].form = task[q].form
        /\ \A q \in Request \ {r} : reply'[q] = reply[q]
        /\ reply'[r] = Answer(r)
    BY <1>1 DEF Started, At, Types
  <1>3. Count(r) = 0 /\ \A q \in Started \ {r} : Count(q)' = Count(q)
    BY <1>1, <1>2 DEF Count, Started
  <1>4. /\ Count(r)' \in Nat /\ Count(r)' <= Len(applicants)
        /\ task[r].form.kind # "remove" => Count(r)' = 0
    <2>1. Len(applicants) \in Nat
      BY CountsType
    <2>2. CASE task[r].form.kind = "remove"
      <3>1. Answer(r).numberRemoved = Len(applicants)
        BY <2>2 DEF Answer, DeletedCount
      <3> QED BY <1>2, <2>1, <2>2, <3>1 DEF Count
    <2>3. CASE task[r].form.kind # "remove"
      BY <1>2, <2>1, <2>3 DEF Count
    <2> QED BY <2>2, <2>3
  <1>5. Counts' = [q \in Started |-> Count(q)']
    BY <1>2 DEF Counts
  <1>6. SumFunction(Counts') = SumFunction(Counts) + Count(r)'
    <2> DEFINE f == Counts
               g == Counts'
               S == Started
    <2>1. /\ IsFiniteSet(S) /\ f \in [S -> Int] /\ g \in [S -> Int] /\ r \in S
          /\ f[r] = 0 /\ g[r] = Count(r)' /\ SumFunction(f) \in Int
      BY <1>2, <1>3, <1>4, <1>5, CountsType DEF Counts, CountsOnce
    <2>2. Without(f, r) = Without(g, r)
      BY <1>3, <1>5 DEF Without, Counts
    <2> HIDE DEF f, g, S
    <2>3. SumFunction(g) = SumFunction(f) - f[r] + g[r]
      BY <2>1, <2>2, SumAfterChange
    <2> QED BY <1>4, <2>1, <2>3 DEF f, g
  <1>7. /\ SumFunction(Counts) \in Int /\ Len(applicants) \in Nat /\ Cardinality(stored) \in Nat
        /\ SumFunction(Counts) + Len(applicants) <= Cardinality(stored)
    BY CountsType DEF CountsOnce
  <1>8. SumFunction(Counts') + Len(applicants') <= Cardinality(stored')
    BY <1>1, <1>4, <1>6, <1>7, EffectOnTotals
  <1>9. \A q \in Started' : Count(q)' \in Nat
    BY <1>2, <1>3, <1>4 DEF CountsOnce
  <1> QED BY <1>1, <1>2, <1>8, <1>9, EffectOnTotals DEF CountsOnce

-----------------------------------------------------------------------------

\* The invariants above hold together in every reachable state: each step
\* keeps them, whatever the interleaving of the handlers.
THEOREM Invariance == Spec => []IInv
  <1>1. IInv /\ [Next]_vars => IInv'
    BY StepTypes, StepForms, StepAnswers, StepPages DEF IInv
  <1> QED BY <1>1, InitIInv, PTL DEF Spec

\* The type invariant of the server, for any number of requests.
THEOREM TypeCorrect == Spec => []TypeOK
  <1>1. IInv => TypeOK
    <2> SUFFICES ASSUME Types PROVE TypeOK
      BY DEF IInv
    <2>1. \A i \in DOMAIN applicants : applicants[i] \in Applicant
      BY DEF Types
    <2> QED BY <2>1 DEF Types, TypeOK, Applicant
  <1> QED BY <1>1, Invariance, PTL

\* A review page never shows what another request found, although the handlers
\* pass it through one global variable.
THEOREM ReviewsCorrect == Spec => []ReviewsShowTheirOwn
  <1>1. IInv => ReviewsShowTheirOwn
    BY DEF IInv
  <1> QED BY <1>1, Invariance, PTL

\* Together with them the counts of the removals are inductive.
THEOREM CountInvariance == Spec => []CountInv
  <1>1. IInv /\ CountInv /\ [Next]_vars => CountInv'
    <2> SUFFICES ASSUME IInv, CountInv, [Next]_vars PROVE CountInv'
      OBVIOUS
    <2>1. FirstTime' /\ RemovalsRenderTheirReply'
      BY StepFirstTime, StepRemovalPages DEF IInv, CountInv
    <2>2. CountsOnce'
      BY StepCountsSubmit, StepCountsSame, StepCountsMongo DEF IInv, CountInv, Next, Proceeds
    <2> QED BY <2>1, <2>2 DEF CountInv
  <1> QED BY <1>1, InitCountInv, Invariance, PTL DEF Spec

\* No application is reported as removed twice, nor while it is still in the
\* collection, however the removals overlap with each other and with
\* insertions, and whatever fails.
THEOREM RemovalsCorrect == Spec => []RemovalsCountOnce
  <1>1. IInv /\ CountInv => RemovalsCountOnce
    <2> SUFFICES ASSUME IInv, CountInv PROVE RemovalsCountOnce
      OBVIOUS
    <2> DEFINE Removed == {r \in Request : page[r] # NULL /\ task[r].form.kind = "remove"}
               g == [r \in Removed |-> page[r].numberRemoved]
               f == Counts
               S == Started
    <2>1. Removed \in SUBSET S
      BY DEF IInv, FormsComeFirst, Started
    <2>2. \A r \in Removed : page[r].numberRemoved = Count(r)
      BY DEF CountInv, RemovalsRenderTheirReply, Count
    <2>3. IsFiniteSet(S) /\ f \in [S -> Nat] /\ \A r \in S : f[r] = Count(r)
      BY DEF CountInv, CountsOnce, Counts
    <2>4. g \in [Removed -> Nat] /\ \A r \in Removed : g[r] = f[r]
      <3> HIDE DEF S, f
      <3> QED BY <2>1, <2>2, <2>3
    <2>5. /\ SumFunction(f) \in Int /\ Len(applicants) \in Nat /\ Cardinality(stored) \in Nat
          /\ SumFunction(f) + Len(applicants) <= Cardinality(stored)
      BY CountsType DEF IInv, CountInv, CountsOnce
    <2>6. SumFunction(g) <= SumFunction(f) /\ SumFunction(g) \in Int
      <3> HIDE DEF S, f, g, Removed
      <3>1. IsFiniteSet(Removed)
        BY <2>1, <2>3, FS_Subset
      <3>2. SumFunction(g) <= SumFunction(f)
        BY <2>1, <2>3, <2>4, SumOfPart
      <3>3. g \in [Removed -> Int]
        BY <2>4
      <3> QED BY <3>1, <3>2, <3>3, SumIsInteger
    <2>7. SumFunction(g) + Len(applicants) <= Cardinality(stored)
      <3> HIDE DEF f, g
      <3> QED BY <2>5, <2>6
    <2> QED BY <2>7 DEF RemovalsCountOnce
  <1> QED BY <1>1, Invariance, CountInvariance, PTL

-----------------------------------------------------------------------------
(* What a handler that is through has done.                                 *)

Kept(r) ==
    IF task[r].form.kind = "apply" THEN r \in stored /\ page[r] = task[r].form
    ELSE page[r] = reply[r]

\* A handler that has closed its client without an exception has stored what it
\* confirmed, or has shown what the database answered to its own request: the
\* safety of EveryFormIsAnswered and ConfirmedIsStored, and for a review more
\* than ReviewsShowTheirOwn.
FinishedHandlersKeptTheirWord ==
    \A r \in Request : At(r, "done") /\ r \notin failed => Kept(r)

\* What each place of a handler has behind it.  (Connecting is the only place
\* with nothing but the confirmation behind it.)
Behind(r) ==
    /\ At(r, "none") => r \notin failed
    /\ ~At(r, "none") /\ task[r].form.kind = "apply" => page[r] = task[r].form
    /\ At(r, "answered") =>
         /\ task[r].form.kind = "apply" => r \in stored
         /\ task[r].form.kind = "review" => reply[r] = [doc |-> reply[r].doc]
    /\ task[r].at \in {"closing", "done"} /\ r \notin failed => Kept(r)

ProgressInv == \A r \in Request : Behind(r)

\* A step that leaves a request where it is, and what it has, leaves it good.
LEMMA BehindStays ==
  ASSUME NEW r \in Request, Behind(r), task'[r] = task[r], page'[r] = page[r],
         reply'[r] = reply[r], stored \subseteq stored', r \in failed' <=> r \in failed
  PROVE  Behind(r)'
  BY DEF Behind, Kept, At

LEMMA StepBehind ==
  ASSUME Types, FormsComeFirst, ProgressInv, [Next]_vars
  PROVE  ProgressInv'
  <1> USE DEF At, Goto
  <1>1. stored \subseteq stored'
    BY StepTypes
  <1>2. ASSUME NEW r \in Request, NEW form \in Form, Submit(r, form) PROVE ProgressInv'
    <2>1. \A q \in Request \ {r} : Behind(q)'
      BY <1>1, <1>2, BehindStays DEF Submit, Types, ProgressInv
    <2>2. Behind(r)'
      BY <1>2 DEF Submit, Types, ProgressInv, Behind
    <2> QED BY <2>1, <2>2 DEF ProgressInv
  <1>3. ASSUME NEW r \in Request, Connected(r) PROVE ProgressInv'
    <2>1. \A q \in Request \ {r} : Behind(q)'
      BY <1>1, <1>3, BehindStays DEF Connected, Types, ProgressInv
    <2>2. Behind(r)'
      BY <1>3 DEF Connected, AfterConnect, Types, ProgressInv, Behind
    <2> QED BY <2>1, <2>2 DEF ProgressInv
  <1>4. ASSUME NEW r \in Request, Mongo(r) PROVE ProgressInv'
    <2>1. \A q \in Request \ {r} : Behind(q)'
      BY <1>1, <1>4, BehindStays DEF Mongo, Types, ProgressInv
    <2>2. task'[r] = [task[r] EXCEPT !.at = "answered"] /\ UNCHANGED <<page, failed>>
          /\ reply'[r] = Answer(r) /\ Behind(r) /\ ~At(r, "none")
      BY <1>4 DEF Mongo, Types, ProgressInv
    <2>3. task[r].form.kind = "apply" => r \in stored'
      BY <1>4 DEF Mongo, Effect
    <2>4. task[r].form.kind = "review" => Answer(r) = [doc |-> Answer(r).doc]
      BY DEF Answer
    <2> HIDE DEF Answer
    <2>5. Behind(r)'
      BY <2>2, <2>3, <2>4 DEF Types, Behind
    <2> QED BY <2>1, <2>5 DEF ProgressInv
  <1>5. ASSUME NEW r \in Request, Resume(r) PROVE ProgressInv'
    <2>1. \A q \in Request \ {r} : Behind(q)'
      BY <1>1, <1>5, BehindStays DEF Resume, Types, ProgressInv
    <2>2. Behind(r)'
      BY <1>5 DEF Resume, Renders, Rendered, Found, Types, ProgressInv, Behind, Kept
    <2> QED BY <2>1, <2>2 DEF ProgressInv
  <1>6. ASSUME NEW r \in Request, Throw(r) PROVE ProgressInv'
    <2>1. \A q \in Request \ {r} : Behind(q)'
      BY <1>1, <1>6, BehindStays DEF Throw, Types, ProgressInv
    <2>2. Behind(r)'
      BY <1>6 DEF Throw, AfterCatch, Types, ProgressInv, Behind
    <2> QED BY <2>1, <2>2 DEF ProgressInv
  <1>7. ASSUME NEW r \in Request, Close(r) PROVE ProgressInv'
    <2>1. \A q \in Request \ {r} : Behind(q)'
      BY <1>1, <1>7, BehindStays DEF Close, Types, ProgressInv
    <2>2. Behind(r)'
      BY <1>7 DEF Close, Types, ProgressInv, Behind, Kept
    <2> QED BY <2>1, <2>2 DEF ProgressInv
  <1>8. CASE Stop \/ UNCHANGED vars
    BY <1>8, BehindStays DEF Stop, vars, ProgressInv
  <1> QED BY <1>2, <1>3, <1>4, <1>5, <1>6, <1>7, <1>8 DEF Next, Proceeds

\* However the handlers overlap and whatever fails for others, a handler that
\* ends without an exception ends with its application stored, or with the page
\* of what was answered to its own request.
THEOREM FinishedCorrect == Spec => []FinishedHandlersKeptTheirWord
  <1>1. Init => ProgressInv
    BY DEF Init, ProgressInv, Behind, At
  <1>2. IInv /\ ProgressInv /\ [Next]_vars => ProgressInv'
    BY StepBehind DEF IInv
  <1>3. ProgressInv => FinishedHandlersKeptTheirWord
    BY DEF ProgressInv, Behind, FinishedHandlersKeptTheirWord, At
  <1> QED BY <1>1, <1>2, <1>3, Invariance, PTL DEF Spec
=============================================================================
