----------------------------- MODULE SummerCamp -----------------------------
(* The four form handlers of summerCampServer.js.  Node runs one piece of   *)
(* JavaScript at a time; a handler is a task that gives up control at each  *)
(* await, so every action below is the code from one await to the next.     *)
EXTENDS Integers, Sequences, SequencesExt

CONSTANTS Request,       \* the form submissions the server may receive
          Email, Gpa,    \* what the forms are filled in with
          rank(_),       \* the place of a GPA in the order of strings
          Faults,        \* whether calls to the database fail and the server is stopped
          NULL

ASSUME SummerCampAssumption ==
    /\ \A g \in Gpa : rank(g) \in Nat
    /\ Faults \in BOOLEAN
    /\ NULL \notin Request

VARIABLES task,         \* the request and how far its handler is
          reply,        \* what the database answered, until the handler resumes
          page,         \* the page rendered for the request, NULL until then
          result,       \* the global that processReviewApplication assigns
          applicants,   \* the collection, in the order of insertion
          up,           \* the server process runs
          stored,       \* history: the applications that were ever inserted
          failed        \* history: the requests whose handler caught an exception

vars == <<task, reply, page, result, applicants, up, stored, failed>>

Form ==
    [kind : {"apply"}, email : Email, gpa : Gpa]
      \union [kind : {"review"}, email : Email]
      \union [kind : {"gpa"}, gpa : Gpa]
      \union [kind : {"remove"}]

At(r, place) == task[r].at = place

Goto(r, place) == task' = [task EXCEPT ![r].at = place]

Init ==
    /\ task = [r \in Request |-> [at |-> "none", form |-> NULL]]
    /\ reply = [r \in Request |-> NULL]
    /\ page = [r \in Request |-> NULL]
    /\ result = NULL
    /\ applicants = <<>>
    /\ up = TRUE
    /\ stored = {}
    /\ failed = {}

----------------------------------------------------------------------------

\* The route's callback, up to the first await.  processApplication renders
\* its page right away, the others when their task gets there.
Submit(r, form) ==
    /\ up /\ At(r, "none")
    /\ task' = [task EXCEPT ![r] = [at |-> "connecting", form |-> form]]
    /\ page' = IF form.kind = "apply" THEN [page EXCEPT ![r] = form] ELSE page
    /\ UNCHANGED <<reply, result, applicants, up, stored, failed>>

\* A mutant: the insertion is not awaited, and the client is closed under it.
AfterConnectForgets(r) == IF task[r].form.kind = "apply" THEN "closing" ELSE "sent"

AfterConnect(r) == "sent"

\* client.connect() came back: the operation is sent.
Connected(r) ==
    /\ up /\ At(r, "connecting")
    /\ Goto(r, AfterConnect(r))
    /\ UNCHANGED <<reply, page, result, applicants, up, stored, failed>>

----------------------------------------------------------------------------
(* MongoDB, outside the repository: each operation takes effect at once,    *)
(* also when the server that sent it has been stopped meanwhile.            *)

Document(r) == [id |-> r, email |-> task[r].form.email, gpa |-> task[r].form.gpa]

findOne(email) ==
    LET at == SelectInSeq(applicants, LAMBDA doc : doc.email = email)
    IN  IF at = 0 THEN NULL ELSE applicants[at]

\* Both sides of $gte are strings, and strings are compared as such.
find(gpa) == SelectSeq(applicants, LAMBDA doc : rank(doc.gpa) >= rank(gpa))

\* A mutant: the number that is reported is that of all applications ever made.
DeletedEver == Cardinality(stored)

DeletedCount == Len(applicants)

\* insertOne and deleteMany change the collection, the finds do not.
Effect(r) ==
    LET kind == task[r].form.kind
    IN  /\ applicants' = CASE kind = "apply"  -> Append(applicants, Document(r))
                           [] kind = "remove" -> <<>>
                           [] OTHER           -> applicants
        /\ stored' = IF kind = "apply" THEN stored \union {r} ELSE stored

Answer(r) ==
    LET form == task[r].form
    IN  CASE form.kind = "apply"  -> [insertedId |-> r]
          [] form.kind = "review" -> [doc |-> findOne(form.email)]
          [] form.kind = "gpa"    -> [table |-> find(form.gpa)]
          [] form.kind = "remove" -> [numberRemoved |-> DeletedCount]

Mongo(r) ==
    /\ At(r, "sent")
    /\ Effect(r)
    /\ reply' = [reply EXCEPT ![r] = Answer(r)]
    /\ Goto(r, "answered")
    /\ UNCHANGED <<page, result, up, failed>>

----------------------------------------------------------------------------

\* A mutant: the page is made from the global before it is assigned anew.
FoundLastTime(r) == result

Found(r) == result'

\* The page of a request whose database operation has been awaited.
Rendered(r) == IF task[r].form.kind = "review" THEN [doc |-> Found(r)] ELSE reply[r]

\* A mutant: nothing is rendered when findOne found nobody.
RendersWhenFound(r) == task[r].form.kind # "apply" /\ reply[r] # [doc |-> NULL]

Renders(r) == task[r].form.kind # "apply"

\* From the await of the operation to that of client.close().
Resume(r) ==
    /\ up /\ At(r, "answered")
    /\ result' = IF task[r].form.kind = "review" THEN reply[r].doc ELSE result
    /\ page' = IF Renders(r) THEN [page EXCEPT ![r] = Rendered(r)] ELSE page
    /\ Goto(r, "closing")
    /\ UNCHANGED <<reply, applicants, up, stored, failed>>

\* A mutant: the catch block returns past client.close().
AfterCatchLeaks == "failed"

AfterCatch == "closing"

\* An await throws: connecting, or the operation, with or without its effect.
\* The catch block only logs.
Throw(r) ==
    /\ Faults /\ up
    /\ \/ At(r, "connecting") /\ UNCHANGED <<applicants, stored>>
       \/ At(r, "sent") /\ UNCHANGED <<applicants, stored>>
       \/ At(r, "sent") /\ Effect(r)
    /\ Goto(r, AfterCatch)
    /\ failed' = failed \union {r}
    /\ UNCHANGED <<reply, page, result, up>>

\* finally: client.close(), on every path.
Close(r) ==
    /\ up /\ At(r, "closing")
    /\ Goto(r, "done")
    /\ UNCHANGED <<reply, page, result, applicants, up, stored, failed>>

\* "stop" on stdin is process.exit(0), whatever the tasks are waiting for.
Stop ==
    /\ Faults /\ up
    /\ up' = FALSE
    /\ UNCHANGED <<task, reply, page, result, applicants, stored, failed>>

Proceeds(r) == Connected(r) \/ Mongo(r) \/ Resume(r) \/ Close(r)

Next ==
    \/ \E r \in Request : Proceeds(r) \/ Throw(r) \/ \E form \in Form : Submit(r, form)
    \/ Stop

Spec == Init /\ [][Next]_vars

\* The event loop serves every callback and the database answers.
FairSpec == Spec /\ \A r \in Request : WF_vars(Proceeds(r))

----------------------------------------------------------------------------

\* What the tasks, the pages and the collection can hold.
TypeOK ==
    /\ \A r \in Request :
         /\ task[r].at \in {"none", "connecting", "sent", "answered", "closing", "done"}
         /\ task[r].form \in Form \union {NULL}
    /\ \A i \in DOMAIN applicants :
         applicants[i] \in [id : stored, email : Email, gpa : Gpa]
    /\ stored \subseteq Request /\ failed \subseteq Request /\ up \in BOOLEAN

\* A review page shows an application stored under the address that was asked
\* for, or NONE, however many reviews share the global variable result.
ReviewsShowTheirOwn ==
    \A r \in Request : page[r] # NULL /\ task[r].form.kind = "review" =>
        LET doc == page[r].doc
        IN  doc # NULL => doc.id \in stored /\ doc.email = task[r].form.email

\* No application is counted in the numberRemoved of two removals, nor while
\* it is still in the collection.
RemovalsCountOnce ==
    LET Removed == {r \in Request : page[r] # NULL /\ task[r].form.kind = "remove"}
    IN  SumFunction([r \in Removed |-> page[r].numberRemoved]) + Len(applicants)
            <= Cardinality(stored)

\* Every form that is submitted gets its page, on every path of its handler,
\* unless a call to the database throws or the server is stopped.
EveryFormIsAnswered ==
    \A r \in Request :
        At(r, "connecting") ~> (page[r] # NULL \/ r \in failed \/ ~up)

\* An application is confirmed before it is inserted (line 67).  What is
\* confirmed gets inserted all the same, unless the failure is logged or the
\* server is stopped.
ConfirmedIsStored ==
    \A r \in Request :
        (page[r] # NULL /\ task[r].form.kind = "apply")
            ~> (r \in stored \/ r \in failed \/ ~up)

\* Every client that is opened is closed, failures or not, unless the server
\* is stopped before.
ClientsAreClosed ==
    \A r \in Request : At(r, "connecting") ~> (At(r, "done") \/ ~up)

=============================================================================
