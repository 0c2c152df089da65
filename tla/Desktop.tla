------------------------------- MODULE Desktop -------------------------------
(***************************************************************************)
(* The dashboard (ui/src/App.tsx) over the local API (ui_api.py), on top   *)
(* of the backend that Backend starts.  The dashboard keeps a copy of what *)
(* the journal shows and replaces it by every bootstrap answer that comes  *)
(* in; between two answers it edits the copy itself when a review was made *)
(* or deleted.  Every request has a thread of its own on the server and no *)
(* sequence number, and the server reads one bootstrap with several        *)
(* queries, so answers overtake each other and mix moments of the journal. *)
(* The dashboard gives up on a slow request; the server does not.          *)
(*                                                                         *)
(* Of the journal the model keeps the evidence reviews, of the dashboard   *)
(* their list and the two numbers drawn from them.                         *)
(***************************************************************************)
EXTENDS Backend, FiniteSets, SequencesExt

CONSTANTS
  Review,       \* the reviews that can be made
  Draft,        \* those of them that background passes draft
  Call,         \* the requests that can be under way at once
  ListLimit,    \* how many reviews a bootstrap lists (20)
  CountLimit,   \* how far status() counts them (100)
  MaxGivenUp    \* bound: requests that the dashboard gives up on

ASSUME DesktopAssumption ==
  /\ Draft \subseteq Review
  /\ ListLimit \in Nat \ {0} /\ CountLimit \in Nat /\ MaxGivenUp \in Nat
  /\ ListLimit <= CountLimit

VARIABLES
  reviews,   \* incidents: the newest first
  made,      \* reviews made so far
  view,      \* data.incidents and the numbers drawn beside it
  call,      \* what each request is for and how far the server is with it
  givenUp    \* requests given up on so far

desktopVars == <<reviews, made, view, call, givenUp>>
journalVars == <<reviews, made>>
vars == <<backendVars, desktopVars>>

(* What is shown *)

Capped(n, limit) == IF n < limit THEN n ELSE limit

Counted == Capped(Len(reviews), CountLimit)
Recent == SubSeq(reviews, 1, Capped(Len(reviews), ListLimit))
DraftCount == Cardinality(Range(reviews) \cap Draft)

\* What build_bootstrap reads off the journal, part by part.
Shown == [total |-> Counted, list |-> Recent, drafts |-> DraftCount]

\* The order of its queries: status, the list, automation_snapshot.
Parts == <<"total", "list", "drafts">>

Empty == [total |-> 0, list |-> <<>>, drafts |-> 0]

Less(n) == IF n = 0 THEN 0 ELSE n - 1

\* A list without one of its reviews, the others in their order.
Without(list, r) ==
  LET kept[n \in 0 .. Len(list)] ==
        IF n = 0 THEN <<>>
        ELSE IF list[n] = r THEN kept[n - 1] ELSE Append(kept[n - 1], list[n]) IN
  kept[Len(list)]

(* Mutant of Removed: the number of drafts stays.                          *)
RemovedUncounted(v, r) ==
  IF r \notin Range(v.list) THEN v
  ELSE [total |-> Less(v.total), list |-> Without(v.list, r),
        drafts |-> v.drafts]

\* removeIncidentFromBootstrap
Removed(v, r) ==
  IF r \notin Range(v.list) THEN v
  ELSE [total |-> Less(v.total), list |-> Without(v.list, r),
        drafts |-> IF r \in Draft THEN Less(v.drafts) ELSE v.drafts]

\* What handleInvestigate puts in front.
Added(v, r) ==
  [total |-> v.total + 1, list |-> <<r>> \o Without(v.list, r), drafts |-> v.drafts]

(* Requests *)

\* for: what the answer is for; about: the review; at: "idle", "sent" or the
\* number of parts read; waiting: the dashboard still wants the answer.
Idle == [for |-> "none", about |-> {}, at |-> "idle", read |-> 0,
         answer |-> Empty, waiting |-> FALSE]

Sent(purpose, about) ==
  [Idle EXCEPT !.for = purpose, !.about = about, !.at = "sent", !.waiting = TRUE]

\* From the first bootstrap on, which shows the journal as it was: the reviews
\* in it that never change are left out.
Init ==
  /\ BackendInit
  /\ reviews = <<>> /\ made = {}
  /\ view = Empty
  /\ call = [c \in Call |-> Idle]
  /\ givenUp = 0

Serving == shell = "open" /\ child = "listening"
Wants(c, purpose) == call[c].waiting /\ call[c].for = purpose
Unmade == Review \ (made \cup Draft)
Deleting == \E c \in Call : Wants(c, "delete") \/ Wants(c, "reload")

(* Mutant of Load: the journal is loaded only when nothing is shown.       *)
LoadFirst(c) ==
  /\ Serving /\ call[c] = Idle
  /\ view = Empty
  /\ call' = [call EXCEPT ![c] = Sent("load", {})]
  /\ UNCHANGED <<backendVars, journalVars, view, givenUp>>

\* refresh, or the poll every 30 seconds, which does not wait for the last.
Load(c) ==
  /\ Serving /\ call[c] = Idle
  /\ call' = [call EXCEPT ![c] = Sent("load", {})]
  /\ UNCHANGED <<backendVars, journalVars, view, givenUp>>

\* handleInvestigate sends the problem that was described; the view is busy
\* until the answer is there.  The last conjunct keeps to the bound Review.
Investigate(c) ==
  /\ Serving /\ call[c] = Idle
  /\ \A d \in Call : ~ Wants(d, "create")
  /\ Cardinality({d \in Call : call[d].for = "create" /\ call[d].at = "sent"})
       < Cardinality(Unmade)
  /\ call' = [call EXCEPT ![c] = Sent("create", {})]
  /\ UNCHANGED <<backendVars, journalVars, view, givenUp>>

\* handleDeleteInvestigation; deleteBusy disables the button meanwhile.
Delete(c, r) ==
  /\ Serving /\ call[c] = Idle
  /\ r \in Range(view.list) /\ ~ Deleting
  /\ call' = [call EXCEPT ![c] = Sent("delete", {r})]
  /\ UNCHANGED <<backendVars, journalVars, view, givenUp>>

(* The server *)

\* One query of build_bootstrap; the answer is kept while it is waited for.
ReadPart(c) ==
  /\ Serving
  /\ call[c].at = "sent" /\ call[c].for \in {"load", "reload"}
  /\ LET part == Parts[call[c].read + 1]
         last == part = Parts[Len(Parts)]
     IN call' = [call EXCEPT
          ![c].answer[part] = IF call[c].waiting THEN Shown[part] ELSE @,
          ![c].read = IF last THEN 0 ELSE @ + 1,
          ![c].at = IF last THEN "done" ELSE "sent"]
  /\ UNCHANGED <<backendVars, journalVars, view, givenUp>>

\* run_investigation has inserted the review under an id of its own.
CreateIncident(c) ==
  /\ Serving
  /\ call[c].at = "sent" /\ call[c].for = "create"
  /\ \E r \in Unmade :
       /\ reviews' = <<r>> \o reviews
       /\ made' = made \cup {r}
       /\ call' = [call EXCEPT ![c].at = "done", ![c].about = {r}]
  /\ UNCHANGED <<backendVars, view, givenUp>>

DeleteIncident(c) ==
  /\ Serving
  /\ call[c].at = "sent" /\ call[c].for = "delete"
  /\ \E r \in call[c].about :
       /\ reviews' = Without(reviews, r)
       /\ call' = [call EXCEPT ![c].at =
                     IF r \in Range(reviews) THEN "done" ELSE "missing"]
  /\ UNCHANGED <<backendVars, made, view, givenUp>>

\* The answer can no longer be written, so the handler's thread prints a
\* traceback into the error pipe, and waits while that is full.
Complain(c) ==
  /\ Serving
  /\ call[c].at \in {"done", "missing"} /\ ~ call[c].waiting
  /\ CanComplain /\ err' = Complained
  /\ call' = [call EXCEPT ![c] = Idle]
  /\ UNCHANGED <<shell, child, out, readers, channel>>
  /\ UNCHANGED <<journalVars, view, givenUp>>

(* The dashboard gets an answer, or none *)

Answered(c) == Serving /\ call[c].waiting /\ call[c].at = "done"

ShowAnswer(c) ==
  /\ Answered(c) /\ call[c].for \in {"load", "reload"}
  /\ view' = call[c].answer
  /\ call' = [call EXCEPT ![c] = Idle]
  /\ UNCHANGED <<backendVars, journalVars, givenUp>>

ShowCreated(c) ==
  /\ Answered(c) /\ call[c].for = "create"
  /\ \E r \in call[c].about : view' = Added(view, r)
  /\ call' = [call EXCEPT ![c] = Idle]
  /\ UNCHANGED <<backendVars, journalVars, givenUp>>

\* The review is gone: handleDeleteInvestigation asks for a new bootstrap.
Reload(c) ==
  /\ Answered(c) /\ call[c].for = "delete"
  /\ call' = [call EXCEPT ![c] = Sent("reload", call[c].about)]
  /\ UNCHANGED <<backendVars, journalVars, view, givenUp>>

\* 404: the error is shown, and the view stays.
ShowMissing(c) ==
  /\ Serving /\ call[c].waiting /\ call[c].at = "missing"
  /\ call' = [call EXCEPT ![c] = Idle]
  /\ UNCHANGED <<backendVars, journalVars, view, givenUp>>

\* What a request that fails does to the view: only the reload after a
\* deletion edits it.
ViewWithout(c) ==
  IF Wants(c, "reload")
  THEN Removed(view, CHOOSE r \in call[c].about : TRUE)
  ELSE view

\* The abort after REQUEST_TIMEOUT_MS; the server goes on.
GiveUp(c) ==
  /\ Serving /\ call[c].waiting /\ givenUp < MaxGivenUp
  /\ view' = ViewWithout(c)
  /\ call' = [call EXCEPT ![c].waiting = FALSE, ![c].answer = Empty]
  /\ givenUp' = givenUp + 1
  /\ UNCHANGED <<backendVars, journalVars>>

\* A background pass of another process drafts a review.
DraftReview(r) ==
  /\ Serving /\ r \in Draft \ made
  /\ reviews' = <<r>> \o reviews
  /\ made' = made \cup {r}
  /\ UNCHANGED <<backendVars, view, call, givenUp>>

ServerStep(c) ==
  ReadPart(c) \/ CreateIncident(c) \/ DeleteIncident(c) \/ Complain(c)

Receive(c) ==
  ShowAnswer(c) \/ ShowCreated(c) \/ Reload(c) \/ ShowMissing(c)

\* When the backend is gone every request fails, and so does every later one;
\* the dashboard and its requests end with the shell.
BackendStep ==
  /\ BackendNext
  /\ IF Serving /\ ~ (shell' = "open" /\ child' = "listening")
     THEN /\ call' = [c \in Call |-> Idle]
          /\ view' = IF shell' # "open" THEN Empty
                     ELSE IF \E c \in Call : Wants(c, "reload")
                     THEN ViewWithout(CHOOSE c \in Call : Wants(c, "reload"))
                     ELSE view
          /\ UNCHANGED <<journalVars, givenUp>>
     ELSE UNCHANGED desktopVars

Next ==
  \/ BackendStep
  \/ \E c \in Call :
       \/ Load(c) \/ Investigate(c) \/ (\E r \in Review : Delete(c, r))
       \/ ServerStep(c) \/ Receive(c) \/ GiveUp(c)
  \/ \E r \in Review : DraftReview(r)

Spec == Init /\ [][Next]_vars

\* A bootstrap is asked for again and again, each thread of a serving backend
\* goes on, and an answer that is there is taken unless the dashboard gave up
\* first.  Users, passes and the child owe nothing.
FairSpec ==
  /\ Spec
  /\ BackendFairness
  /\ WF_vars(\E c \in Call : Load(c))
  /\ \A c \in Call : WF_vars(ServerStep(c)) /\ WF_vars(Receive(c))

(* Properties *)

\* The edit that stands in for a bootstrap after a deletion shows what the
\* bootstrap would have shown, and a created review is put where the journal
\* has it: the client's rules and the SQL do not drift apart, as long as the
\* journal is within the limits (removeIncidentFromBootstrap,
\* handleInvestigate; delete_incident, status, automation_draft_count).
EditsMirrorJournal ==
  [][ /\ \A r \in Range(reviews) \ Range(reviews') :
           Len(reviews) <= ListLimit => Removed(Shown, r) = Shown'
      /\ \A r \in (made' \ made) \ Draft :
           Len(reviews) < ListLimit =>
             Added(Shown, r) = Shown' ]_vars

\* However answers overtook each other, torn or given up, the dashboard shows
\* the journal as it is once that no longer changes and the backend answers:
\* no deleted review stays on the screen and no count stays wrong (the poll).
ViewCatchesUp ==
  <>[]Serving => <>[](view = Shown)

\* A thread that answers a request nobody waits for any more comes to its
\* end: error output is read for as long as the backend lives, so the pipe
\* never stays full (capture_output, do_GET).
HandlerEnds(c) ==
  (call[c] # Idle /\ ~ call[c].waiting) ~> (call[c] = Idle)
=============================================================================
