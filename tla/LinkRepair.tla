----------------------------- MODULE LinkRepair -----------------------------
(***************************************************************************)
(* Repair of automation links that an older build lost: it could store the *)
(* marker of a draft, and the draft, without the link between them.        *)
(* _repair_automation_links (difftrail/db.py) goes over the markers in     *)
(* batches, behind a durable cursor, once for every opening of a journal;  *)
(* the user deletes drafts meanwhile.  Markers are numbered in the order   *)
(* of their creation times and ids.                                        *)
(***************************************************************************)
EXTENDS Integers, FiniteSets, FiniteSetsExt

CONSTANTS
  Markers,  \* how many markers there are
  DraftId,  \* incidents of automation
  Requests, \* what drafts ask for
  Batch,    \* _AUTOMATION_LINK_REPAIR_BATCH
  Null,     \* a link that is NULL
  Deleted,  \* an incident that is gone
  Pruned    \* an event that is gone

VARIABLES
  asked,    \* the request that the event of a marker leads to
  draft,    \* incidents with status 'draft': request and form
  link,     \* automation_actions: incident_id of each marker
  note,     \* automation_notifications: incident_id of its crash notification
  cursor    \* meta 'automation:link-repair-cursor'; 0 when missing or unusable

vars == <<asked, draft, link, note, cursor>>

Marker == 1 .. Markers

(* automatic_draft_request, and legacy_automatic_draft_request of a build  *)
(* before version 7.                                                       *)
Form == {"automatic", "legacy"}

TypeOK ==
  /\ asked \in [Marker -> Requests \cup {Pruned}]
  /\ draft \in [DraftId -> Requests \X Form \cup {Deleted}]
  /\ link \in [Marker -> DraftId \cup {Null}]
  /\ note \in [Marker -> DraftId \cup {Null}]
  /\ cursor \in 0 .. Markers

Leads(n, d) == d # Null => draft[d] # Deleted /\ draft[d][1] = asked[n]

(* What an older build has left behind.                                    *)
Init ==
  /\ asked \in [Marker -> Requests \cup {Pruned}]
  /\ draft \in [DraftId -> Requests \X Form]
  /\ link \in [Marker -> DraftId \cup {Null}]
  /\ note \in [Marker -> DraftId \cup {Null}]
  /\ \A n \in Marker : Leads(n, link[n]) /\ note[n] \in {link[n], Null}
  /\ cursor = 0

-----------------------------------------------------------------------------
Only(drafts) == IF \E d \in drafts : drafts = {d} THEN CHOOSE d \in drafts : TRUE ELSE Null

(* find_incident_id, restricted to drafts.                                 *)
FindIncident(request, form) == Only({d \in DraftId : draft[d] = <<request, form>>})

(* Mutant of Match: any draft that is alone will do.                       *)
MatchAny(n) == Only({d \in DraftId : draft[d] # Deleted})

(* The draft of marker n: under the request of today, else the one of old. *)
Match(n) ==
  LET today == FindIncident(asked[n], "automatic") IN
  IF today # Null THEN today ELSE FindIncident(asked[n], "legacy")

(* The first markers behind the cursor that have no link.                  *)
Pending ==
  LET unlinked == {n \in Marker : cursor < n /\ link[n] = Null} IN
  {n \in unlinked : Cardinality({m \in unlinked : m <= n}) <= Batch}

Linked(n) == n \in Pending /\ Match(n) # Null

(* Mutant of MovedCursor: it stays before what found no draft.             *)
CursorToLinked == IF {n \in Pending : Linked(n)} = {} THEN cursor
                  ELSE Max({n \in Pending : Linked(n)})

MovedCursor == IF Pending = {} THEN cursor ELSE Max(Pending)

(* One immediate transaction.                                              *)
Repair ==
  /\ link' = [n \in Marker |-> IF Linked(n) THEN Match(n) ELSE link[n]]
  /\ note' = [n \in Marker |-> IF Linked(n) /\ note[n] = Null THEN Match(n) ELSE note[n]]
  /\ cursor' = MovedCursor
  /\ UNCHANGED <<asked, draft>>

DeleteIncident(d) ==
  LET Unlink(x) == IF x = d THEN Null ELSE x IN
  /\ draft[d] # Deleted
  /\ draft' = [draft EXCEPT ![d] = Deleted]
  /\ link' = [n \in Marker |-> Unlink(link[n])]
  /\ note' = [n \in Marker |-> Unlink(note[n])]
  /\ UNCHANGED <<asked, cursor>>

Next == Repair \/ \E d \in DraftId : DeleteIncident(d)

Spec == Init /\ [][Next]_vars

-----------------------------------------------------------------------------
(* A link leads to a draft that exists and asks what the event of its      *)
(* marker asks, whatever is repaired and deleted in whatever order.        *)
LinksLead == \A n \in Marker : Leads(n, link[n]) /\ Leads(n, note[n])

(* A marker that the repair has not come to and that has a draft.          *)
Repairable(n) == link[n] = Null /\ cursor < n /\ Match(n) # Null

=============================================================================
