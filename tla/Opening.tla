------------------------------ MODULE Opening -------------------------------
(***************************************************************************)
(* Opening a journal, all of it: the openers of module Migrations, each of *)
(* which repairs automation links when the schema is complete, and a user  *)
(* who deletes drafts in a journal that somebody has open.                 *)
(***************************************************************************)
EXTENDS Migrations

CONSTANTS Markers, DraftId, Requests, Batch, Null, Deleted, Pruned

(* A link is a draft or NULL, and a draft or a marker that is gone asks    *)
(* for nothing.                                                            *)
ASSUME OpeningAssumption ==
  /\ Markers \in Nat /\ Batch \in Nat \ {0}
  /\ Null \notin DraftId /\ Pruned \notin Requests
  /\ Deleted \notin (Requests \cup {Pruned}) \X {"automatic", "legacy"}

VARIABLES asked, draft, link, note, cursor

Links == INSTANCE LinkRepair

linkVars == <<asked, draft, link, note, cursor>>
openingVars == <<vars, linkVars>>

(* Builds that lost links made drafts before the last migration existed;   *)
(* any other journal has no markers without a link.                        *)
Unharmed ==
  /\ asked = [n \in Links!Marker |-> Pruned]
  /\ link = [n \in Links!Marker |-> Null] /\ note = link
  /\ draft = [d \in DraftId |-> Deleted]
  /\ cursor = Markers

OpeningInit ==
  /\ Init
  /\ IF version = Latest - 1 THEN Links!Init ELSE Unharmed

(* The repair is a step of its opener.                                     *)
RepairAutomationLinks(p) == RepairLinks(p) /\ Links!Repair

(* Steps of an opener that leave links alone.                              *)
Migrate(p) == Migrates(p) /\ UNCHANGED linkVars
Leave(p) == Close(p) /\ UNCHANGED linkVars
Fail(p) == Die(p) /\ UNCHANGED linkVars

DeleteIncident(d) ==
  /\ \E p \in Opener : pc[p] = "open"
  /\ Links!DeleteIncident(d)
  /\ UNCHANGED vars

OpeningNext ==
  \/ \E p \in Opener : Migrate(p) \/ RepairAutomationLinks(p) \/ Leave(p) \/ Fail(p)
  \/ \E d \in DraftId : DeleteIncident(d)

(* An opener goes on, and a process that has the journal open is done with *)
(* it some day: a pass of the watcher and a request of the API open it and *)
(* close it again.                                                         *)
OpeningSpec ==
  /\ OpeningInit /\ [][OpeningNext]_openingVars
  /\ \A p \in Opener :
       /\ WF_openingVars(Migrate(p) \/ RepairAutomationLinks(p))
       /\ WF_openingVars(Leave(p))

-----------------------------------------------------------------------------
(* Repaired links and those that were there lead to drafts of their event. *)
LinksLead == Links!LinksLead

(* A marker with a draft of its own is linked some day, unless the user    *)
(* deletes the draft: markers that find none do not block the others, and  *)
(* openers that die or race do not lose the place.                         *)
RepairArrives ==
  \A n \in Links!Marker : Links!Repairable(n) ~> ~ Links!Repairable(n)

=============================================================================
