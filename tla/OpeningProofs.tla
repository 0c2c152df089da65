---------------------------- MODULE OpeningProofs ----------------------------
(***************************************************************************)
(* Proofs about Opening: to the schema, opening a journal is what module   *)
(* Migrations says; links are repaired only to drafts of their events, and *)
(* the repair passes no marker that it could link.                         *)
(***************************************************************************)
EXTENDS Opening, MigrationsProofs, FiniteSetTheorems, WellFoundedInduction

(* Every step of opening a journal is one of Migrations or leaves the      *)
(* schema alone, so what is proved of Migrations holds for Opening.        *)
LEMMA StepsImplementMigrations == [OpeningNext]_openingVars => [Next]_vars
<1> SUFFICES ASSUME [OpeningNext]_openingVars PROVE [Next]_vars
  OBVIOUS
<1>1. CASE UNCHANGED openingVars
  BY <1>1 DEF openingVars
<1>2. ASSUME NEW p \in Opener,
             Migrate(p) \/ RepairAutomationLinks(p) \/ Leave(p) \/ Fail(p)
      PROVE  Next
  BY <1>2 DEF Migrate, RepairAutomationLinks, Leave, Fail, Next, Opens
<1>3. ASSUME NEW d \in DraftId, DeleteIncident(d) PROVE UNCHANGED vars
  BY <1>3 DEF DeleteIncident
<1> QED BY <1>1, <1>2, <1>3 DEF OpeningNext

THEOREM OpeningImplementsMigrations == OpeningSpec => Init /\ [][Next]_vars
<1>1. OpeningInit => Init
  BY DEF OpeningInit
<1> QED BY <1>1, StepsImplementMigrations, PTL DEF OpeningSpec

(* So with repairs, deletions and closes between its steps an opener still *)
(* believes only versions the file has, records only what it has run, runs *)
(* no migration twice and opens only what is complete (_initialize).       *)
THEOREM OpeningMigratesSafely ==
  OpeningSpec => [](VersionIsBacked /\ RecordIsTrue /\ OpenIsComplete /\ RunOnce)
<1>1. OpeningSpec => Spec
  BY OpeningImplementsMigrations DEF Spec
<1> QED
  BY <1>1, VersionsAreBacked, RecordsAreTrue, OpensAreComplete, MigrationsRunOnce, PTL

-----------------------------------------------------------------------------
(* The draft that is found asks what the event of the marker asks.         *)
LEMMA FoundAsks ==
  ASSUME NEW request, NEW form, Links!FindIncident(request, form) # Null
  PROVE  /\ Links!FindIncident(request, form) \in DraftId
         /\ draft[Links!FindIncident(request, form)] = <<request, form>>
<1> DEFINE drafts == {d \in DraftId : draft[d] = <<request, form>>}
<1>1. /\ \E d \in drafts : drafts = {d}
      /\ Links!FindIncident(request, form) = (CHOOSE d \in drafts : TRUE)
  BY DEF Links!FindIncident, Links!Only
<1>2. (CHOOSE d \in drafts : TRUE) \in drafts
  BY <1>1
<1> QED BY <1>1, <1>2

LinkTypes ==
  /\ asked \in [Links!Marker -> Requests \cup {Pruned}]
  /\ link \in [Links!Marker -> DraftId \cup {Null}]
  /\ note \in [Links!Marker -> DraftId \cup {Null}]
  /\ draft \in [DraftId -> Requests \X Links!Form \cup {Deleted}]

(* What the repair links leads to a draft.                                 *)
LEMMA MatchLeads ==
  ASSUME LinkTypes, NEW n \in Links!Marker, Links!Match(n) # Null
  PROVE  Links!Match(n) \in DraftId /\ Links!Leads(n, Links!Match(n))
<1>1. PICK form \in {"automatic", "legacy"} : Links!Match(n) = Links!FindIncident(asked[n], form)
  BY DEF Links!Match
<1>2. Links!Match(n) \in DraftId /\ draft[Links!Match(n)] = <<asked[n], form>>
  BY <1>1, FoundAsks
<1>3. asked[n] \in Requests \cup {Pruned}
  BY DEF LinkTypes
<1>4. <<asked[n], form>> # Deleted
  BY <1>1, <1>3, OpeningAssumption
<1> QED BY <1>2, <1>4 DEF Links!Leads

Linked == LinkTypes /\ LinksLead

LEMMA InitLinked == OpeningInit => Linked
<1> SUFFICES ASSUME OpeningInit PROVE Linked
  OBVIOUS
<1>1. CASE Links!Init
  BY <1>1 DEF Links!Init, Linked, LinkTypes, LinksLead, Links!LinksLead, Links!Leads
<1>2. CASE Unharmed
  BY <1>2 DEF Unharmed, Linked, LinkTypes, LinksLead, Links!LinksLead, Links!Leads
<1> QED BY <1>1, <1>2 DEF OpeningInit

LEMMA RepairKeepsLinked == Linked /\ Links!Repair => Linked'
<1> SUFFICES ASSUME Linked, Links!Repair PROVE Linked'
  OBVIOUS
<1>1. ASSUME NEW n \in Links!Marker PROVE
        /\ link'[n] \in DraftId \cup {Null} /\ Links!Leads(n, link'[n])
        /\ note'[n] \in DraftId \cup {Null} /\ Links!Leads(n, note'[n])
  <2>1. Links!Linked(n) => Links!Match(n) \in DraftId /\ Links!Leads(n, Links!Match(n))
    BY MatchLeads DEF Linked, Links!Linked
  <2>2. /\ link[n] \in DraftId \cup {Null} /\ Links!Leads(n, link[n])
        /\ note[n] \in DraftId \cup {Null} /\ Links!Leads(n, note[n])
    BY DEF Linked, LinkTypes, LinksLead, Links!LinksLead
  <2>3. /\ link'[n] \in {link[n], Links!Match(n)} /\ (link'[n] # link[n] => Links!Linked(n))
        /\ note'[n] \in {note[n], Links!Match(n)} /\ (note'[n] # note[n] => Links!Linked(n))
    BY DEF Links!Repair
  <2> QED BY <2>1, <2>2, <2>3
<1>2. LinkTypes'
  BY <1>1 DEF Links!Repair, Linked, LinkTypes
<1>3. LinksLead'
  BY <1>1 DEF Links!Repair, LinksLead, Links!LinksLead, Links!Leads
<1> QED BY <1>2, <1>3 DEF Linked

LEMMA DeletionKeepsLinked ==
  ASSUME Linked, NEW d \in DraftId, Links!DeleteIncident(d)
  PROVE  Linked'
<1>1. ASSUME NEW n \in Links!Marker PROVE
        /\ link'[n] = (IF link[n] = d THEN Null ELSE link[n])
        /\ note'[n] = (IF note[n] = d THEN Null ELSE note[n])
  BY DEF Links!DeleteIncident
<1>2. ASSUME NEW e \in DraftId, e # d PROVE draft'[e] = draft[e]
  BY <1>2 DEF Links!DeleteIncident, Linked, LinkTypes
<1>3. LinkTypes'
  BY DEF Links!DeleteIncident, Linked, LinkTypes
<1>4. ASSUME NEW n \in Links!Marker, NEW x \in DraftId \cup {Null}, x # d, Links!Leads(n, x)
      PROVE  (Links!Leads(n, x))'
  BY <1>2, <1>4 DEF Links!Leads, Links!DeleteIncident
<1>5. LinksLead'
  <2> SUFFICES ASSUME NEW n \in Links!Marker
               PROVE  (Links!Leads(n, link[n]))' /\ (Links!Leads(n, note[n]))'
    BY DEF LinksLead, Links!LinksLead
  <2>1. /\ link[n] \in DraftId \cup {Null} /\ Links!Leads(n, link[n])
        /\ note[n] \in DraftId \cup {Null} /\ Links!Leads(n, note[n])
    BY DEF Linked, LinkTypes, LinksLead, Links!LinksLead
  <2> QED BY <1>1, <1>4, <2>1, OpeningAssumption DEF Links!Leads
<1> QED BY <1>3, <1>5 DEF Linked

(* The steps of the links: a repair, a deletion, or none.                  *)
LEMMA LinkSteps ==
  [OpeningNext]_openingVars =>
    \/ UNCHANGED linkVars
    \/ Links!Repair
    \/ \E d \in DraftId : Links!DeleteIncident(d)
BY DEF OpeningNext, openingVars, Migrate, RepairAutomationLinks, Leave, Fail, DeleteIncident

LEMMA NextLinked == Linked /\ [OpeningNext]_openingVars => Linked'
<1> SUFFICES ASSUME Linked, [OpeningNext]_openingVars PROVE Linked'
  OBVIOUS
<1>1. CASE UNCHANGED linkVars
  BY <1>1 DEF linkVars, Linked, LinkTypes, LinksLead, Links!LinksLead, Links!Leads
<1>2. CASE Links!Repair
  BY <1>2, RepairKeepsLinked
<1>3. CASE \E d \in DraftId : Links!DeleteIncident(d)
  BY <1>3, DeletionKeepsLinked
<1> QED BY <1>1, <1>2, <1>3, LinkSteps

(* _repair_automation_links and delete_incident leave no link to a draft   *)
(* that is gone or asks about another event, in whatever order openers     *)
(* and deletions come and wherever an opener dies.                         *)
THEOREM LinksAlwaysLead == OpeningSpec => []LinksLead
<1>1. Linked => LinksLead
  BY DEF Linked
<1> QED BY InitLinked, NextLinked, <1>1, PTL DEF OpeningSpec

-----------------------------------------------------------------------------
(* A set of markers that is not empty has a last one.                      *)
LEMMA LastOfMarkers ==
  ASSUME NEW S \in SUBSET Links!Marker, S # {}
  PROVE  \E m \in S : \A n \in S : m >= n
<1> DEFINE R == {ss \in Nat \X Nat : ss[1] < ss[2]}
           behind == {Markers - n : n \in S}
<1> HIDE DEF behind
<1>1. Markers \in Nat /\ \A n \in S : n \in Nat /\ n <= Markers
  BY OpeningAssumption DEF Links!Marker
<1>2. behind \subseteq Nat /\ behind # {}
  BY <1>1 DEF behind
<1>3. IsWellFoundedOn(R, Nat)
  BY NatLessThanWellFounded DEF OpToRel
<1>4. \E x \in behind : \A y \in behind : ~ (<<y, x>> \in R)
  BY <1>2, <1>3, WFMin
<1>5. \A x, y \in Nat : <<y, x>> \notin R => x <= y
  OBVIOUS
<1>6. PICK x \in behind : \A y \in behind : x <= y
  <2> HIDE DEF R
  <2> QED BY <1>2, <1>4, <1>5
<1>7. PICK m \in S : x = Markers - m
  BY DEF behind
<1>8. ASSUME NEW n \in S PROVE m >= n
  <2>1. Markers - n \in behind
    BY DEF behind
  <2> QED BY <1>1, <1>6, <1>7, <2>1
<1> QED BY <1>8

(* The cursor moves to the last marker of a batch, and never back.         *)
LEMMA CursorMoves ==
  ASSUME cursor \in 0 .. Markers
  PROVE  /\ Links!MovedCursor \in cursor .. Markers
         /\ Links!MovedCursor # cursor =>
              /\ Links!MovedCursor \in Links!Pending
              /\ \A n \in Links!Pending : n <= Links!MovedCursor
<1>1. CASE Links!Pending = {}
  BY <1>1, OpeningAssumption DEF Links!MovedCursor
<1>2. CASE Links!Pending # {}
  <2>1. /\ Links!Pending \in SUBSET Links!Marker
        /\ \A n \in Links!Pending : cursor < n
    BY DEF Links!Pending
  <2>2. \E m \in Links!Pending : \A n \in Links!Pending : m >= n
    BY <1>2, <2>1, LastOfMarkers
  <2>3. /\ Links!MovedCursor \in Links!Pending
        /\ \A n \in Links!Pending : Links!MovedCursor >= n
    BY <1>2, <2>2 DEF Links!MovedCursor, Links!Max
  <2> QED BY <2>1, <2>3, OpeningAssumption DEF Links!Marker
<1> QED BY <1>1, <1>2

(* LinkRepair counts as everybody does.                                    *)
LEMMA SameCount == \A S : Links!Cardinality(S) = Cardinality(S)
BY DEF Links!Cardinality, Cardinality

(* A batch is the first of the markers that wait: who is before one of the *)
(* batch is in the batch.                                                  *)
LEMMA BatchIsFirst ==
  ASSUME NEW m \in Links!Pending, NEW n \in Links!Marker,
         cursor < n, link[n] = Null, n <= m
  PROVE  n \in Links!Pending
<1> DEFINE waiting == {k \in Links!Marker : cursor < k /\ link[k] = Null}
           UpTo(x) == {k \in waiting : k <= x}
<1>1. /\ m \in waiting /\ Cardinality(UpTo(m)) <= Batch
  BY SameCount DEF Links!Pending
<1>2. IsFiniteSet(UpTo(m))
  <2>1. IsFiniteSet(Links!Marker)
    BY FS_Interval, OpeningAssumption DEF Links!Marker
  <2> QED BY <2>1, FS_Subset, UpTo(m) \subseteq Links!Marker
<1>3. UpTo(n) \subseteq UpTo(m)
  BY <1>1, OpeningAssumption DEF Links!Marker
<1>4. /\ Cardinality(UpTo(n)) <= Cardinality(UpTo(m))
      /\ Cardinality(UpTo(n)) \in Nat /\ Cardinality(UpTo(m)) \in Nat
  BY <1>2, <1>3, FS_Subset, FS_CardinalityType
<1>5. Cardinality(UpTo(n)) <= Batch
  BY <1>1, <1>4, OpeningAssumption
<1> QED BY <1>5, SameCount DEF Links!Pending

CursorType == cursor \in 0 .. Markers

(* The cursor leaves no marker behind that has a draft of its own: such a  *)
(* marker is linked by the batch that takes the cursor past it.            *)
NothingSkipped ==
  /\ cursor <= cursor'
  /\ \A n \in Links!Marker :
       Links!Repairable(n) /\ n <= cursor' => link'[n] = Links!Match(n)

LEMMA RepairSkipsNothing ==
  ASSUME CursorType, LinkTypes, Links!Repair
  PROVE  NothingSkipped /\ CursorType'
<1>1. /\ cursor' = Links!MovedCursor
      /\ \A n \in Links!Marker : Links!Linked(n) => link'[n] = Links!Match(n)
  BY DEF Links!Repair
<1>2. cursor <= cursor' /\ CursorType'
  BY <1>1, CursorMoves, OpeningAssumption DEF CursorType
<1>3. ASSUME NEW n \in Links!Marker, Links!Repairable(n), n <= cursor'
      PROVE  link'[n] = Links!Match(n)
  <2>1. /\ link[n] = Null /\ cursor < n /\ Links!Match(n) # Null
    BY <1>3 DEF Links!Repairable
  <2>2. cursor' # cursor
    BY <1>2, <1>3, <2>1 DEF CursorType, Links!Marker
  <2>3. cursor' \in Links!Pending
    BY <1>1, <2>2, CursorMoves DEF CursorType
  <2>4. n \in Links!Pending
    BY <1>3, <2>1, <2>3, BatchIsFirst
  <2> QED BY <1>1, <2>1, <2>4 DEF Links!Linked
<1> QED BY <1>2, <1>3 DEF NothingSkipped

(* _repair_automation_links (difftrail/db.py) passes no marker that it     *)
(* could link, whatever drafts the user deletes in between, wherever an    *)
(* opener dies and however many markers without a draft fill its batches:  *)
(* the step that takes the durable cursor past a marker links it, and no   *)
(* step takes the cursor back.                                             *)
THEOREM RepairsSkipNothing == OpeningSpec => [][NothingSkipped]_openingVars
<1> DEFINE Good == CursorType /\ Linked
<1>1. OpeningInit => Good
  <2>1. OpeningInit => CursorType
    BY OpeningAssumption DEF OpeningInit, Links!Init, Unharmed, CursorType
  <2> QED BY <2>1, InitLinked
<1>2. Good /\ [OpeningNext]_openingVars => Good' /\ [NothingSkipped]_openingVars
  <2> SUFFICES ASSUME Good, [OpeningNext]_openingVars
               PROVE  CursorType' /\ [NothingSkipped]_openingVars
    BY NextLinked
  <2>1. CASE UNCHANGED cursor /\ CursorType
    BY <2>1, OpeningAssumption DEF CursorType, NothingSkipped, Links!Repairable, Links!Marker
  <2>2. CASE Links!Repair
    BY <2>2, RepairSkipsNothing DEF Linked
  <2> QED BY <2>1, <2>2, LinkSteps DEF linkVars, Links!DeleteIncident
<1> QED BY <1>1, <1>2, PTL DEF OpeningSpec

=============================================================================
