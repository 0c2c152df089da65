-------------------------- MODULE AutomationProofs --------------------------
(***************************************************************************)
(* Proofs about Automation, for every set of runners, events, drafts and   *)
(* settings and every bound.                                               *)
(*                                                                         *)
(* The cursor argument speaks of the covered rows: those of the baseline   *)
(* and those whose effects are there, waived or silenced by a burst.  Rows *)
(* stay covered, since nothing that was recorded goes away.  The           *)
(* cursor, the row a pass starts from and the rows a pass has gone through *)
(* without a failed draft are covered, so a pass that moves the cursor to  *)
(* the end of its batch moves it over covered rows only.                   *)
(***************************************************************************)
EXTENDS Automation, FiniteSetTheorems, TLAPS

Covered == {n \in Rows : n <= baseline \/ Handled(n)}

CursorSound ==
  /\ baseline <= Len(log)
  /\ cursor = -1 => Len(log) = baseline
  /\ cursor # -1 => baseline <= cursor
  /\ 1 .. cursor \subseteq Covered

PassSound(p) ==
  /\ pc[p] = "cursor" => baseline <= seen[p] /\ seen[p] <= Len(log)
  /\ pc[p] \notin {"idle", "cursor"} =>
       baseline <= before[p] /\ 1 .. before[p] \subseteq Covered
  /\ pc[p] \notin {"idle", "cursor", "baseline"} => cursor # -1
  /\ pc[p] \in {"event", "notify", "advance"} =>
       /\ baseline <= claimed[p] /\ claimed[p] <= Len(log)
       /\ at[p] >= 1
       /\ failed[p] \/ 1 .. at[p] - 1 \subseteq Covered
  /\ pc[p] = "notify" => at[p] <= claimed[p] /\ (failed[p] \/ DraftDone(at[p]))
  /\ pc[p] = "advance" => ~ failed[p] /\ at[p] > claimed[p]

IInv ==
  /\ TypeOK
  /\ CursorSound
  /\ \A p \in Runner : PassSound(p)

(* A function on 1..n is a sequence; notes are rebuilt this way.           *)
LEMMA FunctionIsSeq ==
  ASSUME NEW T, NEW n \in Nat, NEW f \in [1 .. n -> T]
  PROVE  f \in Seq(T)
  OBVIOUS

(* The bounds are numbers, and the settings are known ones.                *)
LEMMA Bounds ==
  ASSUME JournalTypeOK
  PROVE  /\ MaxEvents \in Nat /\ Len(log) \in 0 .. MaxEvents
         /\ cursor \in Int /\ cursor <= MaxEvents
         /\ config \in SUBSET Setting
  <1>1. MaxEvents \in Nat /\ Configs \subseteq SUBSET Setting
    BY AutomationAssumption
  <1>2. log \in Seq(Signal) /\ Len(log) <= MaxEvents
    BY DEF JournalTypeOK
  <1>3. Len(log) \in Nat
    BY <1>2
  <1>4. config \in SUBSET Setting
    BY <1>1 DEF JournalTypeOK
  <1>5. cursor \in Int /\ cursor <= MaxEvents
    BY <1>1 DEF JournalTypeOK
  <1> QED
    BY <1>1, <1>2, <1>3, <1>4, <1>5

(* The initial states satisfy the invariant.                               *)
LEMMA InitIInv == Init => IInv
  <1> SUFFICES ASSUME Init PROVE IInv
    OBVIOUS
  <1> USE AutomationAssumption DEF Init
  <1>1. PICK old \in {<<>>} \cup {<<x>> : x \in Signal} :
          Len(old) <= MaxEvents /\ log = old /\ baseline = Len(old)
    OBVIOUS
  <1>2. old \in Seq(Signal) /\ Len(old) \in Nat
    <2>1. CASE old = <<>>
      BY <2>1
    <2>2. CASE \E x \in Signal : old = <<x>>
      <3>1. PICK x \in Signal : old = <<x>>
        BY <2>2
      <3> QED
        BY <3>1
    <2> QED
      BY <1>1, <2>1, <2>2
  <1>3. TypeOK
    <2>1. JournalTypeOK
      BY <1>1, <1>2 DEF JournalTypeOK
    <2>2. EffectTypeOK
      BY DEF EffectTypeOK
    <2>3. PassTypeOK
      BY DEF PassTypeOK, Link
    <2> QED
      BY <2>1, <2>2, <2>3 DEF TypeOK
  <1>4. CursorSound
    BY <1>1, <1>2 DEF CursorSound
  <1>5. \A p \in Runner : PassSound(p)
    BY DEF PassSound
  <1> QED
    BY <1>3, <1>4, <1>5 DEF IInv

(* Every step keeps the types of the journal.                              *)
LEMMA NextJournalTypeOK ==
  ASSUME TypeOK, [Next]_vars
  PROVE  JournalTypeOK'
  <1> USE AutomationAssumption DEF TypeOK, JournalTypeOK, journalVars, Fault
  <1>1. ASSUME NEW p \in Runner, Record(p) PROVE JournalTypeOK'
    <2>1. PICK x \in Signal : log' = Append(log, x)
      BY <1>1 DEF Record
    <2>2. log' \in Seq(Signal) /\ Len(log') = Len(log) + 1
      BY <2>1
    <2> QED
      BY <1>1, <2>2 DEF Record
  <1>2. ASSUME NEW p \in Runner, SetBaseline(p) \/ Advance(p) PROVE JournalTypeOK'
    <2>1. MaxEvents \in Nat /\ before[p] \in 0 .. MaxEvents /\ claimed[p] \in 0 .. MaxEvents
      BY DEF PassTypeOK
    <2>2. cursor' \in -1 .. MaxEvents
      BY <1>2, <2>1 DEF SetBaseline, Advance
    <2> HIDE AutomationAssumption
    <2>3. UNCHANGED <<log, config, holder, baseline, faults>>
      BY <1>2 DEF SetBaseline, Advance
    <2> QED
      BY <2>2, <2>3
  <1>3. ASSUME NEW p \in Runner, StartScan(p) \/ TakeOver(p) \/ FinishScan(p)
        PROVE  JournalTypeOK'
    BY <1>3 DEF StartScan, TakeOver, FinishScan
  <1>4. ASSUME NEW p \in Runner, DraftFails(p) \/ Die(p) PROVE JournalTypeOK'
    BY <1>4 DEF DraftFails, Die
  <1>5. CASE UpdateConfig
    BY <1>5 DEF UpdateConfig
  <1>6. CASE UNCHANGED <<journalVars, baseline, faults>>
    BY <1>6
  <1>7. ASSUME NEW p \in Runner, ReadWatermark(p) \/ ReadCursor(p) \/ ScanRefused(p)
                                  \/ ScanLost(p) \/ Claim(p) \/ InvestigationDraft(p)
        PROVE  UNCHANGED <<journalVars, baseline, faults>>
    BY <1>7 DEF ReadWatermark, ReadCursor, ScanRefused, ScanLost, Claim, InvestigationDraft
  <1>8. ASSUME NEW p \in Runner, EventNotification(p) \/ Conclude(p)
        PROVE  UNCHANGED <<journalVars, baseline, faults>>
    BY <1>8 DEF EventNotification, Conclude
  <1>9. ASSUME NEW d \in Draft, DeleteIncident(d)
        PROVE  UNCHANGED <<journalVars, baseline, faults>>
    BY <1>9 DEF DeleteIncident
  <1>10. CASE UNCHANGED vars
    BY <1>10 DEF vars
  <1> QED
    BY <1>1, <1>2, <1>3, <1>4, <1>5, <1>6, <1>7, <1>8, <1>9, <1>10 DEF Next, Pass

(* Every step keeps the types of markers, drafts and notifications.        *)
LEMMA NextEffectTypeOK ==
  ASSUME TypeOK, \A p \in Runner : PassSound(p), [Next]_vars
  PROVE  EffectTypeOK'
  <1> USE AutomationAssumption DEF TypeOK, EffectTypeOK, effectVars
  <1>1. ASSUME NEW p \in Runner, InvestigationDraft(p) PROVE EffectTypeOK'
    <2>1. PICK d \in Draft : CreateDraft(at[p], d)
      BY <1>1 DEF InvestigationDraft
    <2>2. log[at[p]] \in Crash
      BY <1>1 DEF InvestigationDraft, DraftsFor
    <2>3. incident' \in [Draft -> Crash \cup {Unused, Deleted}]
      BY <2>1, <2>2 DEF CreateDraft, DraftExists, NewDraft, AdoptDraft
    <2>4. drafted' \in [EventId -> Link \cup {NoMarker}]
      BY <2>1 DEF CreateDraft, DraftExists, NewDraft, AdoptDraft, Link
    <2> QED
      BY <1>1, <2>3, <2>4 DEF InvestigationDraft
  <1>2. ASSUME NEW p \in Runner, EventNotification(p) PROVE EffectTypeOK'
    <2> DEFINE n == at[p]
    <2>1. n \in EventId /\ link[p] \in Link
      BY <1>2 DEF EventNotification, PassSound, PassTypeOK, EventId
    <2>2. told' \in [EventId -> Link \cup {NoMarker}]
      <3>1. CASE ~ Notifies(p, n)
        BY <1>2, <3>1 DEF EventNotification
      <3>2. CASE Notifies(p, n)
        <4>1. \E d \in Link \cup {NoMarker} : told' = [told EXCEPT ![n] = d]
          BY <1>2, <2>1, <3>2 DEF EventNotification, QueueNotification, RecordAction,
             CreateNotification, LinkAction, LinkNotification, Relink
        <4> QED
          BY <4>1
      <3> QED
        BY <3>1, <3>2
    <2>3. notes' \in [EventId -> Seq(Link)]
      <3>1. notes[n] \in Seq(Link)
        BY <2>1
      <3>2. CASE ~ Notifies(p, n)
        BY <1>2, <3>2 DEF EventNotification
      <3>3. CASE Notifies(p, n) /\ told[n] = NoMarker
        <4>1. Append(notes[n], link[p]) \in Seq(Link)
          BY <2>1, <3>1
        <4> QED
          BY <1>2, <3>3, <4>1 DEF EventNotification, QueueNotification, RecordAction,
             CreateNotification, LinkAction, LinkNotification
      <3>4. CASE Notifies(p, n) /\ told[n] # NoMarker
        <4> DEFINE new == [k \in 1 .. Len(notes[n]) |-> Relink(notes[n][k], link[p])]
        <4>1. notes' = [notes EXCEPT ![n] = new]
          BY <1>2, <3>4 DEF EventNotification, QueueNotification, RecordAction,
             CreateNotification, LinkAction, LinkNotification
        <4>2. new \in [1 .. Len(notes[n]) -> Link]
          BY <2>1, <3>1 DEF Relink
        <4>3. new \in Seq(Link)
          BY <3>1, <4>2, FunctionIsSeq
        <4> QED
          BY <4>1, <4>3
      <3> QED
        BY <3>2, <3>3, <3>4
    <2>4. waived' \subseteq EventId \X {"draft", "note"}
      <3>1. waived' = waived \cup Waives(p, n)
        BY <1>2 DEF EventNotification
      <3>2. Waives(p, n) \subseteq {n} \X {"draft", "note"}
        BY Zenon DEF Waives
      <3>3. {n} \X {"draft", "note"} \subseteq EventId \X {"draft", "note"}
        BY <2>1
      <3> HIDE DEF EffectTypeOK
      <3>4. waived \subseteq EventId \X {"draft", "note"}
        BY DEF EffectTypeOK
      <3> QED
        BY Zenon, <3>1, <3>2, <3>3, <3>4
    <2> QED
      BY <1>2, <2>2, <2>3, <2>4 DEF EventNotification
  <1>3. ASSUME NEW d \in Draft, DeleteIncident(d) PROVE EffectTypeOK'
    <2> DEFINE new(n) == [k \in 1 .. Len(notes[n]) |->
                            IF notes[n][k] = d THEN Null ELSE notes[n][k]]
    <2>1. notes' = [n \in EventId |-> new(n)]
      BY <1>3 DEF DeleteIncident
    <2>2. ASSUME NEW n \in EventId PROVE new(n) \in Seq(Link)
      <3>1. notes[n] \in Seq(Link)
        OBVIOUS
      <3>2. new(n) \in [1 .. Len(notes[n]) -> Link]
        BY <3>1 DEF Link
      <3> QED
        BY <3>1, <3>2, FunctionIsSeq
    <2>3. notes' \in [EventId -> Seq(Link)]
      BY <2>1, <2>2
    <2>4. drafted' \in [EventId -> Link \cup {NoMarker}]
      BY <1>3 DEF DeleteIncident, Link
    <2>5. told' \in [EventId -> Link \cup {NoMarker}]
      BY <1>3 DEF DeleteIncident, Link
    <2> QED
      BY <1>3, <2>3, <2>4, <2>5 DEF DeleteIncident
  <1>4. CASE UNCHANGED effectVars
    BY <1>4
  <1>5. ASSUME NEW p \in Runner, ReadWatermark(p) \/ ReadCursor(p) \/ SetBaseline(p)
                                  \/ StartScan(p) \/ TakeOver(p) \/ ScanRefused(p)
        PROVE  UNCHANGED effectVars
    BY <1>5 DEF ReadWatermark, ReadCursor, SetBaseline, StartScan, TakeOver, ScanRefused
  <1>6. ASSUME NEW p \in Runner, Record(p) \/ FinishScan(p) \/ ScanLost(p) \/ Claim(p)
                                  \/ DraftFails(p) \/ Conclude(p) \/ Advance(p) \/ Die(p)
        PROVE  UNCHANGED effectVars
    BY <1>6 DEF Record, FinishScan, ScanLost, Claim, DraftFails, Conclude, Advance, Die
  <1>7. UpdateConfig \/ UNCHANGED vars => UNCHANGED effectVars
    BY DEF UpdateConfig, vars
  <1> QED
    BY <1>1, <1>2, <1>3, <1>4, <1>5, <1>6, <1>7 DEF Next, Pass

(* Every step keeps the types of the locals.                               *)
LEMMA NextPassTypeOK ==
  ASSUME TypeOK, [Next]_vars
  PROVE  PassTypeOK'
  <1>0. /\ MaxEvents \in Nat /\ Len(log) \in 0 .. MaxEvents
        /\ cursor \in Int /\ cursor <= MaxEvents
        /\ config \in SUBSET Setting
    BY Bounds DEF TypeOK
  <1> USE <1>0 DEF TypeOK, PassTypeOK, passVars, Goto
  <1>1. ASSUME NEW p \in Runner, Leave(p) PROVE PassTypeOK'
    BY <1>1 DEF Leave, Link
  <1>2. ASSUME NEW p \in Runner, ReadWatermark(p) PROVE PassTypeOK'
    BY <1>2 DEF ReadWatermark
  <1>3. ASSUME NEW p \in Runner, ReadCursor(p) PROVE PassTypeOK'
    <2>1. before' \in [Runner -> 0 .. MaxEvents]
      BY <1>3 DEF ReadCursor
    <2>2. pc' = [pc EXCEPT ![p] = "scan"] \/ pc' = [pc EXCEPT ![p] = "baseline"]
      BY <1>3 DEF ReadCursor
    <2>3. seen' \in [Runner -> 0 .. MaxEvents]
      BY <1>3 DEF ReadCursor
    <2> QED
      BY <1>3, <2>1, <2>2, <2>3 DEF ReadCursor
  <1>4. ASSUME NEW p \in Runner, SetBaseline(p) \/ StartScan(p) \/ TakeOver(p) \/ FinishScan(p)
        PROVE  PassTypeOK'
    BY <1>4 DEF SetBaseline, StartScan, TakeOver, FinishScan
  <1>5. ASSUME NEW p \in Runner, Claim(p) PROVE PassTypeOK'
    <2>1. at' \in [Runner -> 0 .. MaxEvents + 1]
      BY <1>5 DEF Claim
    <2>2. settings' \in [Runner -> SUBSET Setting]
      BY <1>5 DEF Claim
    <2> QED
      BY <1>5, <2>1, <2>2 DEF Claim
  <1>6. ASSUME NEW p \in Runner, InvestigationDraft(p) PROVE PassTypeOK'
    BY <1>6 DEF InvestigationDraft, Link
  <1>7. ASSUME NEW p \in Runner, DraftFails(p) PROVE PassTypeOK'
    BY <1>7 DEF DraftFails
  <1>8. ASSUME NEW p \in Runner, EventNotification(p) PROVE PassTypeOK'
    BY <1>8 DEF EventNotification, Link
  <1>9. ASSUME NEW p \in Runner, Conclude(p), ~ failed[p] PROVE PassTypeOK'
    BY <1>9 DEF Conclude
  <1>10. ASSUME NEW p \in Runner,
                ScanRefused(p) \/ ScanLost(p) \/ Advance(p) \/ Die(p)
         PROVE  Leave(p)
    BY <1>10 DEF ScanRefused, ScanLost, Advance, Die
  <1>11. ASSUME NEW p \in Runner, Conclude(p), failed[p] PROVE Leave(p)
    BY <1>11 DEF Conclude
  <1>12. CASE UNCHANGED passVars
    BY <1>12
  <1>13. ASSUME NEW p \in Runner, Record(p) PROVE UNCHANGED passVars
    BY <1>13 DEF Record
  <1>14. ASSUME NEW d \in Draft, DeleteIncident(d) PROVE UNCHANGED passVars
    BY <1>14 DEF DeleteIncident
  <1>15. UpdateConfig \/ UNCHANGED vars => UNCHANGED passVars
    BY DEF UpdateConfig, vars
  <1> QED
    BY <1>1, <1>2, <1>3, <1>4, <1>5, <1>6, <1>7, <1>8, <1>9, <1>10, <1>11, <1>12,
       <1>13, <1>14, <1>15
    DEF Next, Pass

(* The three parts of the type invariant, put together.                     *)
LEMMA NextTypeOK ==
  ASSUME IInv, [Next]_vars
  PROVE  TypeOK'
  BY NextJournalTypeOK, NextEffectTypeOK, NextPassTypeOK DEF IInv, TypeOK

-----------------------------------------------------------------------------
(* The log and the waived effects only grow.                               *)
LEMMA LogGrows ==
  ASSUME TypeOK, [Next]_vars
  PROVE  /\ baseline' = baseline
         /\ Len(log') \in Nat /\ Len(log) <= Len(log')
         /\ \A n \in Rows : log'[n] = log[n]
         /\ waived \subseteq waived'
  <1>0. log \in Seq(Signal) /\ Len(log) \in Nat
    BY Bounds DEF TypeOK, JournalTypeOK
  <1> USE DEF journalVars, effectVars, Rows
  <1>1. ASSUME NEW p \in Runner, Record(p)
        PROVE  /\ Len(log') = Len(log) + 1 /\ \A n \in Rows : log'[n] = log[n]
               /\ UNCHANGED <<baseline, waived>>
    <2>1. PICK x \in Signal : log' = Append(log, x)
      BY <1>1 DEF Record
    <2> QED
      BY <1>0, <1>1, <2>1 DEF Record
  <1>2. ASSUME NEW p \in Runner, EventNotification(p)
        PROVE  UNCHANGED <<log, baseline>> /\ waived \subseteq waived'
    BY <1>2 DEF EventNotification
  <1>3. ASSUME NEW p \in Runner, ReadWatermark(p) \/ ReadCursor(p) \/ SetBaseline(p)
                                  \/ StartScan(p) \/ TakeOver(p) \/ ScanRefused(p)
        PROVE  UNCHANGED <<log, baseline, waived>>
    BY <1>3 DEF ReadWatermark, ReadCursor, SetBaseline, StartScan, TakeOver, ScanRefused
  <1>4. ASSUME NEW p \in Runner, FinishScan(p) \/ ScanLost(p) \/ Claim(p)
                                  \/ InvestigationDraft(p) \/ DraftFails(p)
        PROVE  UNCHANGED <<log, baseline, waived>>
    BY <1>4 DEF FinishScan, ScanLost, Claim, InvestigationDraft, DraftFails
  <1>5. ASSUME NEW p \in Runner, Conclude(p) \/ Advance(p) \/ Die(p)
        PROVE  UNCHANGED <<log, baseline, waived>>
    BY <1>5 DEF Conclude, Advance, Die
  <1>6. ASSUME NEW d \in Draft, DeleteIncident(d)
        PROVE  UNCHANGED <<log, baseline, waived>>
    BY <1>6 DEF DeleteIncident
  <1>7. UpdateConfig \/ UNCHANGED vars => UNCHANGED <<log, baseline, waived>>
    BY DEF UpdateConfig, vars
  <1> QED
    BY <1>0, <1>1, <1>2, <1>3, <1>4, <1>5, <1>6, <1>7 DEF Next, Pass

(* A marker is never removed; deletions only clear its link.               *)
LEMMA MarkersStay ==
  ASSUME TypeOK, [Next]_vars
  PROVE  \A n \in EventId : /\ drafted[n] # NoMarker => drafted'[n] # NoMarker
                            /\ told[n] # NoMarker => told'[n] # NoMarker
  <1> USE AutomationAssumption DEF TypeOK, EffectTypeOK, effectVars, Link
  <1>1. ASSUME NEW p \in Runner, InvestigationDraft(p)
        PROVE  /\ \A n \in EventId : drafted[n] # NoMarker => drafted'[n] # NoMarker
               /\ told' = told
    <2>1. PICK d \in Draft : CreateDraft(at[p], d)
      BY <1>1 DEF InvestigationDraft
    <2> QED
      BY <1>1, <2>1
      DEF InvestigationDraft, CreateDraft, DraftExists, NewDraft, AdoptDraft
  <1>2. ASSUME NEW p \in Runner, EventNotification(p)
        PROVE  /\ drafted' = drafted
               /\ \A n \in EventId : told[n] # NoMarker => told'[n] # NoMarker
    <2>1. link[p] # NoMarker
      BY DEF PassTypeOK
    <2> QED
      BY <1>2, <2>1 DEF EventNotification, QueueNotification, RecordAction,
         CreateNotification, LinkAction, LinkNotification, Relink
  <1>3. ASSUME NEW d \in Draft, DeleteIncident(d)
        PROVE  \A n \in EventId : /\ drafted[n] # NoMarker => drafted'[n] # NoMarker
                                  /\ told[n] # NoMarker => told'[n] # NoMarker
    BY <1>3 DEF DeleteIncident
  <1>4. ASSUME NEW p \in Runner, ReadWatermark(p) \/ ReadCursor(p) \/ SetBaseline(p)
                                  \/ StartScan(p) \/ TakeOver(p) \/ ScanRefused(p)
        PROVE  UNCHANGED <<drafted, told>>
    BY <1>4 DEF ReadWatermark, ReadCursor, SetBaseline, StartScan, TakeOver, ScanRefused
  <1>5. ASSUME NEW p \in Runner, Record(p) \/ FinishScan(p) \/ ScanLost(p) \/ Claim(p)
                                  \/ DraftFails(p) \/ Conclude(p) \/ Advance(p) \/ Die(p)
        PROVE  UNCHANGED <<drafted, told>>
    BY <1>5 DEF Record, FinishScan, ScanLost, Claim, DraftFails, Conclude, Advance, Die
  <1>6. UpdateConfig \/ UNCHANGED vars => UNCHANGED <<drafted, told>>
    BY DEF UpdateConfig, vars
  <1> QED
    BY <1>1, <1>2, <1>3, <1>4, <1>5, <1>6 DEF Next, Pass

(* The hardware changes of the journal only get more.                      *)
LEMMA BurstsStay ==
  ASSUME TypeOK, [Next]_vars, NEW n \in Rows, Outnumbered(n)
  PROVE  Outnumbered(n)'
  <1> DEFINE Severity == Hardware \cup MinorHardware
             Many == {m \in Rows : m > baseline /\ log[m] \in Severity}
  <1>1. /\ baseline' = baseline /\ Len(log) \in Nat /\ Len(log') \in Nat
        /\ Len(log) <= Len(log') /\ Burst \in Nat
    BY LogGrows, Bounds, AutomationAssumption DEF TypeOK
  <1>2. Rows \subseteq Rows' /\ (\A m \in Rows : log'[m] = log[m])
    BY <1>1, LogGrows DEF Rows
  <1>3. Many \in SUBSET Many' /\ Many' \in SUBSET (1 .. Len(log'))
    BY <1>1, <1>2 DEF Rows
  <1>4. IsFiniteSet(1 .. Len(log'))
    BY <1>1, FS_Interval
  <1>5. Cardinality(Many) >= Burst
    BY DEF Outnumbered
  <1>6. PICK A, B : A = Many /\ B = Many'
    OBVIOUS
  <1>7. Cardinality(A) <= Cardinality(B) /\ Cardinality(A) \in Nat /\ Cardinality(B) \in Nat
    BY <1>3, <1>4, <1>6, FS_Subset, FS_CardinalityType
  <1>8. Cardinality(Many') >= Burst
    BY <1>1, <1>5, <1>6, <1>7
  <1> QED
    BY <1>2, <1>8 DEF Outnumbered

(* Rows stay covered, and a row whose draft is done stays so.              *)
LEMMA CoveredGrows ==
  ASSUME TypeOK, [Next]_vars
  PROVE  /\ Covered \subseteq Covered'
         /\ \A n \in Rows : DraftDone(n) => DraftDone(n)'
  <1>1. Rows \subseteq EventId /\ Rows \subseteq Rows'
    BY LogGrows, Bounds DEF Rows, EventId, TypeOK
  <1>2. \A n \in Rows : DraftDone(n) => DraftDone(n)'
    BY <1>1, LogGrows, MarkersStay DEF DraftDone
  <1>3. \A n \in Rows : NoteDone(n) => NoteDone(n)'
    BY <1>1, LogGrows, MarkersStay, BurstsStay DEF NoteDone
  <1> QED
    BY <1>1, <1>2, <1>3, LogGrows DEF Covered, Handled

(* Once there is a cursor there always is.                                 *)
LEMMA CursorStays ==
  ASSUME TypeOK, [Next]_vars
  PROVE  cursor # -1 => cursor' # -1
  <1> USE DEF journalVars
  <1>1. ASSUME NEW p \in Runner, SetBaseline(p) \/ Advance(p) PROVE cursor' # -1
    <2>1. MaxEvents \in Nat /\ before[p] \in 0 .. MaxEvents /\ claimed[p] \in 0 .. MaxEvents
      BY Bounds DEF TypeOK, PassTypeOK
    <2> QED
      BY <1>1, <2>1 DEF SetBaseline, Advance
  <1>2. ASSUME NEW p \in Runner, ReadWatermark(p) \/ ReadCursor(p) \/ StartScan(p)
                                  \/ TakeOver(p) \/ ScanRefused(p) \/ Record(p)
        PROVE  cursor' = cursor
    BY <1>2 DEF ReadWatermark, ReadCursor, StartScan, TakeOver, ScanRefused, Record
  <1>3. ASSUME NEW p \in Runner, FinishScan(p) \/ ScanLost(p) \/ Claim(p)
                                  \/ InvestigationDraft(p) \/ DraftFails(p)
        PROVE  cursor' = cursor
    BY <1>3 DEF FinishScan, ScanLost, Claim, InvestigationDraft, DraftFails
  <1>4. ASSUME NEW p \in Runner, EventNotification(p) \/ Conclude(p) \/ Die(p)
        PROVE  cursor' = cursor
    BY <1>4 DEF EventNotification, Conclude, Die
  <1>5. ASSUME NEW d \in Draft, DeleteIncident(d) PROVE cursor' = cursor
    BY <1>5 DEF DeleteIncident
  <1>6. UpdateConfig \/ UNCHANGED vars => cursor' = cursor
    BY DEF UpdateConfig, vars
  <1> QED
    BY <1>1, <1>2, <1>3, <1>4, <1>5, <1>6 DEF Next, Pass

(* An idle pass holds nothing that could be wrong.                         *)
LEMMA IdleSound ==
  ASSUME NEW q \in Runner, pc'[q] = "idle"
  PROVE  PassSound(q)'
  BY DEF PassSound

(* A pass whose locals a step leaves alone stays sound, since rows stay     *)
(* covered and markers stay.                                               *)
LEMMA UntouchedSound ==
  ASSUME IInv, [Next]_vars, NEW q \in Runner,
         pc'[q] = pc[q], seen'[q] = seen[q], before'[q] = before[q],
         claimed'[q] = claimed[q], at'[q] = at[q], failed'[q] = failed[q]
  PROVE  PassSound(q)'
  <1>1. PassSound(q) /\ TypeOK
    BY DEF IInv
  <1>2. /\ baseline' = baseline
        /\ Len(log) \in Nat /\ Len(log') \in Nat /\ Len(log) <= Len(log')
    BY <1>1, LogGrows, Bounds DEF TypeOK
  <1>3. /\ Covered \subseteq Covered'
        /\ \A n \in Rows : DraftDone(n) => DraftDone(n)'
        /\ cursor # -1 => cursor' # -1
    BY <1>1, CoveredGrows, CursorStays
  <1>4. MaxEvents \in Nat /\ seen[q] \in Nat /\ claimed[q] \in Nat /\ at[q] \in Nat
    BY <1>1, Bounds DEF TypeOK, PassTypeOK
  <1>5. pc[q] = "cursor" => baseline' <= seen'[q] /\ seen'[q] <= Len(log')
    BY <1>1, <1>2, <1>4 DEF PassSound, TypeOK, JournalTypeOK
  <1>6. pc[q] \notin {"idle", "cursor"} =>
          baseline' <= before'[q] /\ 1 .. before'[q] \subseteq Covered'
    BY <1>1, <1>2, <1>3 DEF PassSound
  <1>7. pc[q] \in {"event", "notify", "advance"} =>
          /\ baseline' <= claimed'[q] /\ claimed'[q] <= Len(log')
          /\ at'[q] >= 1
          /\ failed'[q] \/ 1 .. at'[q] - 1 \subseteq Covered'
    BY <1>1, <1>2, <1>3, <1>4 DEF PassSound
  <1>8. pc[q] = "notify" => at'[q] <= claimed'[q] /\ (failed'[q] \/ DraftDone(at[q])')
    <2>1. pc[q] = "notify" => at[q] \in Rows
      BY <1>1, <1>2, <1>4 DEF PassSound, Rows
    <2> QED
      BY <1>1, <1>3, <2>1 DEF PassSound
  <1> QED
    BY <1>1, <1>3, <1>5, <1>6, <1>7, <1>8 DEF PassSound

(* The journal side of the argument: events are only recorded when there   *)
(* is a cursor, and a pass moves the cursor over covered rows.             *)
LEMMA NextCursorSound ==
  ASSUME IInv, [Next]_vars
  PROVE  CursorSound'
  <1>0. TypeOK /\ CursorSound /\ \A p \in Runner : PassSound(p)
    BY DEF IInv
  <1>1. /\ baseline' = baseline /\ baseline <= Len(log)
        /\ Len(log) \in Nat /\ Len(log') \in Nat /\ Len(log) <= Len(log')
        /\ baseline \in Nat /\ cursor \in Int
    BY <1>0, LogGrows, Bounds, AutomationAssumption
    DEF TypeOK, CursorSound, JournalTypeOK
  <1>2. Covered \subseteq Covered' /\ (cursor # -1 => cursor' # -1)
    BY <1>0, CoveredGrows, CursorStays
  <1>3. baseline' <= Len(log')
    BY <1>1
  <1>4. CASE UNCHANGED <<log, cursor>>
    BY <1>0, <1>1, <1>2, <1>4 DEF CursorSound
  <1>5. ASSUME NEW p \in Runner, Record(p) PROVE CursorSound'
    <2>1. cursor # -1 /\ cursor' = cursor
      BY <1>0, <1>5 DEF Record, PassSound
    <2> QED
      BY <1>0, <1>1, <1>2, <1>3, <2>1 DEF CursorSound
  <1>6. ASSUME NEW p \in Runner, SetBaseline(p) PROVE CursorSound'
    <2>1. cursor' = before[p] /\ 1 .. before[p] \subseteq Covered /\ baseline <= before[p]
      BY <1>0, <1>6 DEF SetBaseline, Goto, PassSound
    <2>2. before[p] \in Nat
      BY <1>0, Bounds DEF TypeOK, PassTypeOK
    <2> QED
      BY <1>1, <1>2, <1>3, <2>1, <2>2 DEF CursorSound
  <1>7. ASSUME NEW p \in Runner, Advance(p) PROVE CursorSound'
    <2>1. claimed[p] \in Nat /\ at[p] \in Nat
      BY <1>0, Bounds DEF TypeOK, PassTypeOK
    <2>2. 1 .. at[p] - 1 \subseteq Covered /\ at[p] > claimed[p]
      BY <1>0, <1>7 DEF Advance, PassSound
    <2>3. 1 .. claimed[p] \subseteq 1 .. at[p] - 1
      BY <2>1, <2>2
    <2>4. cursor' = claimed[p] /\ baseline <= claimed[p]
      BY <1>0, <1>7 DEF Advance, PassSound
    <2> QED
      BY <1>1, <1>2, <1>3, <2>1, <2>2, <2>3, <2>4 DEF CursorSound
  <1> USE DEF journalVars
  <1>8. ASSUME NEW p \in Runner, ReadWatermark(p) \/ ReadCursor(p) \/ StartScan(p)
                                  \/ TakeOver(p) \/ ScanRefused(p) \/ FinishScan(p)
        PROVE  UNCHANGED <<log, cursor>>
    BY <1>8 DEF ReadWatermark, ReadCursor, StartScan, TakeOver, ScanRefused, FinishScan
  <1>9. ASSUME NEW p \in Runner, ScanLost(p) \/ Claim(p) \/ InvestigationDraft(p)
        PROVE  UNCHANGED <<log, cursor>>
    BY <1>9 DEF ScanLost, Claim, InvestigationDraft
  <1>10. ASSUME NEW p \in Runner, DraftFails(p) \/ EventNotification(p)
                                   \/ Conclude(p) \/ Die(p)
         PROVE  UNCHANGED <<log, cursor>>
    BY <1>10 DEF DraftFails, EventNotification, Conclude, Die
  <1>11. ASSUME NEW d \in Draft, DeleteIncident(d) PROVE UNCHANGED <<log, cursor>>
    BY <1>11 DEF DeleteIncident
  <1>12. UpdateConfig \/ UNCHANGED vars => UNCHANGED <<log, cursor>>
    BY DEF UpdateConfig, vars
  <1> QED
    BY <1>4, <1>5, <1>6, <1>7, <1>8, <1>9, <1>10, <1>11, <1>12 DEF Next, Pass

(* The pass side: what each step leaves behind for the pass that takes it. *)
LEMMA ReadingSound ==
  ASSUME IInv, [Next]_vars, NEW p \in Runner, ReadWatermark(p) \/ ReadCursor(p)
  PROVE  PassSound(p)'
  <1>0. TypeOK /\ CursorSound /\ PassSound(p) /\ Covered \subseteq Covered'
    BY CoveredGrows DEF IInv
  <1>1. /\ MaxEvents \in Nat /\ Len(log) \in 0 .. MaxEvents /\ baseline \in Nat
        /\ cursor \in Int /\ seen[p] \in Nat
    BY <1>0, Bounds DEF TypeOK, JournalTypeOK, PassTypeOK
  <1>2. CASE ReadWatermark(p)
    <2>1. pc'[p] = "cursor" /\ seen'[p] = Len(log) /\ log' = log /\ baseline' = baseline
      BY <1>0, <1>2 DEF ReadWatermark, Goto, TypeOK, PassTypeOK, journalVars
    <2> QED
      BY <1>0, <1>1, <2>1 DEF PassSound, CursorSound
  <1>3. CASE ReadCursor(p)
    <2>1. pc[p] = "cursor" /\ cursor' = cursor /\ baseline' = baseline
      BY <1>3 DEF ReadCursor, journalVars
    <2>2. CASE cursor \in 0 .. seen[p]
      <3>1. pc'[p] = "scan" /\ before'[p] = cursor
        BY <1>0, <1>3, <2>2 DEF ReadCursor, TypeOK, PassTypeOK
      <3> QED
        BY <1>0, <1>1, <2>1, <2>2, <3>1 DEF PassSound, CursorSound
    <2>3. CASE cursor \notin 0 .. seen[p]
      <3>1. pc'[p] = "baseline" /\ before'[p] = seen[p]
        BY <1>0, <1>3, <2>3 DEF ReadCursor, TypeOK, PassTypeOK
      <3>2. baseline <= seen[p] /\ seen[p] <= Len(log)
        BY <1>0, <2>1 DEF PassSound
      <3>3. 1 .. seen[p] \subseteq Covered
        <4>1. CASE cursor = -1
          BY <1>0, <1>1, <3>2, <4>1 DEF CursorSound, Covered, Rows
        <4>2. CASE cursor # -1
          <5>1. cursor \in -1 .. MaxEvents
            BY <1>0 DEF TypeOK, JournalTypeOK
          <5>2. 1 .. seen[p] \subseteq 1 .. cursor
            BY <1>1, <2>3, <4>2, <5>1
          <5> QED
            BY <1>0, <5>2 DEF CursorSound
        <4> QED
          BY <4>1, <4>2
      <3> QED
        BY <1>0, <2>1, <3>1, <3>2, <3>3 DEF PassSound
    <2> QED
      BY <2>2, <2>3
  <1> QED
    BY <1>2, <1>3

(* From the cursor to the claim: the rows before the batch are covered.    *)
LEMMA ScanningSound ==
  ASSUME IInv, [Next]_vars, NEW p \in Runner,
         SetBaseline(p) \/ StartScan(p) \/ TakeOver(p) \/ FinishScan(p) \/ Claim(p)
  PROVE  PassSound(p)'
  <1>0. /\ TypeOK /\ CursorSound /\ PassSound(p) /\ Covered \subseteq Covered'
        /\ (cursor # -1 => cursor' # -1)
    BY CoveredGrows, CursorStays DEF IInv
  <1>1. /\ MaxEvents \in Nat /\ Len(log) \in 0 .. MaxEvents /\ before[p] \in Nat
    BY <1>0, Bounds DEF TypeOK, PassTypeOK
  <1>2. CASE SetBaseline(p)
    <2>1. /\ pc[p] = "baseline" /\ pc'[p] = "scan"
          /\ before'[p] = before[p] /\ cursor' = before[p] /\ baseline' = baseline
      BY <1>0, <1>2 DEF SetBaseline, Goto, TypeOK, PassTypeOK
    <2> QED
      BY <1>0, <1>1, <2>1 DEF PassSound
  <1>3. CASE StartScan(p) \/ TakeOver(p) \/ FinishScan(p)
    <2>1. /\ pc[p] \in {"scan", "scanning"} /\ pc'[p] \in {"scanning", "claim"}
          /\ before'[p] = before[p] /\ baseline' = baseline
      BY <1>0, <1>3 DEF StartScan, TakeOver, FinishScan, Goto, TypeOK, PassTypeOK
    <2> QED
      BY <1>0, <2>1 DEF PassSound
  <1>4. CASE Claim(p)
    <2>1. /\ pc[p] = "claim" /\ pc'[p] = "event" /\ log' = log /\ baseline' = baseline
          /\ before'[p] = before[p] /\ claimed'[p] = Len(log) /\ at'[p] = before[p] + 1
      BY <1>0, <1>4 DEF Claim, Goto, TypeOK, PassTypeOK, journalVars
    <2>2. /\ at'[p] >= 1 /\ at'[p] - 1 = before[p]
          /\ baseline' <= claimed'[p] /\ claimed'[p] <= Len(log')
      BY <1>0, <1>1, <2>1 DEF CursorSound
    <2> QED
      BY <1>0, <2>1, <2>2 DEF PassSound
  <1> QED
    BY <1>2, <1>3, <1>4

(* After the draft transaction the draft is there, or the pass has failed. *)
LEMMA DraftingSound ==
  ASSUME IInv, [Next]_vars, NEW p \in Runner, InvestigationDraft(p) \/ DraftFails(p)
  PROVE  PassSound(p)'
  <1>0. /\ TypeOK /\ PassSound(p) /\ Covered \subseteq Covered'
        /\ (cursor # -1 => cursor' # -1)
    BY CoveredGrows, CursorStays DEF IInv
  <1>1. /\ pc[p] = "event" /\ pc'[p] = "notify" /\ at[p] <= claimed[p]
        /\ log' = log /\ UNCHANGED <<before, claimed, at, baseline>>
        /\ (failed'[p] \/ InvestigationDraft(p))
    BY <1>0 DEF InvestigationDraft, DraftFails, TypeOK, PassTypeOK, journalVars
  <1>2. ASSUME InvestigationDraft(p) PROVE DraftDone(at[p])'
    <2>1. PICK d \in Draft : CreateDraft(at[p], d)
      BY <1>2 DEF InvestigationDraft
    <2>2. at[p] \in EventId
      BY <1>0, <1>1, Bounds DEF PassSound, TypeOK, PassTypeOK, EventId
    <2>3. drafted'[at[p]] = d /\ d # NoMarker
      BY <1>0, <2>1, <2>2, AutomationAssumption
      DEF CreateDraft, DraftExists, NewDraft, AdoptDraft, TypeOK, EffectTypeOK
    <2>4. drafted'[at'[p]] # NoMarker
      BY <1>1, <2>3
    <2> QED
      BY <2>4 DEF DraftDone
  <1>3. failed'[p] \/ DraftDone(at[p])'
    BY <1>1, <1>2
  <1>4. failed[p] => failed'[p]
    BY <1>0 DEF InvestigationDraft, DraftFails, TypeOK, PassTypeOK
  <1>5. /\ baseline' <= before'[p] /\ baseline' <= claimed'[p] /\ claimed'[p] <= Len(log')
        /\ at'[p] >= 1 /\ at'[p] <= claimed'[p]
        /\ failed'[p] \/ 1 .. at'[p] - 1 \subseteq Covered'
        /\ 1 .. before'[p] \subseteq Covered' /\ cursor' # -1
    BY <1>0, <1>1, <1>4 DEF PassSound
  <1> QED
    BY <1>1, <1>3, <1>5 DEF PassSound

(* The burst of a batch is one of the journal since the baseline.          *)
LEMMA BurstsAreMany ==
  ASSUME TypeOK, NEW p \in Runner, NEW n, log[n] \in Hardware, HardwareBurst(p),
         baseline <= before[p], claimed[p] <= Len(log)
  PROVE  Outnumbered(n)
  <1> DEFINE Severity == Hardware \cup MinorHardware
             Many == {m \in Rows : m > baseline /\ log[m] \in Severity}
  <1>1. /\ baseline \in Nat /\ before[p] \in Nat /\ claimed[p] \in Nat
        /\ Len(log) \in Nat /\ Burst \in Nat
    BY Bounds, AutomationAssumption DEF TypeOK, PassTypeOK, JournalTypeOK
  <1>2. PICK A, B : A = {m \in Batch(p) : log[m] \in Severity} /\ B = Many
    OBVIOUS
  <1>3. A \in SUBSET B /\ B \in SUBSET (1 .. Len(log))
    BY <1>1, <1>2 DEF Batch, Rows
  <1>4. IsFiniteSet(1 .. Len(log))
    BY <1>1, FS_Interval
  <1>5. Cardinality(A) <= Cardinality(B) /\ Cardinality(A) \in Nat /\ Cardinality(B) \in Nat
    BY <1>3, <1>4, FS_Subset, FS_CardinalityType
  <1>6. Cardinality(A) >= Burst
    BY <1>2 DEF HardwareBurst
  <1>7. Cardinality(Many) >= Burst
    BY <1>1, <1>2, <1>5, <1>6
  <1> QED
    BY <1>7 DEF Outnumbered

(* An event that the pass goes past is handled, or its draft failed.       *)
LEMMA NotifyingSound ==
  ASSUME IInv, [Next]_vars, NEW p \in Runner, EventNotification(p)
  PROVE  PassSound(p)'
  <1>a. PICK n : n = at[p]
    OBVIOUS
  <1>0. /\ TypeOK /\ PassSound(p) /\ Covered \subseteq Covered'
        /\ (cursor # -1 => cursor' # -1)
    BY CoveredGrows, CursorStays DEF IInv
  <1>1. /\ pc[p] \in {"event", "notify"} /\ pc'[p] = "event" /\ n <= claimed[p]
        /\ at'[p] = n + 1 /\ log' = log /\ UNCHANGED <<before, claimed, failed, drafted, baseline>>
        /\ waived' = waived \cup Waives(p, n)
        /\ (pc[p] = "notify" \/ ~ DraftsFor(p, n))
    BY <1>0, <1>a DEF EventNotification, TypeOK, PassTypeOK, journalVars
  <1>2. n \in Nat /\ n >= 1 /\ claimed[p] \in Nat /\ claimed[p] <= Len(log) /\ n \in Rows
        /\ n \in EventId
    BY <1>0, <1>1, <1>a, Bounds DEF PassSound, TypeOK, PassTypeOK, Rows, EventId
  <1>3. NoteDone(n)'
    <2>1. CASE Notifies(p, n)
      <3>1. told'[n] # NoMarker
        <4>1. link[p] # NoMarker
          BY <1>0, AutomationAssumption DEF TypeOK, PassTypeOK, Link
        <4>2. QueueNotification(n, link[p])
          BY <1>a, <2>1 DEF EventNotification
        <4>3. told'[n] \in {told[n], link[p]} /\ (told[n] = NoMarker => told'[n] = link[p])
          BY <1>0, <1>2, <4>2 DEF QueueNotification, RecordAction,
             CreateNotification, LinkAction, LinkNotification, Relink, TypeOK, EffectTypeOK
        <4> QED
          BY <4>1, <4>3
      <3> QED
        BY <3>1 DEF NoteDone
    <2>2. CASE Omits(p, n, "note")
      <3>1. <<n, "note">> \in Waives(p, n)
        BY <2>2 DEF Waives
      <3>2. <<n, "note">> \in waived'
        BY <1>1, <3>1
      <3> QED
        BY <3>2 DEF NoteDone
    <2>3. CASE log[n] \notin Announced
      BY <1>1, <2>3 DEF NoteDone
    <2>4. CASE log[n] \in Hardware /\ HardwareBurst(p)
      <3>1. Outnumbered(n)
        BY <1>0, <1>1, <1>2, <2>4, BurstsAreMany DEF PassSound
      <3>2. Outnumbered(n)'
        BY <1>0, <1>2, <3>1, BurstsStay
      <3> QED
        BY <3>2 DEF NoteDone
    <2> QED
      BY <2>1, <2>2, <2>3, <2>4 DEF Notifies, Omits, Announced
  <1>4. failed[p] \/ DraftDone(n)'
    <2>1. CASE pc[p] = "notify"
      BY <1>0, <1>2, <1>a, <2>1, CoveredGrows DEF PassSound
    <2>2. CASE ~ DraftsFor(p, n) /\ log[n] \in Crash
      <3>1. <<n, "draft">> \in Waives(p, n)
        BY <2>2 DEF Waives, Omits, DraftsFor
      <3>2. <<n, "draft">> \in waived'
        BY <1>1, <3>1
      <3> QED
        BY <3>2 DEF DraftDone
    <2>3. CASE log[n] \notin Crash
      BY <1>1, <2>3 DEF DraftDone
    <2> QED
      BY <1>1, <2>1, <2>2, <2>3
  <1>5. failed[p] \/ n \in Covered'
    BY <1>1, <1>2, <1>3, <1>4 DEF Covered, Handled, Rows
  <1>6. 1 .. at'[p] - 1 = (1 .. n - 1) \cup {n} /\ at'[p] >= 1
    BY <1>1, <1>2
  <1>7. failed'[p] \/ 1 .. at'[p] - 1 \subseteq Covered'
    BY <1>0, <1>1, <1>5, <1>6, <1>a DEF PassSound
  <1> QED
    BY <1>0, <1>1, <1>2, <1>6, <1>7, <1>a DEF PassSound

(* A pass that reaches its end without a failed draft may advance.         *)
LEMMA ConcludingSound ==
  ASSUME IInv, [Next]_vars, NEW p \in Runner, Conclude(p), ~ failed[p]
  PROVE  PassSound(p)'
  <1>0. /\ TypeOK /\ PassSound(p) /\ Covered \subseteq Covered'
        /\ (cursor # -1 => cursor' # -1)
    BY CoveredGrows, CursorStays DEF IInv
  <1>1. /\ pc[p] = "event" /\ pc'[p] = "advance" /\ at[p] > claimed[p]
        /\ log' = log /\ UNCHANGED <<before, claimed, at, failed, baseline>>
    BY <1>0 DEF Conclude, TypeOK, PassTypeOK, journalVars
  <1> QED
    BY <1>0, <1>1 DEF PassSound

(* Steps of other passes and of the user leave the locals of q alone.      *)
LEMMA OthersDoNotTouch ==
  ASSUME TypeOK, NEW q \in Runner, NEW p \in Runner, p # q,
         Pass(p) \/ Record(p) \/ TakeOver(p) \/ DraftFails(p) \/ Die(p)
  PROVE  /\ pc'[q] = pc[q] /\ seen'[q] = seen[q] /\ before'[q] = before[q]
         /\ claimed'[q] = claimed[q] /\ at'[q] = at[q] /\ failed'[q] = failed[q]
  <1> USE DEF TypeOK, PassTypeOK, Goto, passVars
  <1>1. ASSUME Leave(p)
        PROVE  /\ pc'[q] = pc[q] /\ seen'[q] = seen[q] /\ before'[q] = before[q]
               /\ claimed'[q] = claimed[q] /\ at'[q] = at[q] /\ failed'[q] = failed[q]
    BY <1>1 DEF Leave
  <1>2. ScanRefused(p) \/ ScanLost(p) \/ Advance(p) \/ Die(p) => Leave(p)
    BY DEF ScanRefused, ScanLost, Advance, Die
  <1>3. CASE ReadWatermark(p) \/ ReadCursor(p)
    BY <1>3 DEF ReadWatermark, ReadCursor
  <1>4. CASE SetBaseline(p) \/ StartScan(p) \/ TakeOver(p) \/ FinishScan(p)
    BY <1>4 DEF SetBaseline, StartScan, TakeOver, FinishScan
  <1>5. CASE Claim(p) \/ InvestigationDraft(p) \/ DraftFails(p)
    BY <1>5 DEF Claim, InvestigationDraft, DraftFails
  <1>6. CASE EventNotification(p) \/ Record(p)
    BY <1>6 DEF EventNotification, Record
  <1>7. CASE Conclude(p)
    BY <1>1, <1>7 DEF Conclude
  <1> QED
    BY <1>1, <1>2, <1>3, <1>4, <1>5, <1>6, <1>7 DEF Pass

(* Every step keeps every pass sound.                                      *)
LEMMA NextPassSound ==
  ASSUME IInv, [Next]_vars
  PROVE  \A q \in Runner : PassSound(q)'
  <1> SUFFICES ASSUME NEW q \in Runner PROVE PassSound(q)'
    OBVIOUS
  <1>0. TypeOK
    BY DEF IInv
  <1>1. ASSUME NEW p \in Runner, p # q,
               Pass(p) \/ Record(p) \/ TakeOver(p) \/ DraftFails(p) \/ Die(p)
        PROVE  PassSound(q)'
    BY <1>0, <1>1, OthersDoNotTouch, UntouchedSound
  <1>2. ASSUME Leave(q) PROVE PassSound(q)'
    <2>1. pc'[q] = "idle"
      BY <1>0, <1>2 DEF Leave, TypeOK, PassTypeOK
    <2> QED
      BY <2>1, IdleSound
  <1>3. ScanRefused(q) \/ ScanLost(q) \/ Advance(q) \/ Die(q) => Leave(q)
    BY DEF ScanRefused, ScanLost, Advance, Die
  <1>4. CASE Conclude(q)
    <2>1. CASE failed[q]
      BY <1>2, <1>4, <2>1 DEF Conclude
    <2>2. CASE ~ failed[q]
      BY <1>4, <2>2, ConcludingSound
    <2> QED
      BY <2>1, <2>2
  <1>5. CASE UNCHANGED passVars
    BY <1>5, UntouchedSound DEF passVars
  <1>6. Record(q) \/ (\E d \in Draft : DeleteIncident(d)) \/ UpdateConfig \/ UNCHANGED vars
          => UNCHANGED passVars
    BY DEF Record, DeleteIncident, UpdateConfig, vars
  <1>7. CASE ReadWatermark(q) \/ ReadCursor(q)
    BY <1>7, ReadingSound
  <1>8. CASE SetBaseline(q) \/ StartScan(q) \/ TakeOver(q) \/ FinishScan(q) \/ Claim(q)
    BY <1>8, ScanningSound
  <1>9. CASE InvestigationDraft(q) \/ DraftFails(q)
    BY <1>9, DraftingSound
  <1>10. CASE EventNotification(q)
    BY <1>10, NotifyingSound
  <1> QED
    BY <1>1, <1>2, <1>3, <1>4, <1>5, <1>6, <1>7, <1>8, <1>9, <1>10 DEF Next, Pass

(* The invariant is inductive.                                             *)
LEMMA Inductive ==
  ASSUME IInv, [Next]_vars
  PROVE  IInv'
  BY NextTypeOK, NextCursorSound, NextPassSound DEF IInv

(* The invariant holds in every reachable state.                           *)
LEMMA Invariance == Spec => []IInv
  <1>1. Init => IInv
    BY InitIInv
  <1>2. IInv /\ [Next]_vars => IInv'
    BY Inductive
  <1> QED
    BY <1>1, <1>2, PTL DEF Spec

(* Every reachable state is well typed, whatever the numbers of passes,    *)
(* events, drafts and faults: links lead to drafts or are NULL, and no     *)
(* cursor, batch or position runs past the journal's rows.                 *)
THEOREM TypesHold == Spec => []TypeOK
  <1>1. IInv => TypeOK
    BY DEF IInv
  <1> QED
    BY <1>1, Invariance, PTL

(* The cursor of process_scan_events never passes over an event whose      *)
(* draft and notification are neither there nor waived by the settings,    *)
(* unless it is a hardware change among as many as make a burst.           *)
THEOREM CursorSkipsNothing == Spec => []NoEventSkipped
  <1>1. IInv => NoEventSkipped
    <2> SUFFICES ASSUME IInv, NEW n \in Rows, baseline < n, n <= cursor
                 PROVE  Handled(n)
      BY DEF NoEventSkipped
    <2>1. n \in 1 .. cursor /\ baseline \in Nat
      BY AutomationAssumption, Bounds DEF IInv, TypeOK, JournalTypeOK, Rows
    <2>2. n \in Covered
      BY <2>1 DEF IInv, CursorSound
    <2> QED
      BY <2>1, <2>2 DEF Covered, Rows
  <1> QED
    BY <1>1, Invariance, PTL

-----------------------------------------------------------------------------
(* Only three kinds of steps touch drafts, markers and notifications.      *)
LEMMA EffectSteps ==
  ASSUME [Next]_vars
  PROVE  \/ \E p \in Runner : InvestigationDraft(p) \/ EventNotification(p)
         \/ \E d \in Draft : DeleteIncident(d)
         \/ UNCHANGED <<incident, drafted, told, notes>>
  <1> USE DEF effectVars
  <1>1. ASSUME NEW p \in Runner, ReadWatermark(p) \/ ReadCursor(p) \/ SetBaseline(p)
                                  \/ StartScan(p) \/ TakeOver(p) \/ ScanRefused(p)
        PROVE  UNCHANGED <<incident, drafted, told, notes>>
    BY <1>1 DEF ReadWatermark, ReadCursor, SetBaseline, StartScan, TakeOver, ScanRefused
  <1>2. ASSUME NEW p \in Runner, Record(p) \/ FinishScan(p) \/ ScanLost(p) \/ Claim(p)
                                  \/ DraftFails(p) \/ Conclude(p) \/ Advance(p) \/ Die(p)
        PROVE  UNCHANGED <<incident, drafted, told, notes>>
    BY <1>2 DEF Record, FinishScan, ScanLost, Claim, DraftFails, Conclude, Advance, Die
  <1>3. UpdateConfig \/ UNCHANGED vars => UNCHANGED <<incident, drafted, told, notes>>
    BY DEF UpdateConfig, vars
  <1> QED
    BY <1>1, <1>2, <1>3 DEF Next, Pass

(* Queueing adds a notification only with its marker; deleting and         *)
(* relinking treat both alike.                                             *)
LEMMA NotifiedOnceStep ==
  ASSUME IInv, NotifiedOnce, [Next]_vars
  PROVE  NotifiedOnce'
  <1>0. TypeOK /\ EffectTypeOK /\ PassTypeOK
    BY DEF IInv, TypeOK
  <1>1. ASSUME NEW p \in Runner, EventNotification(p), Notifies(p, at[p])
        PROVE  NotifiedOnce'
    <2>1. PICK m : m = at[p]
      OBVIOUS
    <2>2. PICK x : x = link[p]
      OBVIOUS
    <2>3. m \in EventId /\ x # NoMarker
      BY <1>0, <1>1, <2>1, <2>2, Bounds, AutomationAssumption
      DEF EventNotification, IInv, PassSound, TypeOK, PassTypeOK, EventId, Link
    <2>4. QueueNotification(m, x)
      BY <1>1, <2>1, <2>2 DEF EventNotification
    <2>5. ASSUME NEW n \in EventId
          PROVE  notes'[n] = IF told'[n] = NoMarker THEN <<>> ELSE <<told'[n]>>
      <3>1. CASE n # m
        BY <1>0, <2>4, <3>1 DEF NotifiedOnce, QueueNotification, RecordAction,
           CreateNotification, LinkAction, LinkNotification, EffectTypeOK
      <3>2. CASE n = m /\ told[m] = NoMarker
        <4>1. notes[m] = <<>> /\ notes'[m] = Append(notes[m], x) /\ told'[m] = x
          BY <1>0, <2>3, <2>4, <3>2 DEF NotifiedOnce, QueueNotification, RecordAction,
             CreateNotification, LinkAction, LinkNotification, EffectTypeOK
        <4> QED
          BY <2>3, <3>2, <4>1
      <3>3. CASE n = m /\ told[m] # NoMarker
        <4>1. /\ notes[m] = <<told[m]>> /\ told'[m] = Relink(told[m], x)
              /\ notes'[m] = [k \in 1 .. Len(notes[m]) |-> Relink(notes[m][k], x)]
          BY <1>0, <2>3, <2>4, <3>3 DEF NotifiedOnce, QueueNotification, RecordAction,
             CreateNotification, LinkAction, LinkNotification, EffectTypeOK
        <4>2. notes'[m] = <<Relink(told[m], x)>>
          BY <4>1
        <4>3. Relink(told[m], x) # NoMarker
          BY <2>3, <3>3 DEF Relink
        <4> QED
          BY <3>3, <4>1, <4>2, <4>3
      <3> QED
        BY <3>1, <3>2, <3>3
    <2> QED
      BY <2>5 DEF NotifiedOnce
  <1>2. ASSUME NEW d \in Draft, DeleteIncident(d) PROVE NotifiedOnce'
    <2> DEFINE Unlink(x) == IF x = d THEN Null ELSE x
    <2>1. ASSUME NEW n \in EventId
          PROVE  notes'[n] = IF told'[n] = NoMarker THEN <<>> ELSE <<told'[n]>>
      <3>1. /\ told'[n] = Unlink(told[n])
            /\ notes'[n] = [k \in 1 .. Len(notes[n]) |-> Unlink(notes[n][k])]
        BY <1>2 DEF DeleteIncident
      <3>2. d # NoMarker /\ Null # NoMarker
        BY AutomationAssumption
      <3>3. CASE told[n] = NoMarker
        BY <3>1, <3>2, <3>3 DEF NotifiedOnce
      <3>4. CASE told[n] # NoMarker
        <4>1. notes[n] = <<told[n]>>
          BY <3>4 DEF NotifiedOnce
        <4>2. notes'[n] = <<Unlink(told[n])>>
          BY <3>1, <4>1
        <4> QED
          BY <3>1, <3>2, <3>4, <4>2
      <3> QED
        BY <3>3, <3>4
    <2> QED
      BY <2>1 DEF NotifiedOnce
  <1>3. CASE UNCHANGED <<told, notes>>
    BY <1>3 DEF NotifiedOnce
  <1>4. ASSUME NEW p \in Runner,
               InvestigationDraft(p) \/ (EventNotification(p) /\ ~ Notifies(p, at[p]))
        PROVE  UNCHANGED <<told, notes>>
    BY <1>4 DEF InvestigationDraft, EventNotification
  <1> QED
    BY <1>1, <1>2, <1>3, <1>4, EffectSteps

(* _queue_event_notification: the marker of a notification exists exactly  *)
(* when its one notification does, and both carry the same link.           *)
THEOREM NotifiedExactlyOnce == Spec => []NotifiedOnce
  <1>1. Init => NotifiedOnce
    BY DEF Init, NotifiedOnce
  <1>2. IInv /\ NotifiedOnce /\ [Next]_vars => NotifiedOnce'
    BY NotifiedOnceStep
  <1> QED
    BY <1>1, <1>2, Invariance, PTL DEF Spec

(* A draft belongs to a recorded crash signal.                             *)
LinkSound ==
  /\ \A n \in EventId : drafted[n] \in Draft =>
       n \in Rows /\ log[n] \in Crash /\ incident[drafted[n]] = log[n]
  /\ \A d \in Draft : incident[d] \in Crash => \E n \in EventId : drafted[n] = d

(* Creating or adopting a draft for a row keeps the links sound.           *)
LEMMA CreateDraftKeepsLinks ==
  ASSUME TypeOK, LinkSound, NEW m \in Rows, NEW d \in Draft,
         log[m] \in Crash, log' = log, CreateDraft(m, d)
  PROVE  LinkSound'
  <1>0. /\ EffectTypeOK /\ m \in EventId /\ Rows' = Rows
        /\ Null \notin Draft /\ NoMarker \notin Draft /\ Unused \notin Crash
    BY Bounds, AutomationAssumption DEF TypeOK, Rows, EventId
  <1>1. CASE DraftExists(m, d)
    BY <1>0, <1>1 DEF LinkSound, DraftExists
  <1>2. CASE drafted[m] \notin Draft /\ NewDraft(m, d)
    <2>1. /\ incident[d] = Unused
          /\ incident' = [incident EXCEPT ![d] = log[m]]
          /\ drafted' = [drafted EXCEPT ![m] = d]
      BY <1>2 DEF NewDraft
    <2>2. \A n \in EventId : drafted[n] # d
      BY <1>0, <2>1 DEF LinkSound
    <2>3. ASSUME NEW n \in EventId, drafted'[n] \in Draft
          PROVE  n \in Rows /\ log[n] \in Crash /\ incident'[drafted'[n]] = log[n]
      BY <1>0, <2>1, <2>2, <2>3 DEF LinkSound, EffectTypeOK
    <2>4. ASSUME NEW c \in Draft, incident'[c] \in Crash
          PROVE  \E n \in EventId : drafted'[n] = c
      <3>1. CASE c = d
        BY <1>0, <2>1, <3>1 DEF EffectTypeOK
      <3>2. CASE c # d
        <4>1. PICK n \in EventId : drafted[n] = c
          BY <1>0, <2>1, <2>4, <3>2 DEF LinkSound, EffectTypeOK
        <4>2. n # m
          BY <1>2, <4>1
        <4> QED
          BY <1>0, <2>1, <4>1, <4>2 DEF EffectTypeOK
      <3> QED
        BY <3>1, <3>2
    <2> QED
      BY <1>0, <2>3, <2>4 DEF LinkSound
  <1>3. CASE drafted[m] = Null /\ AdoptDraft(m, d)
    <2>1. /\ incident[d] = log[m] /\ incident' = incident
          /\ drafted' = [drafted EXCEPT ![m] = d]
      BY <1>3 DEF AdoptDraft, Matching
    <2> QED
      BY <1>0, <1>3, <2>1 DEF LinkSound, EffectTypeOK
  <1> QED
    BY <1>0, <1>1, <1>2, <1>3 DEF CreateDraft

(* Every step keeps the links sound.                                       *)
LEMMA LinkSoundStep ==
  ASSUME IInv, LinkSound, [Next]_vars
  PROVE  LinkSound'
  <1>0. TypeOK /\ EffectTypeOK
    BY DEF IInv, TypeOK
  <1>1. Len(log) \in Nat /\ Rows \subseteq Rows' /\ \A n \in Rows : log'[n] = log[n]
    BY <1>0, LogGrows, Bounds DEF TypeOK, Rows
  <1>2. ASSUME NEW p \in Runner, InvestigationDraft(p) PROVE LinkSound'
    <2>1. PICK m : m = at[p]
      OBVIOUS
    <2>2. m \in Rows /\ log[m] \in Crash /\ log' = log
      BY <1>0, <1>1, <1>2, <2>1, Bounds
      DEF InvestigationDraft, DraftsFor, IInv, PassSound, TypeOK, PassTypeOK, Rows,
          journalVars
    <2>3. PICK d \in Draft : CreateDraft(m, d)
      BY <1>2, <2>1 DEF InvestigationDraft
    <2> QED
      BY <1>0, <2>2, <2>3, CreateDraftKeepsLinks
  <1>3. ASSUME NEW d \in Draft, DeleteIncident(d) PROVE LinkSound'
    <2>1. /\ incident' = [incident EXCEPT ![d] = Deleted]
          /\ drafted' = [n \in EventId |-> IF drafted[n] = d THEN Null ELSE drafted[n]]
          /\ log' = log
      BY <1>3 DEF DeleteIncident, journalVars
    <2>2. Null \notin Draft /\ Deleted \notin Crash
      BY AutomationAssumption
    <2> QED
      BY <1>0, <1>1, <2>1, <2>2 DEF LinkSound, EffectTypeOK
  <1>4. CASE UNCHANGED <<incident, drafted>>
    BY <1>1, <1>4 DEF LinkSound
  <1>5. ASSUME NEW p \in Runner, EventNotification(p) PROVE UNCHANGED <<incident, drafted>>
    BY <1>5 DEF EventNotification
  <1> QED
    BY <1>2, <1>3, <1>4, <1>5, EffectSteps

(* Markers lead to the drafts of their own events, and every automatic     *)
(* draft is led to, through retries, adoptions and deletions.              *)
THEOREM LinksHold == Spec => []DraftsAreLinked
  <1>1. Init => LinkSound
    BY AutomationAssumption DEF Init, LinkSound
  <1>2. IInv /\ LinkSound /\ [Next]_vars => LinkSound'
    BY LinkSoundStep
  <1>3. LinkSound => DraftsAreLinked
    BY DEF LinkSound, DraftsAreLinked
  <1> QED
    BY <1>1, <1>2, <1>3, Invariance, PTL DEF Spec

(* A marker's draft changes only when the user deletes it: no retry makes  *)
(* a second draft for an event that has one.                               *)
THEOREM DraftsAreKept == Spec => DraftsStick
  <1> DEFINE Kept == \A n \in EventId : drafted[n] \in Draft /\ drafted'[n] # drafted[n] =>
                        drafted'[n] = Null /\ incident'[drafted[n]] = Deleted
  <1>1. IInv /\ [Next]_vars => Kept
    <2> SUFFICES ASSUME IInv, [Next]_vars PROVE Kept
      OBVIOUS
    <2>0. EffectTypeOK /\ Null \notin Draft /\ NoMarker \notin Draft
      BY AutomationAssumption DEF IInv, TypeOK
    <2>1. ASSUME NEW p \in Runner, InvestigationDraft(p) PROVE Kept
      <3>1. PICK m : m = at[p]
        OBVIOUS
      <3>2. PICK d \in Draft : CreateDraft(m, d)
        BY <2>1, <3>1 DEF InvestigationDraft
      <3> QED
        BY <2>0, <3>2 DEF CreateDraft, DraftExists, NewDraft, AdoptDraft, EffectTypeOK
    <2>2. ASSUME NEW d \in Draft, DeleteIncident(d) PROVE Kept
      BY <2>0, <2>2 DEF DeleteIncident, EffectTypeOK
    <2>3. CASE UNCHANGED drafted
      BY <2>3
    <2>4. ASSUME NEW p \in Runner, EventNotification(p) PROVE UNCHANGED drafted
      BY <2>4 DEF EventNotification
    <2> QED
      BY <2>1, <2>2, <2>3, <2>4, EffectSteps
  <1>2. IInv /\ [Next]_vars => [Kept]_vars
    BY <1>1
  <1> QED
    BY <1>2, Invariance, PTL DEF Spec, DraftsStick

=============================================================================
