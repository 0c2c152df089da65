---------------------------- MODULE Correlation ----------------------------
(***************************************************************************)
(* How recorded changes are ranked for a reported problem, and what is     *)
(* concluded from the ranking (difftrail/correlation.py).                  *)
(*                                                                         *)
(* Times are counted in units of the length of the onset tolerance.  The   *)
(* identity keys that _identity_key makes of names, titles and paths are   *)
(* elements of Name.  Scores are in hundred thousandths, the decay         *)
(* exp(-hours/72) is the table Temporal in thousandths.  Sentences, labels *)
(* and the positive evidence that only explains a score are left out.      *)
(***************************************************************************)
EXTENDS Integers, Sequences, FiniteSets, FiniteSetsExt

CONSTANTS
  Name,       \* identity keys
  Absent,     \* a name that was not given
  Temporal,   \* gap between change and onset -> its temporal score
  Tolerance,  \* ONSET_SYMPTOM_TOLERANCE
  Limit       \* leads that are kept (8)

ASSUME AbsentAssumption == Absent \notin Name
ASSUME TemporalAssumption == \A gap \in DOMAIN Temporal : Temporal[gap] \in Nat
ASSUME BoundsAssumption == Tolerance \in Nat /\ Limit \in Nat \ {0}

Subsystem == {"general", "graphics", "audio", "network", "bluetooth", "driver", "startup",
              "windows-update", "application", "device"}

(* An event of the journal.  names are its identity keys; refresh marks a  *)
(* folded refresh of per-user services, perUser a change of one of them.   *)
EventOK(e) ==
  /\ DOMAIN e = {"id", "time", "kind", "source", "subsystem", "action", "names",
                 "refresh", "perUser"}
  /\ e.kind \in {"change", "symptom"} /\ e.subsystem \in Subsystem
  /\ e.names \subseteq Name /\ {e.refresh, e.perUser} \subseteq BOOLEAN
  /\ {e.id, e.time} \subseteq Nat

(* What the user reports.  A text without an identity key is neither a     *)
(* Name nor Absent.                                                        *)
RequestOK(r) ==
  /\ DOMAIN r = {"subsystem", "start", "end", "lookback", "entity", "suspect"}
  /\ r.subsystem \in Subsystem /\ r.start <= r.end /\ r.lookback >= 1

-----------------------------------------------------------------------------
(* Areas and identities.                                                   *)
Compatible(area) ==
  CASE area = "graphics" -> {"graphics", "driver", "device"}
    [] area = "audio" -> {"audio", "driver", "device"}
    [] area = "network" -> {"network", "driver", "device"}
    [] area = "bluetooth" -> {"bluetooth", "network", "driver", "device"}
    [] area = "driver" -> {"driver", "graphics", "audio", "network", "bluetooth", "device"}
    [] area = "startup" -> {"startup", "application", "driver", "windows-update"}
    [] area = "windows-update" -> {"windows-update", "driver", "application", "startup"}
    [] area = "application" -> {"application", "driver", "startup", "windows-update"}
    [] area = "device" -> {"device", "driver", "audio", "network", "bluetooth", "graphics"}
    [] area = "general" -> Subsystem

SourcePriority(source) ==
  CASE source \in {"updates", "drivers"} -> 5
    [] source = "devices" -> 4
    [] source \in {"services", "tasks", "startup"} -> 3
    [] source = "apps" -> 1
    [] OTHER -> 0

EntityScoped(e) == e.source \in {"apps", "services", "startup", "tasks"}
NonSpecific == {"failure", "reliability_event", "unexpected_restart", "unexpected_shutdown"}
EntitySpecific == {"crash", "hang"}

Relevance(area, changed) ==
  CASE area = "general" -> 450
    [] area # "general" /\ changed = area -> 1000
    [] area # "general" /\ changed # area /\ changed \in Compatible(area) -> 720
    [] OTHER -> 120

SubsystemMatches(area, other) == other \in Compatible(area)

(* Missing names are never a mismatch.                                     *)
IdentityRelation(keys, others) ==
  CASE keys = {} \/ others = {} -> "unknown"
    [] keys \cap others # {} -> "match"
    [] OTHER -> "mismatch"

ContextRelation(text, e) == IdentityRelation({text} \cap Name, e.names)
SymptomRelation(e, s) == IdentityRelation(e.names, s.names)

(* A symptom that cannot belong to the change's entity.                    *)
Excluded(r, e, s) ==
  IF r.entity # Absent
  THEN \/ ContextRelation(r.entity, s) = "mismatch"
       \/ EntityScoped(e) /\ ContextRelation(r.entity, e) = "mismatch"
  ELSE /\ EntityScoped(e)
       /\ s.action \in EntitySpecific
       /\ SymptomRelation(e, s) = "mismatch"

ExactIdentity(r, e, s) ==
  IF r.entity # Absent
  THEN ContextRelation(r.entity, e) = "match" /\ ContextRelation(r.entity, s) = "match"
  ELSE SymptomRelation(e, s) = "match"

Linked(r, e, s) ==
  /\ SubsystemMatches(r.subsystem, e.subsystem)
  /\ SubsystemMatches(r.subsystem, s.subsystem)
  /\ ~ Excluded(r, e, s)

StronglyLinked(r, e, s) ==
  /\ Linked(r, e, s)
  /\ r.subsystem # "general" /\ s.action \notin NonSpecific
  /\ e.subsystem = s.subsystem
  /\ EntityScoped(e) => ExactIdentity(r, e, s)

-----------------------------------------------------------------------------
(* Windows.                                                                *)
LookbackStart(r) == r.start - r.lookback
WindowStart(r) == Max({LookbackStart(r), r.start - Tolerance})
WindowEnd(r) == Min({r.end, r.start + Tolerance})

InLookback(E, r) ==
  {e \in E : e.kind = "change" /\ LookbackStart(r) <= e.time /\ e.time <= r.start}
Changes(E, r) == {e \in InLookback(E, r) : ~ e.refresh}
Symptoms(E) == {s \in E : s.kind = "symptom"}

Near(E, r, e) ==
  {s \in Symptoms(E) : /\ e.time <= s.time /\ s.time <= WindowEnd(r)
                       /\ WindowStart(r) <= s.time}
Supporting(E, r, e) == {s \in Near(E, r, e) : Linked(r, e, s)}
StrongSupport(E, r, e) == {s \in Near(E, r, e) : StronglyLinked(r, e, s)}
Prior(E, r, e) ==
  {s \in Symptoms(E) : LookbackStart(r) <= s.time /\ s.time < e.time /\ Linked(r, e, s)}
EarlierOnset(E, r, e) ==
  {s \in Symptoms(E) : e.time <= s.time /\ s.time < WindowStart(r) /\ Linked(r, e, s)}
Misnamed(E, r, e) ==
  {s \in Near(E, r, e) : /\ EntityScoped(e) /\ s.action \in EntitySpecific
                         /\ SymptomRelation(e, s) = "mismatch"
                         /\ SubsystemMatches(r.subsystem, s.subsystem)}

(* The symptoms around a change, and the changes that share its source.    *)
Around(E, r, e) ==
  [supporting |-> Supporting(E, r, e), strong |-> StrongSupport(E, r, e),
   prior |-> Prior(E, r, e), earlier |-> EarlierOnset(E, r, e),
   misnamed |-> Misnamed(E, r, e),
   alike |-> {c \in Changes(E, r) : c.source = e.source}]

-----------------------------------------------------------------------------
(* Counter-evidence and scores, from what is around a change.              *)
WrongEntity(r, e) == EntityScoped(e) /\ ContextRelation(r.entity, e) = "mismatch"

Counters(r, e, around) ==
  LET On(condition, signal) == IF condition THEN {signal} ELSE {} IN
  UNION {On(around.supporting = {}, "no symptom"),
         On(around.supporting # {} /\ around.strong = {}, "not specific"),
         On(WrongEntity(r, e), "wrong entity"),
         On(~ WrongEntity(r, e) /\ around.misnamed # {}, "wrong symptom"),
         On(e.perUser, "per-user service"),
         On(around.prior # {}, "symptom before change"),
         On(around.earlier # {}, "symptom before onset"),
         On(r.subsystem = "general", "broad area")}

Penalty(counters) ==
  LET Points(signal, points) == IF signal \in counters THEN points ELSE 0 IN
  Points("wrong entity", 12000) + Points("per-user service", 20000)
  + Points("symptom before change", 12000) + Points("symptom before onset", 8000)

Baseline(around) ==
  LET clean == around.prior = {} /\ around.earlier = {} IN
  CASE clean /\ around.strong # {} -> 900
    [] clean /\ around.supporting # {} /\ around.strong = {} -> 650
    [] ~ clean /\ around.supporting # {} -> 500
    [] OTHER -> 150

Rarity(around) == Max({350, 1000 \div Cardinality(around.alike)})

Bonus(text, e, points) == IF ContextRelation(text, e) = "match" THEN points ELSE 0

Score(r, e, around, counters) ==
  LET points == 35 * Temporal[r.start - e.time] + 35 * Relevance(r.subsystem, e.subsystem)
                + 20 * Baseline(around) + 10 * Rarity(around)
                + Bonus(r.entity, e, 12000) + Bonus(r.suspect, e, 6000)
                - Penalty(counters)
  IN Max({0, Min({100000, points})})

(* Mutant of Confidence: counter-evidence only lowers the score.           *)
ConfidenceByScore(around, counters, score) ==
  IF around.supporting = {} THEN "Low"
  ELSE IF score >= 67000 THEN "High"
  ELSE IF score >= 43000 THEN "Medium"
  ELSE "Low"

Confidence(around, counters, score) ==
  IF around.supporting = {} THEN "Low"
  ELSE IF score >= 67000 /\ around.strong # {} /\ counters = {} THEN "High"
  ELSE IF score >= 43000 THEN "Medium"
  ELSE "Low"

-----------------------------------------------------------------------------
(* The ranking: leads that name something else come last, then the score   *)
(* decides, then the source, the time and the id.                          *)
Hypothesis(r, e, around) ==
  LET counters == Counters(r, e, around)
      score == Score(r, e, around, counters)
  IN [event |-> e, score |-> score, counters |-> counters,
      confidence |-> Confidence(around, counters, score)]

SortKey(h) ==
  <<IF h.counters \cap {"wrong entity", "wrong symptom"} # {} THEN 1 ELSE 0,
    -h.score, -SourcePriority(h.event.source), h.event.time, h.event.id>>

Precedes(g, h) ==
  \E k \in 1 .. 5 : /\ SortKey(g)[k] < SortKey(h)[k]
                    /\ \A j \in 1 .. k - 1 : SortKey(g)[j] = SortKey(h)[j]

Margin == 2500
WithinMargin(g, h) == g.score - h.score \in -Margin .. Margin

(* A strong lead with an equal is not strong.                              *)
Normalized(H, h) ==
  LET ties == Cardinality({g \in H : WithinMargin(g, h)}) IN
  [event |-> h.event, score |-> h.score, counters |-> h.counters, ties |-> ties,
   confidence |-> IF ties >= 2 /\ h.confidence = "High" THEN "Medium" ELSE h.confidence]

Ranking(H) ==
  LET Place(h) == 1 + Cardinality({g \in H : Precedes(g, h)}) IN
  [k \in 1 .. Min({Limit, Cardinality(H)}) |->
     Normalized(H, CHOOSE h \in H : Place(h) = k)]

RankCandidates(E, r) ==
  Ranking({Hypothesis(r, e, Around(E, r, e)) : e \in Changes(E, r)})

(* The conclusion from a ranking of the events E under a coverage.         *)
Assess(r, ranked, E, coverage) ==
  CASE coverage.limited \/ ~ coverage.known -> "limited_coverage"
    [] ~ coverage.limited /\ coverage.known /\ InLookback(E, r) = {} -> "no_recent_changes"
    [] /\ ~ coverage.limited /\ coverage.known /\ ranked # <<>>
       /\ ranked[1].confidence = "High" /\ ranked[1].ties = 1 -> "candidate_found"
    [] OTHER -> "insufficient_evidence"

=============================================================================
