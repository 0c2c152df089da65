-------------------------- MODULE MCInvestigation --------------------------
(***************************************************************************)
(* Instances of Investigation for TLC.  A time unit is six hours, the      *)
(* length of the onset tolerance.                                          *)
(***************************************************************************)
EXTENDS Investigation, TLC

Decay == [gap \in 0 .. 28 |->
  <<1000, 920, 846, 779, 717, 659, 607, 558, 513, 472, 435, 400, 368, 338, 311, 287, 264,
    243, 223, 205, 189, 174, 160, 147, 135, 125, 115, 105, 97>>[gap + 1]]

Now == 28

Event(id, kind, time, source, area, action, names) ==
  [id |-> id, time |-> time, kind |-> kind, source |-> source, subsystem |-> area,
   action |-> action, names |-> names, refresh |-> FALSE, perUser |-> FALSE]
Changed(id, time, source, area, names) ==
  Event(id, "change", time, source, area, "updated", names)
Noticed(id, time, area, action, names) ==
  Event(id, "symptom", time, "eventlog", area, action, names)

ChangeKinds == {<<"drivers", "driver", {}>>, <<"drivers", "graphics", {}>>,
                <<"apps", "application", {"game"}>>, <<"apps", "application", {"tool"}>>,
                <<"services", "startup", {"tool"}>>}
SymptomKinds == {<<"driver", "driver_reset", {}>>, <<"application", "crash", {"game"}>>,
                 <<"application", "hang", {}>>, <<"general", "unexpected_restart", {}>>}

ChangesAt(id, times) == {Changed(id, t, k[1], k[2], k[3]) : t \in times, k \in ChangeKinds}
PerUser(id) == {[Changed(id, 26, "services", "startup", {"tool"}) EXCEPT !.perUser = p,
                                                                       !.refresh = ~ p] :
                p \in BOOLEAN}
SymptomsAt(id, times) == {Noticed(id, t, k[1], k[2], k[3]) : t \in times, k \in SymptomKinds}

Request(area, start, entity, suspect) ==
  [subsystem |-> area, start |-> start, end |-> Now, lookback |-> 24,
   entity |-> entity, suspect |-> suspect]
Requests == {Request("driver", 27, "Absent", "Absent"),
             Request("graphics", 27, "Absent", "Absent"),
             Request("application", 27, "Absent", "tool"),
             Request("application", 27, "game", "Absent"),
             Request("application", 28, "Vague", "game"),
             Request("general", 27, "Absent", "Absent")}

Everything == {"updates", "apps", "drivers", "services", "tasks", "startup", "devices",
               "eventlog"}
Report(id, finished, status, collected, failed) ==
  [id |-> id, finished |-> finished, status |-> status, collected |-> collected,
   failed |-> failed, errors |-> status # "ok"]
FullScan(id, finished) == Report(id, finished, "ok", Everything, {})

(* A quiet journal: nothing happens beside the reviews.                    *)
Quiet(recorded, scanned, asked) ==
  [events |-> recorded, scans |-> scanned, requests |-> asked, now |-> Now, busy |-> FALSE,
   reviews |-> 1,
   initialized |-> Everything \ {"tasks"}, live |-> {}, report |-> FullScan(9, 0)]

Rankings ==
  {Quiet({c, d, s}, {FullScan(1, 26)}, {r}) :
     c \in ChangesAt(1, {10, 25}), d \in ChangesAt(2, {18, 26, 27}) \cup PerUser(2),
     s \in SymptomsAt(3, {9, 17, 25, 27, 28}), r \in Requests}

(* One change between two symptoms; what it changes may have a name.       *)
Onsets ==
  {Quiet({c, s, w}, {FullScan(1, 26)}, {r}) :
     c \in ChangesAt(1, {20, 25}) \cup {Changed(1, 25, "drivers", "driver", {"tool"})},
     s \in SymptomsAt(2, {9, 24}) \cup {Noticed(2, 24, "driver", "crash", {"tool"})},
     w \in SymptomsAt(3, {26}),
     r \in {Request(area, 27, name, "Absent") :
               area \in {"driver", "application"}, name \in {"Absent", "game"}}}

Scans ==
  {Report(1, 26, st, col, fail) : st \in {"ok", "partial"},
     col \in {Everything, Everything \ {"apps"}, Legacy}, fail \in {{}, {"apps"}}}
  \cup {Report(1, 25, st, Legacy, Legacy) : st \in {"ok", "partial", "interrupted"}}
  \cup {FullScan(1, f) : f \in {2, 20, 27}}

Coverages ==
  {Quiet({Changed(1, 25, "apps", "application", {"game"}),
          Noticed(3, 27, "application", "crash", {"game"})},
         {[a EXCEPT !.id = 1], [b EXCEPT !.id = 2]}, {r}) :
     a \in Scans, b \in Scans, r \in Requests}
  \cup {Quiet(e, {}, {r}) : e \in {{}, {Changed(1, 25, "drivers", "driver", {})}},
                            r \in Requests}
  \cup {Quiet({}, {FullScan(1, 26)}, {r}) : r \in Requests}

(* A busy one: a scan finds a change while reviews, feedback and deletions *)
(* go on.                                                                  *)
Busy ==
  {[events |-> {Changed(1, 25, "apps", "application", {"game"}),
                Noticed(3, 27, "application", "crash", {"game"})},
    scans |-> {FullScan(1, 26)},
    requests |-> {Request("application", start, "Absent", "Absent")},
    now |-> Now, busy |-> TRUE, reviews |-> 2, initialized |-> Everything,
    live |-> {Changed(4, 0, "apps", "application", {"tool"})},
    report |-> FullScan(9, 0)] : start \in {27, 29}}

Interchangeable == Permutations(Thread) \cup Permutations(Id)

AllHistories == Rankings \cup Onsets \cup Coverages \cup Busy

=============================================================================
