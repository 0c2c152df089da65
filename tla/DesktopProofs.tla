---------------------------- MODULE DesktopProofs ----------------------------
(***************************************************************************)
(* Proofs about the start of the backend and about its pipes, for every    *)
(* PipeSize; that the dashboard leaves the shell and its backend to their  *)
(* own steps, so that what is proved of Backend holds of Desktop; and that *)
(* the edits of the dashboard say what the journal says, for every number  *)
(* of reviews.                                                             *)
(***************************************************************************)
EXTENDS Desktop, FiniteSetTheorems, WellFoundedInduction, TLAPS

\* Nothing has been started before Spawn, and the reader's one message is in
\* the channel only after the sender is used up.
Started ==
  /\ shell = "new" => child = "none" /\ channel = <<>> /\ outReader = "none"
  /\ channel \in Seq({"port", "error"})
  /\ sender => channel = <<>>
  /\ Len(channel) <= 1

Inv == NoOrphan /\ Started

\* The reader finds room for what it sends: sync_channel(1) never holds it up,
\* so it goes on draining the pipe (capture_api_output).
SendNeverBlocks == sender => channel = <<>>

LEMMA InitInv == BackendInit => Inv
BY DEF BackendInit, Inv, NoOrphan, Started

LEMMA ReportInv ==
  ASSUME Inv, NEW message \in {"port", "error"}, Report(message),
         UNCHANGED <<shell, child>>, shell # "new"
  PROVE  Inv'
<1>1. CASE sender
  <2>1. channel' = <<message>>
    BY <1>1 DEF Report, Inv, Started
  <2>2. QED
    BY <2>1 DEF Report, Inv, NoOrphan, Started
<1>2. CASE ~ sender
  BY <1>2 DEF Report, Inv, NoOrphan, Started
<1>3. QED
  BY <1>1, <1>2

\* One case for each action of the shell, of its threads and of the child.
LEMMA StepInv == Inv /\ [BackendNext]_backendVars => Inv'
<1> SUFFICES ASSUME Inv, [BackendNext]_backendVars PROVE Inv'
  OBVIOUS
<1> USE DEF Inv, NoOrphan, Started
<1>1. CASE SpawnFails
  BY <1>1 DEF SpawnFails, readers
<1>2. CASE Spawn
  BY <1>2 DEF Spawn
<1>3. CASE ReceivePort
  <2>1. channel' = <<>>
    BY <1>3 DEF ReceivePort
  <2>2. QED
    BY <1>3, <2>1 DEF ReceivePort, TerminateBackend, readers
<1>4. CASE PortTimeout
  BY <1>4 DEF PortTimeout, TerminateBackend, readers
<1>5. CASE CheckChild
  BY <1>5 DEF CheckChild, TerminateBackend, readers
<1>6. CASE HealthAnswers
  BY <1>6 DEF HealthAnswers, readers
<1>7. CASE HealthFails
  BY <1>7 DEF HealthFails, readers
<1>8. CASE ReadyTimeout
  BY <1>8 DEF ReadyTimeout, TerminateBackend, readers
<1>9. CASE Sleep
  BY <1>9 DEF Sleep, readers
<1>10. CASE Exit
  BY <1>10 DEF Exit, TerminateBackend, readers
<1>11. CASE Kill
  BY <1>11 DEF Kill
<1>12. CASE ReadLine
  <2>1. \/ UNCHANGED <<sender, channel>>
        \/ \E message \in {"port", "error"} : Report(message)
    BY <1>12 DEF ReadLine
  <2>2. UNCHANGED <<shell, child>>
    BY <1>12 DEF ReadLine
  <2>3. QED
    BY <1>12, <2>1, <2>2, ReportInv DEF ReadLine
<1>13. CASE ReadEnd
  BY <1>13, ReportInv DEF ReadEnd
<1>14. CASE ReadError
  BY <1>14 DEF ReadError, readers
<1>15. CASE \E line \in {"text", "garbled"} : Chatter(line)
  BY <1>15 DEF Chatter, readers
<1>16. CASE Warn
  BY <1>16 DEF Warn, readers
<1>17. CASE Bind
  BY <1>17 DEF Bind, readers
<1>18. CASE Announce
  BY <1>18 DEF Announce, readers
<1>19. CASE ChildExits
  BY <1>19 DEF ChildExits, readers
<1>20. CASE UNCHANGED backendVars
  BY <1>20 DEF backendVars
<1>21. QED
  BY <1>1, <1>2, <1>3, <1>4, <1>5, <1>6, <1>7, <1>8, <1>9, <1>10, <1>11,
     <1>12, <1>13, <1>14, <1>15, <1>16, <1>17, <1>18, <1>19, <1>20
  DEF BackendNext, ShellStep

LEMMA BackendInv == BackendSpec => []Inv
BY InitInv, StepInv, PTL DEF BackendSpec

\* No way out of a failed start, and no end of the application, leaves the
\* backend behind, whatever the child does and whenever a deadline comes.
THEOREM NothingIsLeftBehind == BackendSpec => []NoOrphan
<1>1. Inv => NoOrphan
  BY DEF Inv
<1>2. QED
  BY BackendInv, <1>1, PTL

\* The thread that looks for the port never waits for the shell to take it.
THEOREM PortIsSentAtOnce == BackendSpec => []SendNeverBlocks
<1>1. Inv => SendNeverBlocks
  BY DEF Inv, Started, SendNeverBlocks
<1>2. QED
  BY BackendInv, <1>1, PTL

\* What the pipes hold, and who reads them: the error output of the backend
\* has a reader until the application itself is killed.
PipesAreKept ==
  /\ BackendTypeOK
  /\ Len(out) <= PipeSize /\ err <= PipeSize
  /\ child = "none" <=> errReader = "none"
  /\ shell \in Starting \cup {"open"} => errReader = "reading"
  /\ errReader = "ended" => shell = "killed"

LEMMA PipeSizeIsNat == PipeSize \in Nat
BY BackendAssumption

LEMMA InitPipes == BackendInit => PipesAreKept
<1> SUFFICES ASSUME BackendInit PROVE PipesAreKept
  OBVIOUS
<1>1. out \in Seq(Line) /\ channel \in Seq({"port", "error"}) /\ Len(out) = 0
  BY DEF BackendInit
<1>2. err = 0 /\ 0 <= PipeSize
  BY PipeSizeIsNat DEF BackendInit
<1>3. BackendTypeOK
  BY <1>1 DEF BackendInit, BackendTypeOK
<1> QED BY <1>1, <1>2, <1>3 DEF BackendInit, PipesAreKept, Starting

LEMMA ReportKeepsType ==
  ASSUME BackendTypeOK, NEW message \in {"port", "error"}, Report(message)
  PROVE  channel' \in Seq({"port", "error"}) /\ sender' \in BOOLEAN
<1>1. Append(channel, message) \in Seq({"port", "error"})
  BY DEF BackendTypeOK
<1> QED BY <1>1 DEF Report, BackendTypeOK

LEMMA StepPipes == PipesAreKept /\ [BackendNext]_backendVars => PipesAreKept'
<1> SUFFICES ASSUME PipesAreKept, [BackendNext]_backendVars PROVE PipesAreKept'
  OBVIOUS
<1> USE PipeSizeIsNat DEF PipesAreKept, BackendTypeOK, Starting, Line
<1>1. CASE SpawnFails
  BY <1>1 DEF SpawnFails, readers
<1>2. CASE Spawn
  BY <1>2 DEF Spawn
<1>3. CASE ReceivePort
  BY <1>3 DEF ReceivePort, TerminateBackend, readers
<1>4. CASE PortTimeout
  BY <1>4 DEF PortTimeout, TerminateBackend, readers
<1>5. CASE CheckChild
  BY <1>5 DEF CheckChild, TerminateBackend, readers
<1>6. CASE HealthAnswers
  BY <1>6 DEF HealthAnswers, readers
<1>7. CASE HealthFails
  BY <1>7 DEF HealthFails, readers
<1>8. CASE ReadyTimeout
  BY <1>8 DEF ReadyTimeout, TerminateBackend, readers
<1>9. CASE Sleep
  BY <1>9 DEF Sleep, readers
<1>10. CASE Exit
  BY <1>10 DEF Exit, TerminateBackend, readers
<1>11. CASE Kill
  BY <1>11 DEF Kill
<1>12. CASE ReadLine
  <2>1. channel' \in Seq({"port", "error"}) /\ sender' \in BOOLEAN
    BY <1>12, ReportKeepsType DEF ReadLine
  <2>2. out' \in Seq(Line) /\ Len(out') <= PipeSize
    BY <1>12 DEF ReadLine
  <2> QED BY <1>12, <2>1, <2>2 DEF ReadLine
<1>13. CASE ReadEnd
  <2>1. channel' \in Seq({"port", "error"}) /\ sender' \in BOOLEAN
    BY <1>13, ReportKeepsType DEF ReadEnd
  <2> QED BY <1>13, <2>1 DEF ReadEnd
<1>14. CASE ReadError
  BY <1>14 DEF ReadError, readers
<1>15. CASE \E line \in {"text", "garbled"} : Chatter(line)
  BY <1>15 DEF Chatter, readers
<1>16. CASE Warn
  BY <1>16 DEF Warn, CanComplain, Complained, readers
<1>17. CASE Bind
  BY <1>17 DEF Bind, readers
<1>18. CASE Announce
  BY <1>18 DEF Announce, readers
<1>19. CASE ChildExits
  BY <1>19 DEF ChildExits, readers
<1>20. CASE UNCHANGED backendVars
  BY <1>20 DEF backendVars
<1>21. QED
  BY <1>1, <1>2, <1>3, <1>4, <1>5, <1>6, <1>7, <1>8, <1>9, <1>10, <1>11,
     <1>12, <1>13, <1>14, <1>15, <1>16, <1>17, <1>18, <1>19, <1>20
  DEF BackendNext, ShellStep

\* Requests, answers and passes are stutters of the backend, except for the
\* complaint of a thread nobody waits for, which is a line of error output.
BackendOrComplaint ==
  [BackendNext \/ (\E c \in Call : Complain(c))]_backendVars

\* Every step of the composition is one of Backend's, a complaint, or leaves
\* the shell and the child alone.
LEMMA StepMaps == [Next]_vars => BackendOrComplaint
<1> SUFFICES ASSUME [Next]_vars PROVE BackendOrComplaint
  OBVIOUS
<1> USE DEF BackendOrComplaint
<1>1. CASE BackendStep
  BY <1>1 DEF BackendStep
<1>2. ASSUME NEW c \in Call,
             Load(c) \/ Investigate(c) \/ (\E r \in Review : Delete(c, r))
      PROVE BackendOrComplaint
  BY <1>2 DEF Load, Investigate, Delete
<1>3. ASSUME NEW c \in Call, ServerStep(c) PROVE BackendOrComplaint
  BY <1>3 DEF ServerStep, ReadPart, CreateIncident, DeleteIncident
<1>4. ASSUME NEW c \in Call, Receive(c) \/ GiveUp(c)
      PROVE BackendOrComplaint
  BY <1>4 DEF Receive, ShowAnswer, ShowCreated, Reload, ShowMissing, GiveUp
<1>5. ASSUME NEW r \in Review, DraftReview(r) PROVE BackendOrComplaint
  BY <1>5 DEF DraftReview
<1>6. CASE UNCHANGED vars
  BY <1>6 DEF vars
<1>7. QED
  BY <1>1, <1>2, <1>3, <1>4, <1>5, <1>6 DEF Next

LEMMA ComplaintInv ==
  ASSUME Inv, NEW c \in Call, Complain(c)
  PROVE  Inv'
BY DEF Complain, Inv, NoOrphan, Started, readers

\* The dashboard does not change that: with all its requests, deletions and
\* lost answers beside it, the application still takes its backend with it.
THEOREM DashboardLeavesNothing == Spec => []NoOrphan
<1>1. Init => Inv
  BY InitInv DEF Init
<1>2. Inv /\ [Next]_vars => Inv'
  BY StepMaps, StepInv, ComplaintInv DEF BackendOrComplaint
<1>3. Inv => NoOrphan
  BY DEF Inv
<1>4. QED
  BY <1>1, <1>2, <1>3, PTL DEF Spec

\* What the reader threads promise the handlers of the backend: as long as
\* the application runs or waits for its backend, somebody reads what they
\* complain about, and the pipe holds no more than it can.  A handler that
\* waits for room therefore waits for a thread that is there.
THEOREM ComplaintsAreRead == Spec => []PipesAreKept
<1>1. Init => PipesAreKept
  BY InitPipes DEF Init
<1>2. ASSUME PipesAreKept, NEW c \in Call, Complain(c) PROVE PipesAreKept'
  BY <1>2, PipeSizeIsNat
  DEF Complain, CanComplain, Complained, PipesAreKept, BackendTypeOK, readers
<1>3. PipesAreKept /\ [Next]_vars => PipesAreKept'
  BY <1>2, StepMaps, StepPipes DEF BackendOrComplaint
<1>4. QED
  BY <1>1, <1>3, PTL DEF Spec

\* The list of the reviews

\* A set of naturals with 0 and every successor has all of them.
LEMMA Induction ==
  ASSUME NEW T, 0 \in T, \A n \in Nat : n \in T => n + 1 \in T
  PROVE  Nat \subseteq T
<1> SUFFICES ASSUME Nat \ T # {} PROVE FALSE
  OBVIOUS
<1> DEFINE R == {ss \in Nat \X Nat : ss[1] < ss[2]}
           S == Nat \ T
<1>1. PICK x \in S : \A y \in S : <<y, x>> \notin R
  <2>1. IsWellFoundedOn(R, Nat) /\ S \subseteq Nat /\ S # {}
    BY NatLessThanWellFounded DEF OpToRel
  <2> HIDE DEF R, S
  <2> QED BY <2>1, WFMin
<1>2. x # 0 /\ x - 1 \in Nat
  OBVIOUS
<1>3. <<x - 1, x>> \in R
  BY <1>2
<1>4. x - 1 \in T
  BY <1>1, <1>2, <1>3
<1> QED BY <1>2, <1>4

Kept(list, r, n, kept) ==
  kept = [i \in 0 .. n |->
            IF i = 0 THEN <<>>
            ELSE IF list[i] = r THEN kept[i - 1] ELSE Append(kept[i - 1], list[i])]

LEMMA KeptExists ==
  ASSUME NEW list, NEW r
  PROVE  \A n \in Nat : \E kept : Kept(list, r, n, kept)
<1> DEFINE T == {n \in Nat : \E kept : Kept(list, r, n, kept)}
           C(i, k) == IF list[i] = r THEN k ELSE Append(k, list[i])
<1> HIDE DEF C
<1>1. 0 \in T
  <2> DEFINE f == [i \in 0 .. 0 |-> <<>>]
  <2>1. f = [i \in 0 .. 0 |-> IF i = 0 THEN <<>> ELSE C(i, f[i - 1])]
    OBVIOUS
  <2>2. \E g : g = [i \in 0 .. 0 |-> IF i = 0 THEN <<>> ELSE C(i, g[i - 1])]
    BY <2>1
  <2> QED BY <2>2 DEF Kept, C
<1>2. ASSUME NEW n \in Nat, n \in T PROVE n + 1 \in T
  <2>1. PICK f : f = [i \in 0 .. n |-> IF i = 0 THEN <<>> ELSE C(i, f[i - 1])]
    BY <1>2 DEF Kept, C
  <2> DEFINE g == [i \in 0 .. n + 1 |-> IF i = n + 1 THEN C(n + 1, f[n]) ELSE f[i]]
  <2>2. \A i \in 0 .. n + 1 : g[i] = IF i = 0 THEN <<>> ELSE C(i, g[i - 1])
    <3> TAKE i \in 0 .. n + 1
    <3>1. CASE i = n + 1
      BY <3>1
    <3>2. CASE i \in 0 .. n
      BY <2>1, <3>2
    <3> QED BY <3>1, <3>2
  <2>3. g = [i \in 0 .. n + 1 |-> IF i = 0 THEN <<>> ELSE C(i, g[i - 1])]
    BY <2>2
  <2>4. \E h : h = [i \in 0 .. n + 1 |-> IF i = 0 THEN <<>> ELSE C(i, h[i - 1])]
    BY <2>3
  <2> QED BY <2>4 DEF Kept, C
<1> HIDE DEF T
<1>3. Nat \subseteq T
  BY <1>1, <1>2, Induction
<1> QED BY <1>3 DEF T

Distinct(list) == \A i, j \in 1 .. Len(list) : i # j => list[i] # list[j]

Among(x, list, n) == \E i \in 1 .. n : list[i] = x

\* What is kept of the first n members of a list.
KeptOf(S, list, r, n, k) ==
  /\ k \in Seq(S) /\ Distinct(k)
  /\ \A x : Among(x, k, Len(k)) <=> x # r /\ Among(x, list, n)
  /\ Among(r, list, n) => Len(k) = n - 1
  /\ ~ Among(r, list, n) => Len(k) = n /\ \A i \in 1 .. n : k[i] = list[i]

LEMMA KeepOne ==
  ASSUME NEW S, NEW list \in Seq(S), Distinct(list), NEW r, NEW n \in Nat, n + 1 <= Len(list),
         NEW k, KeptOf(S, list, r, n, k)
  PROVE  KeptOf(S, list, r, n + 1, IF list[n + 1] = r THEN k ELSE Append(k, list[n + 1]))
<1>1. k \in Seq(S) /\ list[n + 1] \in S
  BY DEF KeptOf
<1>2. \A x : Among(x, list, n + 1) <=> Among(x, list, n) \/ x = list[n + 1]
  BY DEF Among
<1>3. ~ Among(list[n + 1], list, n)
  BY DEF Among, Distinct
<1>4. CASE list[n + 1] = r
  BY <1>2, <1>3, <1>4 DEF KeptOf
<1>5. CASE list[n + 1] # r
  <2>1. PICK m : m = Append(k, list[n + 1])
    OBVIOUS
  <2>2. /\ m \in Seq(S) /\ Len(m) = Len(k) + 1 /\ m[Len(k) + 1] = list[n + 1]
        /\ \A i \in 1 .. Len(k) : m[i] = k[i]
    BY <1>1, <2>1
  <2>3. \A x : Among(x, m, Len(m)) <=> Among(x, k, Len(k)) \/ x = list[n + 1]
    BY <1>1, <2>2 DEF Among
  <2>4. \A i \in 1 .. Len(k) : k[i] # list[n + 1]
    BY <1>3 DEF KeptOf, Among
  <2>5. Distinct(m)
    BY <1>1, <2>2, <2>4 DEF KeptOf, Distinct
  <2>6. Among(r, list, n + 1) <=> Among(r, list, n)
    BY <1>2, <1>5
  <2>7. \A x : Among(x, m, Len(m)) <=> x # r /\ Among(x, list, n + 1)
    BY <1>2, <1>5, <2>3 DEF KeptOf
  <2>8. Among(r, list, n + 1) => Len(m) = n
    BY <1>1, <2>2, <2>6 DEF KeptOf
  <2>9. ~ Among(r, list, n + 1) =>
          Len(m) = n + 1 /\ \A i \in 1 .. n + 1 : m[i] = list[i]
    BY <1>1, <2>2, <2>6 DEF KeptOf
  <2>10. KeptOf(S, list, r, n + 1, m)
    BY <2>2, <2>5, <2>7, <2>8, <2>9 DEF KeptOf
  <2> QED BY <1>5, <2>1, <2>10
<1> QED BY <1>4, <1>5

\* Of a list whose members are distinct, what is left out is r.
LEMMA WithoutOne ==
  ASSUME NEW S, NEW list \in Seq(S), Distinct(list), NEW r
  PROVE  LET rest == Without(list, r) IN
         /\ rest \in Seq(S) /\ Distinct(rest)
         /\ Range(rest) = Range(list) \ {r}
         /\ r \in Range(list) => Len(rest) = Len(list) - 1
         /\ r \notin Range(list) => rest = list
<1>0. Len(list) \in Nat
  OBVIOUS
<1>1. PICK f : Kept(list, r, Len(list), f) /\ Without(list, r) = f[Len(list)]
  <2>1. \E f : Kept(list, r, Len(list), f)
    BY <1>0, KeptExists
  <2>2. Without(list, r) = (CHOOSE f : Kept(list, r, Len(list), f))[Len(list)]
    BY DEF Without, Kept
  <2>3. Kept(list, r, Len(list), CHOOSE f : Kept(list, r, Len(list), f))
    BY <2>1
  <2> QED BY <2>2, <2>3
<1>2. /\ f[0] = <<>>
      /\ \A n \in 0 .. Len(list) - 1 :
           f[n + 1] = IF list[n + 1] = r THEN f[n] ELSE Append(f[n], list[n + 1])
  <2> DEFINE C(i, k) == IF list[i] = r THEN k ELSE Append(k, list[i])
  <2>1. f = [i \in 0 .. Len(list) |-> IF i = 0 THEN <<>> ELSE C(i, f[i - 1])]
    BY <1>1 DEF Kept
  <2> HIDE DEF C
  <2>2. f[0] = <<>> /\ \A n \in 0 .. Len(list) - 1 : f[n + 1] = C(n + 1, f[n])
    BY <1>0, <2>1
  <2> QED BY <2>2 DEF C
<1> DEFINE T == {n \in Nat : n <= Len(list) => KeptOf(S, list, r, n, f[n])}
<1>3. 0 \in T
  <2>1. KeptOf(S, list, r, 0, <<>>)
    BY DEF KeptOf, Distinct, Among
  <2> QED BY <1>2, <2>1
<1>4. ASSUME NEW n \in Nat, n \in T PROVE n + 1 \in T
  <2>1. ASSUME n + 1 <= Len(list) PROVE KeptOf(S, list, r, n + 1, f[n + 1])
    <3>1. PICK k : k = f[n]
      OBVIOUS
    <3>2. KeptOf(S, list, r, n, k) /\ n \in 0 .. Len(list) - 1
      BY <1>4, <2>1, <3>1
    <3>3. KeptOf(S, list, r, n + 1, IF list[n + 1] = r THEN k ELSE Append(k, list[n + 1]))
      BY <2>1, <3>2, KeepOne
    <3> QED BY <1>2, <3>1, <3>2, <3>3
  <2> QED BY <2>1
<1>5. KeptOf(S, list, r, Len(list), f[Len(list)])
  <2>1. Len(list) \in T
    <3> HIDE DEF T
    <3> QED BY <1>3, <1>4, Induction
  <2> QED BY <2>1
<1>6. PICK rest : rest = Without(list, r) /\ KeptOf(S, list, r, Len(list), rest)
  BY <1>1, <1>5
<1>7. /\ rest \in Seq(S)
      /\ \A x : x \in Range(list) <=> Among(x, list, Len(list))
      /\ \A x : x \in Range(rest) <=> Among(x, rest, Len(rest))
  BY <1>6 DEF Range, Among, KeptOf
<1>8. r \notin Range(list) => rest = list
  BY <1>6, <1>7 DEF KeptOf
<1> QED BY <1>6, <1>7, <1>8 DEF KeptOf

\* The reviews of the journal are made once and listed once.
Listed ==
  /\ reviews \in Seq(Review) /\ Distinct(reviews)
  /\ Range(reviews) \subseteq made /\ made \subseteq Review

LEMMA RangeOf == ASSUME NEW S, NEW list \in Seq(S)
  PROVE  /\ Range(list) = {list[i] : i \in 1 .. Len(list)}
         /\ Range(list) \subseteq S /\ IsFiniteSet(Range(list))
<1>1. Range(list) = {list[i] : i \in 1 .. Len(list)} /\ DOMAIN list = 1 .. Len(list)
  BY DEF Range
<1>2. IsFiniteSet(1 .. Len(list))
  BY FS_Interval
<1>3. list \in Surjection(1 .. Len(list), Range(list))
  BY <1>1 DEF Surjection
<1> QED BY <1>1, <1>2, <1>3, FS_Surjection

\* A journal within the limits is shown as it is.
LEMMA ShownWhole ==
  ASSUME NEW list \in Seq(Review), Len(list) <= ListLimit
  PROVE  /\ SubSeq(list, 1, Capped(Len(list), ListLimit)) = list
         /\ Capped(Len(list), CountLimit) = Len(list)
<1>1. Len(list) \in Nat /\ ListLimit \in Nat /\ CountLimit \in Nat /\ ListLimit <= CountLimit
  BY DesktopAssumption
<1>2. Capped(Len(list), ListLimit) = Len(list) /\ Capped(Len(list), CountLimit) = Len(list)
  BY <1>1 DEF Capped
<1>3. SubSeq(list, 1, Len(list)) = list
  BY <1>1
<1> QED BY <1>2, <1>3

\* A created review goes in front.
LEMMA InFront ==
  ASSUME NEW list \in Seq(Review), Distinct(list), NEW r \in Review, r \notin Range(list)
  PROVE  LET more == <<r>> \o list IN
         /\ more \in Seq(Review) /\ Distinct(more)
         /\ Range(more) = Range(list) \cup {r} /\ Len(more) = Len(list) + 1
<1>1. PICK more : more = <<r>> \o list
  OBVIOUS
<1>2. /\ more \in Seq(Review) /\ Len(more) = Len(list) + 1 /\ more[1] = r
      /\ \A i \in 1 .. Len(list) : more[i + 1] = list[i]
      /\ \A i \in 2 .. Len(more) : more[i] = list[i - 1] /\ i - 1 \in 1 .. Len(list)
  BY <1>1
<1>3. \A i \in 1 .. Len(list) : list[i] # r
  BY RangeOf
<1>4. Distinct(more)
  <2>1. ASSUME NEW i \in 1 .. Len(more), NEW j \in 1 .. Len(more), i < j PROVE more[i] # more[j]
    <3>1. CASE i = 1
      BY <1>2, <1>3, <2>1, <3>1
    <3>2. CASE i # 1
      BY <1>2, <2>1, <3>2 DEF Distinct
    <3> QED BY <3>1, <3>2
  <2>2. \A i, j \in 1 .. Len(more) : i # j => i < j \/ j < i
    BY <1>2
  <2> QED BY <2>1, <2>2 DEF Distinct
<1>5. Range(more) = Range(list) \cup {r}
  <2>1. Range(more) = {more[i] : i \in 1 .. Len(more)} /\ Range(list) = {list[i] : i \in 1 .. Len(list)}
    BY <1>2, RangeOf
  <2> QED BY <1>2, <2>1
<1> QED BY <1>1, <1>2, <1>4, <1>5

Deleted(r) == reviews' = Without(reviews, r) /\ made' = made
Inserted(r) == r \in Review \ made /\ reviews' = <<r>> \o reviews /\ made' = made \cup {r}

\* All that happens to the journal: a deletion, or a review in front, which
\* the user asked for or a background pass drafted.
LEMMA JournalSteps ==
  [Next]_vars => \/ UNCHANGED journalVars
                 \/ \E r : Deleted(r)
                 \/ \E r : Inserted(r)
<1> SUFFICES ASSUME [Next]_vars
             PROVE  UNCHANGED journalVars \/ (\E r : Deleted(r)) \/ (\E r : Inserted(r))
  OBVIOUS
<1>1. CASE UNCHANGED vars
  BY <1>1 DEF vars, desktopVars, journalVars
<1>2. CASE BackendStep
  BY <1>2 DEF BackendStep, desktopVars, journalVars
<1>3. ASSUME NEW c \in Call,
             Load(c) \/ Investigate(c) \/ (\E r \in Review : Delete(c, r)) \/ Receive(c) \/ GiveUp(c)
      PROVE  UNCHANGED journalVars
  BY <1>3 DEF Load, Investigate, Delete, Receive, ShowAnswer, ShowCreated, Reload, ShowMissing, GiveUp
<1>4. ASSUME NEW c \in Call, ServerStep(c)
      PROVE  UNCHANGED journalVars \/ (\E r : Deleted(r)) \/ (\E r : Inserted(r))
  <2>1. CASE ReadPart(c) \/ Complain(c)
    BY <2>1 DEF ReadPart, Complain
  <2>2. CASE CreateIncident(c)
    BY <2>2 DEF CreateIncident, Inserted, Unmade
  <2>3. CASE DeleteIncident(c)
    BY <2>3 DEF DeleteIncident, Deleted
  <2> QED BY <1>4, <2>1, <2>2, <2>3 DEF ServerStep
<1>5. ASSUME NEW r \in Review, DraftReview(r) PROVE Inserted(r)
  BY <1>5, DesktopAssumption DEF DraftReview, Inserted
<1> QED BY <1>1, <1>2, <1>3, <1>4, <1>5 DEF Next

LEMMA InitListed == Init => Listed
<1>1. <<>> \in Seq(Review) /\ Len(<<>>) = 0
  OBVIOUS
<1>2. Range(<<>>) = {}
  BY DEF Range
<1> QED BY <1>1, <1>2 DEF Init, Listed, Distinct

LEMMA NextListed == Listed /\ [Next]_vars => Listed'
<1> SUFFICES ASSUME Listed, [Next]_vars PROVE Listed'
  OBVIOUS
<1>1. CASE UNCHANGED journalVars
  BY <1>1 DEF journalVars, Listed, Distinct, Range
<1>2. ASSUME NEW r, Deleted(r) PROVE Listed'
  <2>1. PICK rest : rest = Without(reviews, r)
    OBVIOUS
  <2>2. rest \in Seq(Review) /\ Distinct(rest) /\ Range(rest) = Range(reviews) \ {r}
    BY <2>1, WithoutOne DEF Listed
  <2>3. reviews' = rest /\ made' = made
    BY <1>2, <2>1 DEF Deleted
  <2> QED BY <2>2, <2>3 DEF Listed, Distinct, Range
<1>3. ASSUME NEW r, Inserted(r) PROVE Listed'
  <2>1. PICK more : more = <<r>> \o reviews
    OBVIOUS
  <2>2. more \in Seq(Review) /\ Distinct(more) /\ Range(more) = Range(reviews) \cup {r}
    BY <1>3, <2>1, InFront DEF Listed, Inserted
  <2>3. reviews' = more /\ made' = made \cup {r} /\ r \in Review
    BY <1>3, <2>1 DEF Inserted
  <2> QED BY <2>2, <2>3 DEF Listed, Distinct, Range
<1> QED BY <1>1, <1>2, <1>3, JournalSteps

\* A deletion takes one off the numbers, as the dashboard does.
LEMMA DeletionMirrored ==
  ASSUME Listed, NEW r, Deleted(r), r \in Range(reviews), Len(reviews) <= ListLimit
  PROVE  Removed(Shown, r) = Shown'
<1>1. PICK list, rest, drafts : /\ list = reviews /\ rest = Without(list, r)
                                /\ drafts = Range(list) \cap Draft
  OBVIOUS
<1>2. list \in Seq(Review) /\ Distinct(list) /\ r \in Range(list) /\ Len(list) <= ListLimit /\ reviews' = rest
  BY <1>1 DEF Listed, Deleted
<1>3. /\ rest \in Seq(Review) /\ Range(rest) = Range(list) \ {r}
      /\ Len(rest) = Len(list) - 1 /\ Len(list) \in Nat
  BY <1>1, <1>2, WithoutOne
<1>4. Len(rest) <= ListLimit /\ Len(list) # 0
  BY <1>2, <1>3, RangeOf, DesktopAssumption
<1>5. Shown = [total |-> Len(list), list |-> list, drafts |-> Cardinality(drafts)]
  BY <1>1, <1>2, ShownWhole DEF Shown, Counted, Recent, DraftCount
<1>6. Shown' = [total |-> Len(rest), list |-> rest, drafts |-> Cardinality(drafts \ {r})]
  <2>1. Range(rest) \cap Draft = drafts \ {r}
    BY <1>1, <1>3
  <2>2. Shown' = [total |-> Capped(Len(rest), CountLimit),
                  list |-> SubSeq(rest, 1, Capped(Len(rest), ListLimit)),
                  drafts |-> Cardinality(Range(rest) \cap Draft)]
    BY <1>2 DEF Shown, Counted, Recent, DraftCount, Range, Capped
  <2> QED BY <1>3, <1>4, <2>1, <2>2, ShownWhole
<1>7. Cardinality(drafts \ {r}) = IF r \in Draft THEN Less(Cardinality(drafts)) ELSE Cardinality(drafts)
  <2>1. IsFiniteSet(drafts)
    <3>1. IsFiniteSet(Range(list)) /\ drafts \in SUBSET Range(list)
      BY <1>1, <1>2, RangeOf
    <3> QED BY <3>1, FS_Subset
  <2>2. CASE r \in Draft
    <3>1. r \in drafts
      BY <1>1, <1>2, <2>2
    <3>2. Cardinality(drafts \ {r}) = Cardinality(drafts) - 1 /\ Cardinality(drafts) \in Nat
      BY <2>1, <3>1, FS_RemoveElement, FS_CardinalityType
    <3>3. Cardinality(drafts) # 0
      BY <2>1, <3>1, FS_EmptySet
    <3> QED BY <2>2, <3>2, <3>3 DEF Less
  <2>3. CASE r \notin Draft
    <3>1. drafts \ {r} = drafts
      BY <1>1, <2>3
    <3> QED BY <2>3, <3>1
  <2> QED BY <2>2, <2>3
<1>8. Less(Len(list)) = Len(rest)
  BY <1>3, <1>4 DEF Less
<1>9. Removed(Shown, r) =
        [total |-> Less(Len(list)), list |-> rest,
         drafts |-> IF r \in Draft THEN Less(Cardinality(drafts)) ELSE Cardinality(drafts)]
  BY <1>1, <1>2, <1>5 DEF Removed
<1> QED BY <1>6, <1>7, <1>8, <1>9

\* A created review is put where the journal has it.
LEMMA InsertionMirrored ==
  ASSUME Listed, NEW r, Inserted(r), r \notin Draft, Len(reviews) < ListLimit
  PROVE  Added(Shown, r) = Shown'
<1>1. PICK list, more : list = reviews /\ more = <<r>> \o list
  OBVIOUS
<1>2. /\ list \in Seq(Review) /\ Distinct(list) /\ r \in Review /\ r \notin Range(list)
      /\ Len(list) < ListLimit /\ reviews' = more
  BY <1>1 DEF Listed, Inserted
<1>3. /\ more \in Seq(Review) /\ Range(more) = Range(list) \cup {r}
      /\ Len(more) = Len(list) + 1 /\ Len(list) \in Nat
  BY <1>1, <1>2, InFront
<1>4. Len(more) <= ListLimit /\ Len(list) <= ListLimit
  BY <1>2, <1>3, DesktopAssumption
<1>5. Shown = [total |-> Len(list), list |-> list, drafts |-> Cardinality(Range(list) \cap Draft)]
  BY <1>1, <1>2, <1>4, ShownWhole DEF Shown, Counted, Recent, DraftCount
<1>6. Shown' = [total |-> Len(more), list |-> more, drafts |-> Cardinality(Range(list) \cap Draft)]
  <2>1. Range(more) \cap Draft = Range(list) \cap Draft
    BY <1>3
  <2>2. Shown' = [total |-> Capped(Len(more), CountLimit),
                  list |-> SubSeq(more, 1, Capped(Len(more), ListLimit)),
                  drafts |-> Cardinality(Range(more) \cap Draft)]
    BY <1>2 DEF Shown, Counted, Recent, DraftCount, Range, Capped
  <2> QED BY <1>3, <1>4, <2>1, <2>2, ShownWhole
<1>7. Without(list, r) = list
  BY <1>2, WithoutOne
<1>8. Added(Shown, r) = [total |-> Len(list) + 1, list |-> <<r>> \o list,
                         drafts |-> Cardinality(Range(list) \cap Draft)]
  BY <1>5, <1>7 DEF Added
<1> QED BY <1>1, <1>3, <1>6, <1>8

\* The edits of the dashboard and the SQL of the journal agree on every
\* deletion and every created review, for any number of requests.
THEOREM EditsAgree == Spec => EditsMirrorJournal
<1>1. Listed /\ [Next]_vars =>
        [ /\ \A r \in Range(reviews) \ Range(reviews') :
               Len(reviews) <= ListLimit => Removed(Shown, r) = Shown'
          /\ \A r \in (made' \ made) \ Draft :
               Len(reviews) < ListLimit =>
                 Added(Shown, r) = Shown' ]_vars
  <2> SUFFICES ASSUME Listed, [Next]_vars
               PROVE  /\ \A r \in Range(reviews) \ Range(reviews') :
                           Len(reviews) <= ListLimit => Removed(Shown, r) = Shown'
                      /\ \A r \in (made' \ made) \ Draft :
                           Len(reviews) < ListLimit => Added(Shown, r) = Shown'
    OBVIOUS
  <2>1. CASE UNCHANGED journalVars
    BY <2>1 DEF journalVars
  <2>2. ASSUME NEW d, Deleted(d)
        PROVE  \A r \in Range(reviews) \ Range(reviews') :
                 Len(reviews) <= ListLimit => Removed(Shown, r) = Shown'
    <3>1. PICK rest : rest = Without(reviews, d) /\ reviews' = rest
      BY <2>2 DEF Deleted
    <3>2. Range(rest) = Range(reviews) \ {d}
      BY <3>1, WithoutOne DEF Listed
    <3>3. \A r \in Range(reviews) \ Range(reviews') : r = d
      BY <3>1, <3>2
    <3> QED BY <2>2, <3>3, DeletionMirrored
  <2>3. ASSUME NEW d, Inserted(d)
        PROVE  /\ Range(reviews) \subseteq Range(reviews')
               /\ \A r \in (made' \ made) \ Draft :
                    Len(reviews) < ListLimit => Added(Shown, r) = Shown'
    <3>1. PICK more : more = <<d>> \o reviews /\ reviews' = more
      BY <2>3 DEF Inserted
    <3>2. Range(more) = Range(reviews) \cup {d}
      BY <2>3, <3>1, InFront DEF Listed, Inserted
    <3>3. \A r \in made' \ made : r = d
      BY <2>3 DEF Inserted
    <3> QED BY <2>3, <3>1, <3>2, <3>3, InsertionMirrored
  <2> QED BY <2>1, <2>2, <2>3, JournalSteps DEF Deleted
<1> QED BY InitListed, NextListed, <1>1, PTL DEF Spec, EditsMirrorJournal
=============================================================================
