----------------------------- MODULE ChangeLog -----------------------------
(***************************************************************************)
(* What the journal promises about one kind of evidence: the changes of a  *)
(* source (installed apps, drivers, services, ...).  An observation        *)
(* replaces the stored state of its source and appends the transition it   *)
(* reveals, in one step.  The first observation is a quiet baseline, and   *)
(* stored state that cannot be decoded is reset before the next baseline.  *)
(* Journal implements this with a read outside the write transaction.      *)
(***************************************************************************)
EXTENDS Sequences, Naturals

CONSTANTS
  Source,   \* providers that are snapshotted
  Value,    \* states a source can be in, as far as a diff can tell
  NoValue,  \* the source has no stored state
  Invalid   \* the stored state cannot be decoded

VARIABLES
  stored,   \* stored state of each source
  log       \* change events of each source, oldest first

changeVars == <<stored, log>>

Transition == [from : Value, to : Value]

ChangeTypeOK ==
  /\ stored \in [Source -> Value \cup {NoValue, Invalid}]
  /\ log \in [Source -> Seq(Transition)]

ChangeInit ==
  /\ stored \in [Source -> Value \cup {NoValue, Invalid}]
  /\ log = [x \in Source |-> <<>>]

(* The transition an observation v of x reveals, given the state before.   *)
Diff(before, v) ==
  IF before = v THEN <<>> ELSE <<[from |-> before, to |-> v]>>

Reset(x) ==
  /\ stored[x] = Invalid
  /\ stored' = [stored EXCEPT ![x] = NoValue]
  /\ UNCHANGED log

Baseline(x, v) ==
  /\ stored[x] = NoValue
  /\ stored' = [stored EXCEPT ![x] = v]
  /\ UNCHANGED log

Record(x, v) ==
  /\ stored[x] \in Value
  /\ stored' = [stored EXCEPT ![x] = v]
  /\ log' = [log EXCEPT ![x] = @ \o Diff(stored[x], v)]

ChangeNext ==
  \E x \in Source : Reset(x) \/ \E v \in Value : Baseline(x, v) \/ Record(x, v)

ChangeSpec == ChangeInit /\ [][ChangeNext]_changeVars

-----------------------------------------------------------------------------
(* Replaying the events of a source leads to its stored state: each one    *)
(* starts where the one before it ended, and the last ends where we are.   *)
Replays ==
  \A x \in Source :
    /\ \A n \in 1 .. Len(log[x]) : log[x][n].from # log[x][n].to
    /\ \A n \in 2 .. Len(log[x]) : log[x][n].from = log[x][n - 1].to
    /\ log[x] # <<>> => log[x][Len(log[x])].to = stored[x]

=============================================================================
