------------------------------- MODULE Lease -------------------------------
(***************************************************************************)
(* What the scan lease of the journal promises, without saying how: of the *)
(* scan invocations that are alive, at most one may write, and one that    *)
(* has lost the lease never gets it back.  A scan holds the lease from the *)
(* transaction that starts it until it finishes or is declared stale.      *)
(* ScanLease implements this module with rows, timestamps and a marker;    *)
(* Journal and Automation are built on it.                                 *)
(***************************************************************************)

CONSTANTS
  Scan,    \* identities of scan invocations (uuid4 in the code)
  NoScan   \* the absence of a scan

ASSUME LeaseAssumption == NoScan \notin Scan

VARIABLES
  holder,  \* the scan that may write, or NoScan
  live,    \* scans still in the hands of the process that started them
  writer   \* the scan that committed the last scan-owned write

leaseVars == <<holder, live, writer>>

LeaseTypeOK ==
  /\ holder \in Scan \cup {NoScan}
  /\ live \subseteq Scan
  /\ writer \in Scan \cup {NoScan}

LeaseInit ==
  /\ holder = NoScan
  /\ live = {}
  /\ writer = NoScan

(* A new scan takes the lease, from nobody or from a stale holder.         *)
Acquire(s) ==
  /\ s \notin live
  /\ holder' = s
  /\ live' = live \cup {s}
  /\ UNCHANGED writer

(* The holder commits a write it owns.                                     *)
Commit(s) ==
  /\ s \in live
  /\ holder = s
  /\ writer' = s
  /\ UNCHANGED <<holder, live>>

(* The holder finishes and gives the lease back.                           *)
Release(s) ==
  /\ s \in live
  /\ holder = s
  /\ holder' = NoScan
  /\ live' = live \ {s}
  /\ UNCHANGED writer

(* The holder is declared stale; its process may not know yet.             *)
Revoke ==
  /\ holder # NoScan
  /\ holder' = NoScan
  /\ UNCHANGED <<live, writer>>

(* A process ends without finishing its scan: a crash, or a refusal.       *)
Abandon(s) ==
  /\ s \in live
  /\ live' = live \ {s}
  /\ UNCHANGED <<holder, writer>>

LeaseNext ==
  \/ \E s \in Scan : Acquire(s) \/ Commit(s) \/ Release(s) \/ Abandon(s)
  \/ Revoke

LeaseSpec == LeaseInit /\ [][LeaseNext]_leaseVars

=============================================================================
