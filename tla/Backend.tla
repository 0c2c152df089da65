------------------------------- MODULE Backend -------------------------------
(***************************************************************************)
(* How the desktop shell (ui/src-tauri/src/main.rs) brings up its backend: *)
(* it spawns a child process that picks a port of its own, reads the port  *)
(* from the child's standard output through a reader thread and a channel, *)
(* waits until the child answers /api/health on it, and ends the child on  *)
(* every other way out.  Each of the child's two pipes holds PipeSize      *)
(* lines; a second thread drains standard error for as long as the child   *)
(* lives.  A deadline is a step that may come at any time of the wait.     *)
(***************************************************************************)
EXTENDS Naturals, Sequences

CONSTANT PipeSize   \* lines a pipe holds before its writer blocks

ASSUME BackendAssumption == PipeSize \in Nat \ {0}

VARIABLES
  shell,      \* where start_local_api is, then what became of the shell
  child,      \* the backend process
  out,        \* the lines in the standard output pipe
  err,        \* how many lines are in the standard error pipe
  outReader,  \* the thread that looks for the port
  errReader,  \* the thread that keeps the error output
  sender,     \* whether outReader still owns the sending end
  channel     \* what it sent, until it is received

backendVars == <<shell, child, out, err, outReader, errReader, sender, channel>>
readers == <<outReader, errReader, sender>>

Starting == {"waiting", "checking", "asking", "pausing"}
Line == {"text", "garbled", "port"}

BackendTypeOK ==
  /\ shell \in Starting \cup {"new", "open", "failed", "closed", "killed"}
  /\ child \in {"none", "booting", "announcing", "listening", "exited"}
  /\ out \in Seq(Line) /\ err \in Nat
  /\ outReader \in {"none", "reading", "ended"}
  /\ errReader \in {"none", "reading", "ended"}
  /\ sender \in BOOLEAN
  /\ channel \in Seq({"port", "error"})

BackendInit ==
  /\ shell = "new" /\ child = "none"
  /\ out = <<>> /\ err = 0
  /\ outReader = "none" /\ errReader = "none"
  /\ sender = FALSE /\ channel = <<>>

(* The shell *)

\* The executable is missing or cannot be spawned.
SpawnFails ==
  /\ shell = "new"
  /\ shell' = "failed"
  /\ UNCHANGED <<child, out, err, readers, channel>>

Spawn ==
  /\ shell = "new"
  /\ shell' = "waiting" /\ child' = "booting"
  /\ outReader' = "reading" /\ errReader' = "reading" /\ sender' = TRUE
  /\ UNCHANGED <<out, err, channel>>

\* taskkill or kill, then wait: either way the process is gone afterwards.
TerminateBackend(outcome) ==
  /\ child' = "exited"
  /\ shell' = outcome

ReceivePort ==
  /\ shell = "waiting" /\ channel # <<>>
  /\ channel' = Tail(channel)
  /\ IF Head(channel) = "port"
     THEN shell' = "checking" /\ UNCHANGED child
     ELSE TerminateBackend("failed")
  /\ UNCHANGED <<out, err, readers>>

(* Mutant of PortTimeout: the child is left behind.                        *)
PortTimeoutOnly ==
  /\ shell = "waiting" /\ channel = <<>>
  /\ shell' = "failed"
  /\ UNCHANGED <<child, out, err, readers, channel>>

\* recv_timeout gives up; what the reader sends later goes nowhere.
PortTimeout ==
  /\ shell = "waiting" /\ channel = <<>>
  /\ TerminateBackend("failed")
  /\ UNCHANGED <<out, err, readers, channel>>

\* One turn of wait_for_api_ready: try_wait, then the health request, then
\* the deadline or a short sleep.
CheckChild ==
  /\ shell = "checking"
  /\ IF child = "exited" THEN TerminateBackend("failed")
     ELSE shell' = "asking" /\ UNCHANGED child
  /\ UNCHANGED <<out, err, readers, channel>>

HealthAnswers ==
  /\ shell = "asking" /\ child = "listening"
  /\ shell' = "open"
  /\ UNCHANGED <<child, out, err, readers, channel>>

\* No connection, or no answer within half a second.
HealthFails ==
  /\ shell = "asking"
  /\ shell' = "pausing"
  /\ UNCHANGED <<child, out, err, readers, channel>>

(* Mutant of ReadyTimeout: the loop ends only with the child.              *)
ReadyTimeoutIfDead ==
  /\ shell = "pausing" /\ child = "exited"
  /\ TerminateBackend("failed")
  /\ UNCHANGED <<out, err, readers, channel>>

ReadyTimeout ==
  /\ shell = "pausing"
  /\ TerminateBackend("failed")
  /\ UNCHANGED <<out, err, readers, channel>>

Sleep ==
  /\ shell = "pausing"
  /\ shell' = "checking"
  /\ UNCHANGED <<child, out, err, readers, channel>>

\* RunEvent::Exit
Exit ==
  /\ shell = "open"
  /\ TerminateBackend("closed")
  /\ UNCHANGED <<out, err, readers, channel>>

\* The shell is killed: its threads end with it, the child goes on.
Kill ==
  /\ shell \in Starting \cup {"open"}
  /\ shell' = "killed"
  /\ outReader' = "ended" /\ errReader' = "ended" /\ sender' = FALSE
  /\ UNCHANGED <<child, out, err, channel>>

(* The reader threads *)

\* What is found first is sent; the sender is used up by it.
Report(message) ==
  /\ channel' = IF sender THEN Append(channel, message) ELSE channel
  /\ sender' = FALSE

ReadLine ==
  /\ outReader = "reading" /\ out # <<>>
  /\ out' = Tail(out)
  /\ \/ Head(out) = "text" /\ UNCHANGED <<outReader, sender, channel>>
     \/ Head(out) = "port" /\ Report("port") /\ UNCHANGED outReader
     \/ Head(out) = "garbled" /\ Report("error") /\ outReader' = "ended"
  /\ UNCHANGED <<shell, child, err, errReader>>

\* The pipe is at its end: the child is gone and all it wrote was read.
ReadEnd ==
  /\ outReader = "reading" /\ out = <<>> /\ child = "exited"
  /\ Report("error") /\ outReader' = "ended"
  /\ UNCHANGED <<shell, child, out, err, errReader>>

(* Mutant of ReadError: output is kept only until the start is over.       *)
ReadErrorAtStart ==
  /\ shell \in Starting
  /\ errReader = "reading" /\ err > 0
  /\ err' = err - 1
  /\ UNCHANGED <<shell, child, out, readers, channel>>

\* Bytes that are not UTF-8 would end the thread and close the pipe, after
\* which nobody can wait for room in it: that case is left out.
ReadError ==
  /\ errReader = "reading" /\ err > 0
  /\ err' = err - 1
  /\ UNCHANGED <<shell, child, out, readers, channel>>

(* The child *)

\* A line may be written while there is room, or into the void.
CanComplain == err < PipeSize \/ errReader = "ended"
Complained == IF errReader = "ended" THEN err ELSE err + 1

\* Output before the port line: warnings, or bytes that are not UTF-8.
Chatter(line) ==
  /\ child = "booting"
  /\ outReader = "reading" /\ Len(out) < PipeSize
  /\ out' = Append(out, line)
  /\ UNCHANGED <<shell, child, err, readers, channel>>

Warn ==
  /\ child = "booting" /\ CanComplain
  /\ err' = Complained
  /\ UNCHANGED <<shell, child, out, readers, channel>>

\* UiServer has bound its port; what is left is to print it and to serve.
Bind ==
  /\ child = "booting"
  /\ child' = "announcing"
  /\ UNCHANGED <<shell, out, err, readers, channel>>

\* print(..., flush=True) fails when nobody holds the other end.
Announce ==
  /\ child = "announcing"
  /\ IF outReader = "ended"
     THEN child' = "exited" /\ UNCHANGED out
     ELSE /\ Len(out) < PipeSize
          /\ out' = Append(out, "port") /\ child' = "listening"
  /\ UNCHANGED <<shell, err, readers, channel>>

ChildExits ==
  /\ child \in {"booting", "announcing", "listening"}
  /\ child' = "exited"
  /\ UNCHANGED <<shell, out, err, readers, channel>>

ShellStep ==
  \/ SpawnFails \/ Spawn \/ ReceivePort \/ PortTimeout
  \/ CheckChild \/ HealthAnswers \/ HealthFails \/ Sleep

BackendNext ==
  \/ ShellStep \/ ReadyTimeout \/ Exit \/ Kill
  \/ ReadLine \/ ReadEnd \/ ReadError
  \/ \E line \in {"text", "garbled"} : Chatter(line)
  \/ Warn \/ Bind \/ Announce \/ ChildExits

\* The shell's threads run, and its clock reaches every deadline: the loop
\* of wait_for_api_ready cannot pass it again and again.  Nothing is assumed
\* of the child, which may hang anywhere.
BackendFairness ==
  /\ WF_backendVars(ShellStep) /\ SF_backendVars(ReadyTimeout)
  /\ WF_backendVars(ReadLine \/ ReadEnd) /\ WF_backendVars(ReadError)

BackendSpec == BackendInit /\ [][BackendNext]_backendVars

(* Properties *)

\* Every way out of a failed start, and the end of the application, takes the
\* backend with it: no second backend is left on the journal unless the shell
\* itself was killed (start_local_api, terminate_backend, RunEvent::Exit).
NoOrphan == shell \in {"failed", "closed"} => child \in {"none", "exited"}

\* A start comes to an end whatever the child does: it may print nothing,
\* hang before or after its port line, flood its pipes or die at any point
\* (recv_timeout and the loop of wait_for_api_ready).
StartupEnds == (shell \in Starting) ~> (shell \notin Starting)
=============================================================================
