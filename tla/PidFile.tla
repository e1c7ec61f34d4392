------------------------------- MODULE PidFile -------------------------------
(***************************************************************************)
(* The process lock of the driver (class Pid_file, src/pidfile.hpp): a     *)
(* file in /var/run, locked with flock(), that holds the number of the     *)
(* process and is unlinked when the driver is destroyed.                   *)
(*                                                                         *)
(* flock() locks the file that was opened, not its name.  Each system call *)
(* is a step: other processes run between them.  A process that dies       *)
(* loses its lock, its file stays.                                         *)
(***************************************************************************)
EXTENDS Naturals, FiniteSets

CONSTANTS
  Procs,          \* processes that use the driver
  MaxPidCrashes   \* bound: processes that die without cleaning up

NoPidFile == 0
PidFiles  == 1 .. (Cardinality(Procs) + 1)  \* enough: a file is in use by its name
                                         \* or by a process that has it open
VARIABLES
  pidName,     \* the file the name stands for, or NoPidFile
  pidText,     \* what a file holds: nothing, a process number, or a mixture
  pidFd,       \* pidFd[p]: the file fd_ refers to, or NoPidFile
  pidLock,     \* pidLock[f]: who has it locked (a set of at most one)
  pidAt,       \* pidAt[p]: its next step
  pidStolen,   \* history: an unlink removed a file that another one has open
  pidCrashes

pidVars == <<pidName, pidText, pidFd, pidLock, pidAt, pidStolen, pidCrashes>>

PidInit ==
  /\ pidName = NoPidFile
  /\ pidText = [f \in PidFiles |-> "empty"]
  /\ pidFd = [p \in Procs |-> NoPidFile]
  /\ pidLock = [f \in PidFiles |-> {}]
  /\ pidAt = [p \in Procs |-> "out"]
  /\ pidStolen = FALSE /\ pidCrashes = 0

PidGoto(p, step) == pidAt' = [pidAt EXCEPT ![p] = step]
Used == {pidName} \cup {pidFd[p] : p \in Procs}

\* ::open() with O_CREAT: the file of this name, or a new one.
PidOpen(p) ==
  /\ pidAt[p] = "out"
  /\ \/ /\ pidName # NoPidFile /\ UNCHANGED <<pidName, pidText>>
     \/ /\ pidName = NoPidFile
        /\ \E f \in PidFiles \ Used :
             pidName' = f /\ pidText' = [pidText EXCEPT ![f] = "empty"]
  /\ pidFd' = [pidFd EXCEPT ![p] = pidName']
  /\ PidGoto(p, "opened")
  /\ UNCHANGED <<pidLock, pidStolen, pidCrashes>>

\* ::flock() without waiting.
PidFlock(p) ==
  /\ pidAt[p] = "opened" /\ pidLock[pidFd[p]] = {}
  /\ pidLock' = [pidLock EXCEPT ![pidFd[p]] = {p}]
  /\ PidGoto(p, "locked")
  /\ UNCHANGED <<pidName, pidText, pidFd, pidStolen, pidCrashes>>

Closed(p) ==
  /\ pidFd' = [pidFd EXCEPT ![p] = NoPidFile]
  /\ pidLock' = [f \in PidFiles |-> pidLock[f] \ {p}]

BugPidRefused(p) ==
  /\ pidAt[p] = "opened" /\ pidLock[pidFd[p]] # {}
  /\ Closed(p) /\ PidGoto(p, "out") /\ pidName' = NoPidFile
  /\ UNCHANGED <<pidText, pidStolen, pidCrashes>>

\* Locked by another: lock() throws, its guard's cleanup() closes the file and,
\* since is_locked_ is not set, leaves the name alone.
PidRefused(p) ==
  /\ pidAt[p] = "opened" /\ pidLock[pidFd[p]] # {}
  /\ Closed(p) /\ PidGoto(p, "out")
  /\ UNCHANGED <<pidName, pidText, pidStolen, pidCrashes>>

\* read_pid(), truncate_pid(), write_pid().  What an earlier owner has left is
\* read first and moves the file position, so that the number ends up behind
\* it, or behind a hole.  Any of the three may throw.
PidWrite(p) ==
  /\ pidAt[p] = "locked"
  /\ \/ /\ pidText' = [pidText EXCEPT
             ![pidFd[p]] = IF @ = "empty" THEN "number" ELSE "mixture"]
        /\ PidGoto(p, "in")
     \/ PidGoto(p, "in cleanup") /\ UNCHANGED pidText
  /\ UNCHANGED <<pidName, pidFd, pidLock, pidStolen, pidCrashes>>

\* unlock() and cleanup(): close(), which gives up the lock ...
PidClose(p) ==
  /\ pidAt[p] \in {"in", "in cleanup"}
  /\ Closed(p) /\ PidGoto(p, "closed")
  /\ UNCHANGED <<pidName, pidText, pidStolen, pidCrashes>>

\* ... and then unlink(), whatever the name stands for by now.
PidUnlink(p) ==
  /\ pidAt[p] = "closed"
  /\ pidStolen' = (pidStolen \/ (pidName # NoPidFile /\ \E q \in Procs : pidFd[q] = pidName))
  /\ pidName' = NoPidFile
  /\ PidGoto(p, "out")
  /\ UNCHANGED <<pidText, pidFd, pidLock, pidCrashes>>

PidCrash(p) ==
  /\ pidCrashes < MaxPidCrashes /\ pidCrashes' = pidCrashes + 1
  /\ pidAt[p] # "out"
  /\ Closed(p) /\ PidGoto(p, "out")
  /\ UNCHANGED <<pidName, pidText, pidStolen>>

PidNext ==
  \E p \in Procs :
    \/ PidOpen(p) \/ PidFlock(p) \/ PidRefused(p) \/ PidWrite(p)
    \/ PidClose(p) \/ PidUnlink(p) \/ PidCrash(p)

PidSpec == PidInit /\ [][PidNext]_pidVars

-----------------------------------------------------------------------------
Owns(p) == pidAt[p] \in {"locked", "in", "in cleanup"}

\* One process drives the board at a time, and whoever comes next meets its
\* lock: failed attempts, failed writes and crashes at any step do not change
\* that.  Only an unlink can, that comes so late that the name stands for the
\* file of another process already.
PidExclusive ==
  ~pidStolen =>
    \A p \in Procs : Owns(p) =>
      /\ pidName = pidFd[p]
      /\ \A q \in Procs \ {p} : ~Owns(q)
=============================================================================
