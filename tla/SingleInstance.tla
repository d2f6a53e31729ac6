--------------------------- MODULE SingleInstance ---------------------------
(***************************************************************************)
(* The pid file that keeps a second instance from starting:                *)
(* ensure_single_instance and its helpers in src/src/main.c. Several       *)
(* processes go through it; the file system and kill(2) are external. The  *)
(* pid of a dead process may be given to another program, which may be the *)
(* very process that reads it from the file.                               *)
(***************************************************************************)
EXTENDS FiniteSets

CONSTANTS
  Procs,  \* processes started over time, each with its own pid
  None    \* no process

ASSUME InstanceAssumption == None \notin Procs

VARIABLES
  at,       \* where each process is
  entry,    \* the file the path names: the process that created it, or None
  written,  \* processes whose pid is in the file they created
  seen,     \* existing_pid in each process, None for -1
  foreign,  \* dead processes whose pid another program has now
  overlapped  \* has a process started while another was deciding? (history)

vars == <<at, entry, written, seen, foreign, overlapped>>

Deciding == {"create", "write", "read", "probe", "unlink"}

TypeOK ==
  /\ at \in [Procs -> Deciding \cup {"new", "running", "refused", "failed", "gone"}]
  /\ entry \in Procs \cup {None}
  /\ written \subseteq Procs
  /\ seen \in [Procs -> Procs \cup {None}]
  /\ foreign \subseteq Procs
  /\ overlapped \in BOOLEAN

Init ==
  /\ at = [p \in Procs |-> "new"]
  /\ entry = None
  /\ written = {}
  /\ seen = [p \in Procs |-> None]
  /\ foreign = {}
  /\ overlapped = FALSE

Goto(p, l) == at' = [at EXCEPT ![p] = l]

-----------------------------------------------------------------------------
Launch(p) ==
  /\ at[p] = "new"
  /\ overlapped' = (overlapped \/ \E q \in Procs : at[q] \in Deciding)
  /\ Goto(p, "create")
  /\ UNCHANGED <<entry, written, seen, foreign>>

\* Mutant: O_EXCL is missing.
Mutant_create_not_exclusive(p) ==
  /\ at[p] = "create"
  /\ entry' = p /\ Goto(p, "write")
  /\ UNCHANGED <<written, seen, foreign, overlapped>>

\* write_pid_file's open with O_CREAT | O_EXCL. In this and the next step, and
\* when a stale file is cleared, the file system may refuse.
create_pid_file(p) ==
  /\ at[p] = "create"
  /\ \/ entry = None /\ entry' = p /\ Goto(p, "write")
     \/ entry # None /\ UNCHANGED entry /\ Goto(p, "read")
     \/ UNCHANGED entry /\ Goto(p, "failed")
  /\ UNCHANGED <<written, seen, foreign, overlapped>>

\* The rest of write_pid_file. The pid goes into the file this process
\* created, whether or not the path still names it; a failure unlinks the path.
write_pid_file(p) ==
  /\ at[p] = "write"
  /\ \/ written' = written \cup {p} /\ Goto(p, "running") /\ UNCHANGED entry
     \/ entry' = None /\ Goto(p, "failed") /\ UNCHANGED written
  /\ UNCHANGED <<seen, foreign, overlapped>>

\* A missing file and one that holds no pid yet both read as -1.
read_existing_pid(p) ==
  /\ at[p] = "read"
  /\ seen' = [seen EXCEPT ![p] = IF entry \in written THEN entry ELSE None]
  /\ Goto(p, "probe")
  /\ UNCHANGED <<entry, written, foreign, overlapped>>

\* Mutant: a process that was found is taken for an instance, alive or not.
Mutant_probe_ignores_death(p) ==
  /\ at[p] = "probe"
  /\ Goto(p, IF seen[p] # None THEN "refused" ELSE "unlink")
  /\ UNCHANGED <<entry, written, seen, foreign, overlapped>>

\* Mutant: the answer of kill is not looked at.
Mutant_probe_ignores_kill(p) ==
  /\ at[p] = "probe"
  /\ Goto(p, "unlink")
  /\ UNCHANGED <<entry, written, seen, foreign, overlapped>>

\* Mutant: a missing pid is read again before anything is cleared.
Mutant_probe_waits_for_pid(p) ==
  /\ at[p] = "probe"
  /\ Goto(p, IF seen[p] = None THEN "read"
             ELSE IF at[seen[p]] = "running" \/ seen[p] \in foreign THEN "refused" ELSE "unlink")
  /\ UNCHANGED <<entry, written, seen, foreign, overlapped>>

\* kill(existing_pid, 0).
probe_existing(p) ==
  /\ at[p] = "probe"
  /\ Goto(p, IF seen[p] # None /\ (at[seen[p]] = "running" \/ seen[p] \in foreign)
             THEN "refused" ELSE "unlink")
  /\ UNCHANGED <<entry, written, seen, foreign, overlapped>>

unlink_stale(p) ==
  /\ at[p] = "unlink"
  /\ \/ entry' = None /\ Goto(p, "create")
     \/ UNCHANGED entry /\ Goto(p, "failed")
  /\ UNCHANGED <<written, seen, foreign, overlapped>>

\* main returns: the atexit handler remove_instance_pid unlinks the path.
remove_instance_pid(p) ==
  /\ at[p] = "running"
  /\ entry' = None
  /\ Goto(p, "gone")
  /\ UNCHANGED <<written, seen, foreign, overlapped>>

\* A process dies without its atexit handlers: a crash, a kill, or
\* main's _exit(128).
Die(p) ==
  /\ at[p] \in Deciding \cup {"running"}
  /\ Goto(p, "gone")
  /\ UNCHANGED <<entry, written, seen, foreign, overlapped>>

\* The system starts or ends a program with the pid of a dead process.
ReusePid(p) ==
  /\ at[p] = "gone"
  /\ foreign' = IF p \in foreign THEN foreign \ {p} ELSE foreign \cup {p}
  /\ UNCHANGED <<at, entry, written, seen, overlapped>>

Decide(p) == create_pid_file(p) \/ write_pid_file(p) \/ read_existing_pid(p)
             \/ probe_existing(p) \/ unlink_stale(p)

Next == \E p \in Procs :
          Launch(p) \/ Decide(p) \/ remove_instance_pid(p) \/ Die(p) \/ ReusePid(p)

Spec == Init /\ [][Next]_vars
FairSpec == Spec /\ \A p \in Procs : WF_vars(Decide(p))

-----------------------------------------------------------------------------
\* At most one process gets past ensure_single_instance and runs.
SingleInstance ==
  \A p, q \in Procs : at[p] = "running" /\ at[q] = "running" => p = q

\* The same as long as no two starts have overlapped, wherever earlier
\* processes crashed, whatever they left in the pid file and whoever has their
\* pids now.
SequentialInstance == ~overlapped => SingleInstance

\* A file left behind by a dead process, with a pid in it or empty, never keeps
\* a new one out: a process that starts while no instance runs comes to run,
\* unless the file system refuses, another start overlaps or some program has
\* the pid of a dead one by then.
StaleFileHarmless ==
  \A p \in Procs :
    (at[p] = "create" /\ ~overlapped /\ foreign = {}
       /\ \A q \in Procs : at[q] # "running")
      ~> (at[p] \in {"running", "failed", "gone"} \/ overlapped \/ foreign # {})

\* ensure_single_instance's loop ends for everyone, overlapping starts
\* included: the retries after a stale file was cleared cannot go on for ever.
Decided == \A p \in Procs : at[p] = "create" ~> at[p] \notin Deciding

\* What holds of non-overlapping starts: a running process's pid file is in
\* place, and only a process that has seen no running instance is about to
\* unlink or has created a new file.
StartInv ==
  /\ \A p, q \in Procs : at[p] \in Deciding /\ at[q] \in Deciding => p = q
  /\ \A p \in Procs :
       /\ at[p] = "running" => entry = p /\ p \in written
       /\ at[p] = "write" => entry = p
       /\ at[p] = "probe" /\ seen[p] = None => \A q \in Procs : at[q] # "running"
       /\ at[p] = "probe" /\ seen[p] # None =>
            \A q \in Procs : at[q] = "running" => q = seen[p]
       /\ at[p] = "unlink" => \A q \in Procs : at[q] # "running"

\* The inductive invariant behind SequentialInstance.
InstanceInv == TypeOK /\ (~overlapped => StartInv)
=============================================================================
