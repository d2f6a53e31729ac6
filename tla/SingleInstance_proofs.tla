----------------------- MODULE SingleInstance_proofs ------------------------
(***************************************************************************)
(* As long as processes start one at a time, the pid file lets at most one *)
(* of them run, for any number of processes, whatever crashes.             *)
(***************************************************************************)
EXTENDS SingleInstance, TLAPS

\* Each step of the protocol of main.c keeps the state well typed.
LEMMA TypeStep == TypeOK /\ [Next]_vars => TypeOK'
<1> SUFFICES ASSUME TypeOK, [Next]_vars PROVE TypeOK'
  OBVIOUS
<1> USE DEF TypeOK, Goto, Deciding
<1>1. ASSUME NEW p \in Procs, Launch(p) PROVE TypeOK'
  BY <1>1 DEF Launch
<1>2. ASSUME NEW p \in Procs, create_pid_file(p) PROVE TypeOK'
  BY <1>2 DEF create_pid_file
<1>3. ASSUME NEW p \in Procs, write_pid_file(p) PROVE TypeOK'
  BY <1>3 DEF write_pid_file
<1>4. ASSUME NEW p \in Procs, read_existing_pid(p) PROVE TypeOK'
  BY <1>4, InstanceAssumption DEF read_existing_pid
<1>5. ASSUME NEW p \in Procs, probe_existing(p) PROVE TypeOK'
  BY <1>5 DEF probe_existing
<1>6. ASSUME NEW p \in Procs, unlink_stale(p) PROVE TypeOK'
  BY <1>6 DEF unlink_stale
<1>7. ASSUME NEW p \in Procs, remove_instance_pid(p) PROVE TypeOK'
  BY <1>7 DEF remove_instance_pid
<1>8. ASSUME NEW p \in Procs, Die(p) PROVE TypeOK'
  BY <1>8 DEF Die
<1>9. ASSUME NEW p \in Procs, ReusePid(p) PROVE TypeOK'
  BY <1>9 DEF ReusePid
<1>10. CASE UNCHANGED vars
  BY <1>10 DEF vars
<1>. QED
  BY <1>1, <1>2, <1>3, <1>4, <1>5, <1>6, <1>7, <1>8, <1>9, <1>10 DEF Next, Decide

\* With one process deciding at a time, every step of ensure_single_instance,
\* every exit and every crash preserves StartInv.
LEMMA StartStep ==
  ASSUME TypeOK, StartInv, [Next]_vars, ~overlapped'
  PROVE  StartInv'
<1> USE InstanceAssumption DEF StartInv, TypeOK, Goto, Deciding
<1>1. ASSUME NEW p \in Procs, Launch(p) PROVE StartInv'
  BY <1>1 DEF Launch
<1>2. ASSUME NEW p \in Procs, create_pid_file(p) PROVE StartInv'
  BY <1>2 DEF create_pid_file
<1>3. ASSUME NEW p \in Procs, write_pid_file(p) PROVE StartInv'
  BY <1>3 DEF write_pid_file
<1>4. ASSUME NEW p \in Procs, read_existing_pid(p) PROVE StartInv'
  BY <1>4 DEF read_existing_pid
<1>5. ASSUME NEW p \in Procs, probe_existing(p) PROVE StartInv'
  BY <1>5 DEF probe_existing
<1>6. ASSUME NEW p \in Procs, unlink_stale(p) PROVE StartInv'
  BY <1>6 DEF unlink_stale
<1>7. ASSUME NEW p \in Procs, remove_instance_pid(p) PROVE StartInv'
  BY <1>7 DEF remove_instance_pid
<1>8. ASSUME NEW p \in Procs, Die(p) PROVE StartInv'
  BY <1>8 DEF Die
<1>9. ASSUME NEW p \in Procs, ReusePid(p) PROVE StartInv'
  BY <1>9 DEF ReusePid
<1>10. CASE UNCHANGED vars
  BY <1>10 DEF vars
<1>. QED
  BY <1>1, <1>2, <1>3, <1>4, <1>5, <1>6, <1>7, <1>8, <1>9, <1>10 DEF Next, Decide

\* An overlap is never forgotten.
LEMMA OverlapStays ==
  ASSUME TypeOK, [Next]_vars, overlapped
  PROVE  overlapped'
  BY DEF Next, Decide, vars, Launch, create_pid_file, write_pid_file,
         read_existing_pid, probe_existing, unlink_stale, remove_instance_pid, Die, ReusePid

\* ensure_single_instance does its job for processes that start one at a time:
\* no two of them run at once, whichever ones crash and leave their file and
\* whoever is given their pids.
THEOREM SequentialStarts == Spec => [](InstanceInv /\ SequentialInstance)
<1>1. Init => InstanceInv
  BY DEF Init, InstanceInv, StartInv, TypeOK, Deciding
<1>2. InstanceInv /\ [Next]_vars => InstanceInv'
  BY TypeStep, StartStep, OverlapStays DEF InstanceInv
<1>3. InstanceInv => SequentialInstance
  BY DEF InstanceInv, StartInv, SequentialInstance, SingleInstance
<1>. QED
  BY <1>1, <1>2, <1>3, PTL DEF Spec
=============================================================================
