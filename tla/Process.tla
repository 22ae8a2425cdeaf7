------------------------------- MODULE Process -------------------------------
(***************************************************************************)
(* The life of a process: kern/proc/proc.c with the system calls of        *)
(* kern/syscall/proc_syscalls.c and the program launcher of                *)
(* kern/main/menu.c.  The table of processes, fork and its failures, exit, *)
(* waitpid on the semaphore of the process, destruction.                   *)
(*                                                                         *)
(* A thread that panics stops there; the other processors go on until the  *)
(* IPI_PANIC reaches them, so their steps stay possible.                   *)
(***************************************************************************)
EXTENDS Integers, FiniteSets, FiniteSetsExt

CONSTANTS
  Procs,        (* proc structures; a freed one can be allocated again     *)
  Threads,
  kproc,        (* the process of the kernel                               *)
  menu,         (* the thread of the kernel menu                           *)
  None,         (* NULL                                                    *)
  MAX_PROC,
  ParentsOnly   (* TRUE: programs call waitpid only for the children fork  *)
                (* gave them, once each; FALSE: for any pid                *)

ASSUME ProcessAssumption ==
  /\ kproc \in Procs /\ menu \in Threads
  /\ None \notin Procs \cup Threads
  /\ MAX_PROC \in Nat \ {0, 1}
  /\ ParentsOnly \in BOOLEAN

VARIABLES
  live,          (* the proc structures that are allocated                 *)
  p_pid, p_numthreads,
  p_sem,         (* count of the semaphore waitpid waits on                *)
  table,         (* processTable.proc                                      *)
  last_i,        (* processTable.last_i                                    *)
  t_proc,        (* thread -> its process, or None                         *)
  pc,            (* where each thread is                                   *)
  ref,           (* thread -> the proc structure a local variable points to *)
  children       (* thread -> pids fork returned to it, not yet waited for *)

procs == <<live, p_pid, p_numthreads, p_sem, table, last_i>>
vars == <<procs, t_proc, pc, ref, children>>

Pids == 1 .. MAX_PROC

Goto(t, l) == pc' = [pc EXCEPT ![t] = l]

Init ==
  /\ live = {}
  /\ p_pid = [p \in Procs |-> 0]
  /\ p_numthreads = [p \in Procs |-> 0]
  /\ p_sem = [p \in Procs |-> 0]
  /\ table = [i \in 0 .. MAX_PROC |-> None]
  /\ last_i = 0
  /\ t_proc = [t \in Threads |-> None]
  /\ pc = [t \in Threads |-> "none"]
  /\ ref = [t \in Threads |-> None]
  /\ children = [t \in Threads |-> {}]

-----------------------------------------------------------------------------
(* The slot k places after last_i, and the ones proc_init_waitpid looks at: *)
(* from last_i + 1 round the table until it meets last_i.                   *)
Slot(k) == ((last_i + k - 1) % MAX_PROC) + 1

FreeOffsetsMutant == {k \in 1 .. MAX_PROC - 1 : k = 1 \/ table[Slot(k)] = None}

FreeOffsets == {k \in 1 .. MAX_PROC - 1 : table[Slot(k)] = None}

(* proc_create, with proc_init_waitpid.                                     *)
proc_create(p) ==
  LET i == Slot(Min(FreeOffsets))
  IN  /\ p \notin live /\ FreeOffsets # {}
      /\ live' = live \cup {p}
      /\ table' = [table EXCEPT ![i] = p]
      /\ last_i' = i
      /\ p_pid' = [p_pid EXCEPT ![p] = i]
      /\ p_numthreads' = [p_numthreads EXCEPT ![p] = 0]
      /\ p_sem' = [p_sem EXCEPT ![p] = 0]

proc_end_waitpid(p) == table' = [table EXCEPT ![p_pid[p]] = None]

proc_destroy(p) ==
  /\ live' = live \ {p}
  /\ proc_end_waitpid(p)
  /\ UNCHANGED <<p_pid, p_numthreads, p_sem, last_i>>

(* The process of the kernel is made by proc_create like any other.         *)
proc_bootstrap ==
  /\ kproc \notin live
  /\ LET i == Slot(Min(FreeOffsets))
     IN  /\ live' = {kproc}
         /\ table' = [table EXCEPT ![i] = kproc]
         /\ last_i' = i
         /\ p_pid' = [p_pid EXCEPT ![kproc] = i]
  /\ p_numthreads' = [p_numthreads EXCEPT ![kproc] = 1]
  /\ t_proc' = [t_proc EXCEPT ![menu] = kproc]
  /\ Goto(menu, "run")
  /\ UNCHANGED <<p_sem, ref, children>>

-----------------------------------------------------------------------------
(* sys_fork, and common_prog when t is the menu: a process is created, ...  *)
create(t) ==
  /\ pc[t] = "run"
  /\ \E p \in Procs \ {kproc} : proc_create(p) /\ ref' = [ref EXCEPT ![t] = p]
  /\ Goto(t, "created")
  /\ UNCHANGED <<t_proc, children>>

create_full(t) ==
  /\ pc[t] = "run" /\ FreeOffsets = {}
  /\ Goto(t, "panic_full")
  /\ UNCHANGED <<procs, t_proc, ref, children>>

(* ... destroyed again when as_copy, kmalloc or thread_fork fails, ...      *)
create_failedMutant(t) ==
  /\ pc[t] = "created"
  /\ Goto(t, "run")
  /\ ref' = [ref EXCEPT ![t] = None]
  /\ UNCHANGED <<procs, t_proc, children>>

create_failed(t) ==
  /\ pc[t] = "created"
  /\ proc_destroy(ref[t])
  /\ Goto(t, "run")
  /\ ref' = [ref EXCEPT ![t] = None]
  /\ UNCHANGED <<t_proc, children>>

proc_addthread(p, t) ==
  /\ p_numthreads' = [p_numthreads EXCEPT ![p] = @ + 1]
  /\ t_proc' = [t_proc EXCEPT ![t] = p]

(* ... and given a thread, which starts in user mode after a fork and in    *)
(* runprogram after the menu.                                               *)
thread_fork(t) ==
  /\ pc[t] = "created"
  /\ \E u \in Threads :
       /\ pc[u] = "none"
       /\ proc_addthread(ref[t], u)
       /\ \/ /\ t # menu
             /\ pc' = [pc EXCEPT ![u] = "run", ![t] = "forked"]
             /\ UNCHANGED ref
          \/ /\ t = menu
             /\ pc' = [pc EXCEPT ![u] = "load", ![t] = "run"]
             /\ ref' = [ref EXCEPT ![t] = None]
  /\ UNCHANGED <<live, p_pid, p_sem, table, last_i, children>>

(* sys_fork reads the pid from the new process after its thread may have    *)
(* run.                                                                     *)
fork_return(t) ==
  /\ pc[t] = "forked"
  /\ children' = [children EXCEPT ![t] = @ \cup {p_pid[ref[t]]}]
  /\ Goto(t, "run")
  /\ ref' = [ref EXCEPT ![t] = None]
  /\ UNCHANGED <<procs, t_proc>>

(* runprogram enters user mode, or fails: the thread ends without sys__exit. *)
runprogram(t) ==
  /\ pc[t] = "load"
  /\ Goto(t, "run")
  /\ UNCHANGED <<procs, t_proc, ref, children>>

runprogram_failed(t) ==
  /\ pc[t] = "load"
  /\ Goto(t, "thread_exit")
  /\ UNCHANGED <<procs, t_proc, ref, children>>

-----------------------------------------------------------------------------
proc_remthreadMutant(t) ==
  /\ p_numthreads' = [p_numthreads EXCEPT ![t_proc[t]] = @ - 1]
  /\ UNCHANGED t_proc

proc_remthread(t) ==
  /\ p_numthreads' = [p_numthreads EXCEPT ![t_proc[t]] = @ - 1]
  /\ t_proc' = [t_proc EXCEPT ![t] = None]

(* sys__exit detaches the thread, signals the end of the process and calls  *)
(* thread_exit, which detaches the thread again and finds no process.       *)
sys__exit(t) ==
  /\ pc[t] = "run" /\ t # menu
  /\ proc_remthread(t)
  /\ ref' = [ref EXCEPT ![t] = t_proc[t]]
  /\ Goto(t, "signal_end")
  /\ UNCHANGED <<live, p_pid, p_sem, table, last_i, children>>

SignalEndMutant(p) == UNCHANGED p_sem

SignalEnd(p) == p_sem' = [p_sem EXCEPT ![p] = @ + 1]

proc_signal_end(t) ==
  /\ pc[t] = "signal_end"
  /\ SignalEnd(ref[t])
  /\ ref' = [ref EXCEPT ![t] = None]
  /\ Goto(t, "thread_exit")
  /\ UNCHANGED <<live, p_pid, p_numthreads, table, last_i, t_proc, children>>

thread_exit(t) ==
  /\ pc[t] = "thread_exit"
  /\ \/ /\ t_proc[t] # None
        /\ proc_remthread(t)
        /\ Goto(t, "none")
     \/ /\ t_proc[t] = None
        /\ Goto(t, "panic_exit")
        /\ UNCHANGED <<p_numthreads, t_proc>>
  /\ UNCHANGED <<live, p_pid, p_sem, table, last_i, ref, children>>

-----------------------------------------------------------------------------
MayWait(t, pid) == ParentsOnly => pid \in children[t]

(* proc_search_pid and the assertions at the beginning of proc_wait.        *)
PidAccepted(pid) == pid < MAX_PROC /\ table[pid] # None /\ table[pid] # kproc

sys_waitpid(t) ==
  /\ pc[t] = "run" /\ t # menu
  /\ \E pid \in 0 .. MAX_PROC :
       /\ MayWait(t, pid)
       /\ children' = [children EXCEPT ![t] = @ \ {pid}]
       /\ \/ PidAccepted(pid)   /\ ref' = [ref EXCEPT ![t] = table[pid]] /\ Goto(t, "P")
          \/ ~ PidAccepted(pid) /\ UNCHANGED ref /\ Goto(t, "panic_pid")
  /\ UNCHANGED <<procs, t_proc>>

EndSignalledMutant(p) == p_numthreads[p] = 0

EndSignalled(p) == p_sem[p] > 0

wait_P(t) ==
  /\ pc[t] = "P"
  /\ EndSignalled(ref[t])
  /\ p_sem' = [p_sem EXCEPT ![ref[t]] = @ - 1]
  /\ Goto(t, "reap")
  /\ UNCHANGED <<live, p_pid, p_numthreads, table, last_i, t_proc, ref, children>>

wait_reap(t) ==
  /\ pc[t] = "reap"
  /\ proc_destroy(ref[t])
  /\ ref' = [ref EXCEPT ![t] = None]
  /\ Goto(t, "run")
  /\ UNCHANGED <<t_proc, children>>

Next ==
  \/ proc_bootstrap
  \/ \E t \in Threads :
       \/ create(t) \/ create_full(t) \/ create_failed(t) \/ thread_fork(t) \/ fork_return(t)
       \/ runprogram(t) \/ runprogram_failed(t)
       \/ sys__exit(t) \/ proc_signal_end(t) \/ thread_exit(t)
       \/ sys_waitpid(t) \/ wait_P(t) \/ wait_reap(t)

Spec == Init /\ [][Next]_vars

-----------------------------------------------------------------------------
Locations ==
  {"none", "run", "load", "created", "forked", "signal_end", "thread_exit", "P", "reap",
   "panic_full", "panic_exit", "panic_pid"}

TypeOK ==
  /\ live \subseteq Procs
  /\ p_pid \in [Procs -> 0 .. MAX_PROC]
  /\ p_numthreads \in [Procs -> 0 .. 1]
  /\ p_sem \in [Procs -> 0 .. 1]
  /\ table \in [0 .. MAX_PROC -> Procs \cup {None}]
  /\ last_i \in 0 .. MAX_PROC
  /\ t_proc \in [Threads -> Procs \cup {None}]
  /\ pc \in [Threads -> Locations]
  /\ ref \in [Threads -> Procs \cup {None}]
  /\ children \in [Threads -> SUBSET Pids]

(* The table and the processes agree: two processes never have the same     *)
(* pid, none has pid 0, and no slot points to a freed process.  (kproc has  *)
(* a slot as well; proc_bootstrap says it "is not registered in the table", *)
(* so nothing is claimed for it.)                                           *)
TableConsistent ==
  /\ \A i \in Pids : table[i] # None => table[i] \in live /\ p_pid[table[i]] = i
  /\ \A p \in live \ {kproc} : p_pid[p] \in Pids /\ table[p_pid[p]] = p

(* A process nothing is left of but its slot: no thread runs in it or has a *)
(* pointer to it, and no end was signalled that a waitpid could still see.  *)
Forgotten(p) ==
  /\ p \in live \ {kproc}
  /\ \A t \in Threads : t_proc[t] # p /\ ref[t] # p
  /\ ~ EndSignalled(p)

(* No process is forgotten: a fork that fails at any point, an exit and a   *)
(* waitpid leave none behind in the table, in whatever order parent and     *)
(* child run.  Only the thread of a program that the menu started and that  *)
(* could not be loaded does, when it ends without sys__exit.                *)
NoneForgotten ==
  [][\A p \in Procs : ~ Forgotten(p) /\ Forgotten(p)' =>
       \E t \in Threads : pc[t] = "thread_exit" /\ t_proc[t] = p]_vars

(* proc_destroy "must have the only reference to this structure": a process *)
(* is destroyed when no thread runs in it and no thread but the destroyer   *)
(* has a pointer to it.                                                     *)
OnlyReference ==
  [][\A p \in live \ live' :
       /\ p_numthreads[p] = 0
       /\ Cardinality({t \in Threads : ref[t] = p \/ t_proc[t] = p}) = 1]_vars

(* A pointer kept over a step still points to a live process: fork reads    *)
(* the pid of its child, exit signals its process, waitpid sleeps on it.    *)
NoStaleReference == \A t \in Threads : ref[t] # None => ref[t] \in live

(* waitpid cannot sleep for ever on a process that is over: once the last   *)
(* thread has left the process, the semaphore is up or the thread that left *)
(* is about to raise it, whichever of exit and waitpid came first.          *)
ExitNotLost ==
  \A t \in Threads :
    pc[t] = "P" /\ p_numthreads[ref[t]] = 0 =>
      \/ EndSignalled(ref[t])
      \/ \E u \in Threads : pc[u] = "signal_end" /\ ref[u] = ref[t]

(* A pid fork returned stays good until its parent passes it to waitpid:    *)
(* the child, running or over, keeps its slot, which no other process gets  *)
(* in between (fork reads the pid after the child may have come and gone).  *)
ChildKeepsSlot ==
  /\ \A t \in Threads : \A pid \in children[t] : table[pid] \notin {None, kproc}
  /\ \A t, u \in Threads : t # u => children[t] \cap children[u] = {}

(* "Very simple implementation of sys__exit.  It just avoids crash/panic."  *)
ExitAvoidsPanic == \A t \in Threads : pc[t] # "panic_exit"

=============================================================================
