------------------------------ MODULE Scheduler ------------------------------
(***************************************************************************)
(* The scheduler of kern/thread/thread.c on several processors: run        *)
(* queues, thread_switch with its idle loop, a wait channel, thread exit   *)
(* and exorcism, migration from hardclock, inter-processor interrupts.     *)
(*                                                                         *)
(* One action per critical section of a run queue lock.  A processor that  *)
(* has nothing to run idles inside thread_switch, on the stack of the      *)
(* thread that left; that thread can be woken meanwhile, and be on a run   *)
(* queue while its stack is in use.                                        *)
(***************************************************************************)
EXTENDS Integers, Sequences, FiniteSets

CONSTANTS
  N,                   (* number of processors                             *)
  Threads,             (* thread structures                                *)
  MIGRATE_HARDCLOCKS,  (* hardclocks between two migration attempts        *)
  None                 (* no thread                                        *)

Cpus == 1 .. N         (* allcpus, in order                                *)

ASSUME SchedulerAssumption ==
  /\ N \in Nat \ {0}
  /\ MIGRATE_HARDCLOCKS \in Nat \ {0}
  /\ IsFiniteSet(Threads) /\ Cardinality(Threads) >= N /\ None \notin Threads

VARIABLES
  t_state,       (* thread -> its state, "none" when not allocated         *)
  t_cpu,         (* thread -> the processor it belongs to                  *)
  newthread,     (* thread -> the thread its thread_fork is creating       *)
  c_runqueue,    (* cpu -> the threads ready to run there, in order        *)
  c_curthread,   (* cpu -> the thread whose stack it is on                 *)
  c_isidle,      (* cpu -> in the idle loop of thread_switch               *)
  c_zombies,     (* cpu -> threads that exited there and are not destroyed *)
  c_ipi,         (* cpu -> an IPI_UNIDLE is pending                        *)
  c_hardclocks,  (* cpu -> clock ticks, modulo MIGRATE_HARDCLOCKS          *)
  wc_threads,    (* the threads asleep on the wait channel, in order       *)
  mode,          (* cpu -> what it executes, see Modes                     *)
  list,          (* cpu -> the local list of wakeall or of migration       *)
  mig            (* cpu -> the local variables of thread_consider_migration *)

queues  == <<c_runqueue, wc_threads, c_zombies, list>>
threads == <<t_state, t_cpu>>
vars == <<threads, newthread, queues, c_curthread, c_isidle, c_ipi, c_hardclocks, mode, mig>>

(* "run": the current thread runs, interrupts on.  "switch": in             *)
(* thread_switch, the own run queue locked.  "wait": in cpu_idle.           *)
(* "relock": interrupted out of cpu_idle, about to look at the queue again. *)
(* "wakeall": in wchan_wakeall, the channel's spinlock held.  "count",      *)
(* "pick", "give": in thread_consider_migration.  "yield": at the           *)
(* thread_yield that ends hardclock.                                        *)
Modes == {"run", "switch", "wait", "relock", "wakeall", "count", "pick", "give", "yield"}

NoMigration == [i |-> 1, my |-> 0, total |-> 0, share |-> 0, send |-> 0]

(* Every processor on its boot thread.                                      *)
Init ==
  /\ c_curthread \in {f \in [Cpus -> Threads] : \A c, d \in Cpus : f[c] = f[d] => c = d}
  /\ t_state = [t \in Threads |-> IF \E c \in Cpus : c_curthread[c] = t THEN "run" ELSE "none"]
  /\ t_cpu = [t \in Threads |->
                IF \E c \in Cpus : c_curthread[c] = t
                THEN CHOOSE c \in Cpus : c_curthread[c] = t ELSE 1]
  /\ newthread = [t \in Threads |-> None]
  /\ c_runqueue = [c \in Cpus |-> << >>]
  /\ c_isidle = [c \in Cpus |-> FALSE]
  /\ c_zombies = [c \in Cpus |-> {}]
  /\ c_ipi = [c \in Cpus |-> FALSE]
  /\ c_hardclocks = [c \in Cpus |-> 0]
  /\ wc_threads = << >>
  /\ mode = [c \in Cpus |-> "run"]
  /\ list = [c \in Cpus |-> << >>]
  /\ mig = [c \in Cpus |-> NoMigration]

Goto(c, m) == mode' = [mode EXCEPT ![c] = m]

(* The lock of a run queue is held between two steps only by a switch of    *)
(* its own processor.                                                       *)
QueueFree(c) == mode[c] # "switch"

(* The spinlock of the channel is held between two steps only by a wakeall. *)
ChannelFree == \A c \in Cpus : mode[c] # "wakeall"

(* An interrupt handler returns to where it interrupted.                    *)
AfterInterrupt(c) == IF c_isidle[c] THEN "relock" ELSE "run"

(* The current thread runs and is not in the middle of a thread_fork.       *)
Decides(c) == mode[c] = "run" /\ newthread[c_curthread[c]] = None

(* Code that may run in the current thread or in an interrupt handler.      *)
Active(c) == mode[c] \in {"run", "wait"}

-----------------------------------------------------------------------------
(* The idle test that decides on an IPI_UNIDLE, for a thread queued on d by *)
(* processor c.                                                             *)
MustUnidleMutant(c, d) == c_isidle[d] /\ mode[d] = "wait" /\ d # c /\ c_runqueue[d] # << >>

MustUnidle(c, d) == c_isidle[d] /\ d # c

(* thread_make_runnable of target, called on processor c.                   *)
thread_make_runnableMutant(c, target) ==
  LET d == t_cpu[target]
  IN  /\ t_state' = [t_state EXCEPT ![target] = "ready"]
      /\ c_runqueue' = [c_runqueue EXCEPT ![d] = <<target>> \o @]
      /\ c_ipi' = [c_ipi EXCEPT ![d] = @ \/ MustUnidle(c, d)]

thread_make_runnable(c, target) ==
  LET d == t_cpu[target]
  IN  /\ t_state' = [t_state EXCEPT ![target] = "ready"]
      /\ c_runqueue' = [c_runqueue EXCEPT ![d] = Append(@, target)]
      /\ c_ipi' = [c_ipi EXCEPT ![d] = @ \/ MustUnidle(c, d)]

(* thread_fork up to newthread->t_cpu = curthread->t_cpu: interrupts are on, *)
(* and the thread can be preempted and migrated before it goes on.          *)
thread_fork(c) ==
  /\ Decides(c)
  /\ \E new \in {t \in Threads : t_state[t] = "none"} :
       /\ t_cpu' = [t_cpu EXCEPT ![new] = t_cpu[c_curthread[c]]]
       /\ t_state' = [t_state EXCEPT ![new] = "ready"]
       /\ newthread' = [newthread EXCEPT ![c_curthread[c]] = new]
  /\ UNCHANGED <<queues, c_curthread, c_isidle, c_ipi, c_hardclocks, mode, mig>>

(* Its end, wherever the thread is by now: the new thread is queued on the  *)
(* processor it was created for.                                            *)
fork_queue(c) ==
  LET new == newthread[c_curthread[c]] IN
  /\ mode[c] = "run" /\ new # None
  /\ QueueFree(t_cpu[new])
  /\ thread_make_runnable(c, new)
  /\ newthread' = [newthread EXCEPT ![c_curthread[c]] = None]
  /\ UNCHANGED <<t_cpu, wc_threads, c_zombies, list, c_curthread, c_isidle, c_hardclocks, mode, mig>>

(* thread_switch up to the idle loop: lock the queue, put the current       *)
(* thread in its place.                                                     *)
thread_yield(c) ==
  /\ Decides(c) \/ mode[c] = "yield"
  /\ \/ /\ c_runqueue[c] = << >>
        /\ Goto(c, "run")
        /\ UNCHANGED <<t_state, c_runqueue, c_ipi, c_isidle>>
     \/ /\ c_runqueue[c] # << >>
        /\ thread_make_runnable(c, c_curthread[c])
        /\ c_isidle' = [c_isidle EXCEPT ![c] = TRUE]
        /\ Goto(c, "switch")
  /\ UNCHANGED <<newthread, t_cpu, wc_threads, c_zombies, list, c_curthread, c_hardclocks, mig>>

wchan_sleep(c) ==
  /\ Decides(c) /\ ChannelFree
  /\ wc_threads' = Append(wc_threads, c_curthread[c])
  /\ t_state' = [t_state EXCEPT ![c_curthread[c]] = "sleep"]
  /\ c_isidle' = [c_isidle EXCEPT ![c] = TRUE]
  /\ Goto(c, "switch")
  /\ UNCHANGED <<newthread, t_cpu, c_runqueue, c_zombies, list, c_curthread, c_ipi, c_hardclocks, mig>>

thread_exit(c) ==
  /\ Decides(c)
  /\ c_zombies' = [c_zombies EXCEPT ![c] = @ \cup {c_curthread[c]}]
  /\ t_state' = [t_state EXCEPT ![c_curthread[c]] = "zombie"]
  /\ c_isidle' = [c_isidle EXCEPT ![c] = TRUE]
  /\ Goto(c, "switch")
  /\ UNCHANGED <<newthread, t_cpu, c_runqueue, wc_threads, list, c_curthread, c_ipi, c_hardclocks, mig>>

(* The idle loop: the queue is empty, unlock it and wait for an interrupt.  *)
cpu_idle(c) ==
  /\ mode[c] \in {"switch", "relock"}
  /\ c_runqueue[c] = << >>
  /\ Goto(c, "wait")
  /\ UNCHANGED <<newthread, threads, queues, c_curthread, c_isidle, c_ipi, c_hardclocks, mig>>

(* The dead threads that exorcise destroys after a switch on processor c.   *)
ExorcisedMutant(c) == {z \in Threads : t_state[z] = "zombie"}

Exorcised(c) == c_zombies[c]

(* The end of thread_switch or thread_startup: take the next thread, leave  *)
(* the old stack, unlock, destroy the zombies of this processor.            *)
switchframe_switch(c) ==
  /\ mode[c] \in {"switch", "relock"}
  /\ c_runqueue[c] # << >>
  /\ LET next == Head(c_runqueue[c])
     IN  /\ c_curthread' = [c_curthread EXCEPT ![c] = next]
         /\ t_state' = [t \in Threads |-> CASE t = next          -> "run"
                                            [] t \in Exorcised(c) -> "none"
                                            [] OTHER              -> t_state[t]]
  /\ c_runqueue' = [c_runqueue EXCEPT ![c] = Tail(@)]
  /\ c_isidle' = [c_isidle EXCEPT ![c] = FALSE]
  /\ c_zombies' = [d \in Cpus |-> c_zombies[d] \ Exorcised(c)]
  /\ Goto(c, "run")
  /\ UNCHANGED <<newthread, t_cpu, wc_threads, list, c_ipi, c_hardclocks, mig>>

-----------------------------------------------------------------------------
(* The wait channel; the caller is the current thread or the handler of an  *)
(* interrupt, which may interrupt the idle loop.                            *)
wchan_wakeone(c) ==
  /\ Active(c) /\ ChannelFree
  /\ wc_threads # << >>
  /\ QueueFree(t_cpu[Head(wc_threads)])
  /\ thread_make_runnable(c, Head(wc_threads))
  /\ wc_threads' = Tail(wc_threads)
  /\ Goto(c, AfterInterrupt(c))
  /\ UNCHANGED <<newthread, t_cpu, c_zombies, list, c_curthread, c_isidle, c_hardclocks, mig>>

(* wchan_wakeall empties the channel into a local list, then makes the      *)
(* threads of the list runnable, one run queue lock after the other.        *)
wchan_wakeall(c) ==
  /\ Active(c) /\ ChannelFree
  /\ wc_threads # << >>
  /\ list' = [list EXCEPT ![c] = wc_threads]
  /\ wc_threads' = << >>
  /\ Goto(c, "wakeall")
  /\ UNCHANGED <<newthread, threads, c_runqueue, c_zombies, c_curthread, c_isidle, c_ipi, c_hardclocks, mig>>

wakeall_next(c) ==
  /\ mode[c] = "wakeall"
  /\ QueueFree(t_cpu[Head(list[c])])
  /\ thread_make_runnable(c, Head(list[c]))
  /\ list' = [list EXCEPT ![c] = Tail(@)]
  /\ Goto(c, IF Len(list[c]) = 1 THEN AfterInterrupt(c) ELSE "wakeall")
  /\ UNCHANGED <<newthread, t_cpu, wc_threads, c_zombies, c_curthread, c_isidle, c_hardclocks, mig>>

(* The interrupt itself ends cpu_idle; the handler only clears the bit.     *)
interprocessor_interrupt(c) ==
  /\ Active(c) /\ c_ipi[c]
  /\ c_ipi' = [c_ipi EXCEPT ![c] = FALSE]
  /\ Goto(c, AfterInterrupt(c))
  /\ UNCHANGED <<newthread, threads, queues, c_curthread, c_isidle, c_hardclocks, mig>>

-----------------------------------------------------------------------------
(* The timer interrupt.  Its thread_yield does nothing in the idle loop.    *)
hardclock(c) ==
  /\ Active(c)
  /\ LET n == (c_hardclocks[c] + 1) % MIGRATE_HARDCLOCKS
     IN  /\ c_hardclocks' = [c_hardclocks EXCEPT ![c] = n]
         /\ Goto(c, IF n = 0 THEN "count" ELSE IF c_isidle[c] THEN "relock" ELSE "yield")
  /\ UNCHANGED <<newthread, threads, queues, c_curthread, c_isidle, c_ipi, mig>>

AfterMigration(c) == IF c_isidle[c] THEN "relock" ELSE "yield"

DIVROUNDUP(a, b) == (a + b - 1) \div b

(* my_count after queue i has been counted with len threads in it.          *)
MyCountMutant(c, i, len) == mig[c].my + len

MyCount(c, i, len) == IF i = c THEN len ELSE mig[c].my

(* The early return of thread_consider_migration.                           *)
HasNoSurplusMutant(my, share) == my + 1 < share

HasNoSurplus(my, share) == my < share

(* thread_consider_migration counts the run queues, one lock at a time, and *)
(* decides how many threads to give away.                                   *)
migrate_count(c) ==
  /\ mode[c] = "count"
  /\ LET m     == mig[c]
         len   == Len(c_runqueue[m.i])
         my    == MyCount(c, m.i, len)
         total == m.total + len
         share == DIVROUNDUP(total, N)
     IN  /\ QueueFree(m.i)
         /\ \/ /\ m.i < N
               /\ mig' = [mig EXCEPT ![c] = [@ EXCEPT !.i = m.i + 1, !.my = my, !.total = total]]
               /\ UNCHANGED mode
            \/ /\ m.i = N /\ HasNoSurplus(my, share)
               /\ mig' = [mig EXCEPT ![c] = NoMigration]
               /\ Goto(c, AfterMigration(c))
            \/ /\ m.i = N /\ ~ HasNoSurplus(my, share)
               /\ mig' = [mig EXCEPT ![c] = [NoMigration EXCEPT !.share = share, !.send = my - share]]
               /\ Goto(c, "pick")
  /\ UNCHANGED <<newthread, threads, queues, c_curthread, c_isidle, c_ipi, c_hardclocks>>

(* The victims are the last to_send threads of the own queue.               *)
migrate_pick(c) ==
  /\ mode[c] = "pick"
  /\ LET q    == c_runqueue[c]
         keep == Len(q) - mig[c].send
     IN  /\ list' = [list EXCEPT ![c] = SubSeq(q, keep + 1, Len(q))]
         /\ c_runqueue' = [c_runqueue EXCEPT ![c] = SubSeq(q, 1, keep)]
  /\ Goto(c, "give")
  /\ UNCHANGED <<newthread, threads, wc_threads, c_zombies, c_curthread, c_isidle, c_ipi, c_hardclocks, mig>>

(* Whether processor c may give victim t away: not the thread on whose      *)
(* stack it idles.                                                          *)
MayMigrateMutant(c, t) == TRUE

MayMigrate(c, t) == t # c_curthread[c]

(* How many victims the loop over processor d takes off the list: until d   *)
(* has its share or to_send is used up; a skipped victim uses to_send too.  *)
Given(c, p) == SelectSeq(SubSeq(list[c], 1, p), LAMBDA t : MayMigrate(c, t))

Taken(c, d) ==
  CHOOSE p \in 0 .. mig[c].send :
    LET full(k) == Len(c_runqueue[d]) + Len(Given(c, k)) >= mig[c].share
    IN  /\ p = mig[c].send \/ full(p)
        /\ \A k \in 0 .. p - 1 : ~ full(k)

(* t->t_cpu = c for the threads sent to processor d.                        *)
MovedToMutant(d, sent) == t_cpu

MovedTo(d, sent) ==
  [t \in Threads |-> IF \E k \in DOMAIN sent : sent[k] = t THEN d ELSE t_cpu[t]]

migrate_give(c) ==
  /\ mode[c] = "give"
  /\ mig[c].send > 0 /\ mig[c].i <= N
  /\ \/ /\ mig[c].i = c
        /\ mig' = [mig EXCEPT ![c].i = @ + 1]
        /\ UNCHANGED <<t_cpu, c_runqueue, list, c_ipi>>
     \/ /\ mig[c].i # c /\ QueueFree(mig[c].i)
        /\ LET d    == mig[c].i
               p    == Taken(c, d)
               sent == Given(c, p)
               skip == SelectSeq(SubSeq(list[c], 1, p), LAMBDA t : ~ MayMigrate(c, t))
           IN  /\ t_cpu' = MovedTo(d, sent)
               /\ c_runqueue' = [c_runqueue EXCEPT ![d] = @ \o sent]
               /\ c_ipi' = [c_ipi EXCEPT ![d] = @ \/ (sent # << >> /\ c_isidle[d])]
               /\ list' = [list EXCEPT ![c] = SubSeq(@, p + 1, Len(@)) \o skip]
               /\ mig' = [mig EXCEPT ![c] = [@ EXCEPT !.i = d + 1, !.send = @ - p]]
  /\ UNCHANGED <<newthread, t_state, wc_threads, c_zombies, c_curthread, c_isidle, c_hardclocks, mode>>

(* Victims that found no place go back to the own queue.                    *)
ReturnedMutant(c) == SelectSeq(list[c], LAMBDA t : MayMigrate(c, t))

Returned(c) == list[c]

migrate_back(c) ==
  /\ mode[c] = "give"
  /\ mig[c].send = 0 \/ mig[c].i > N
  /\ c_runqueue' = [c_runqueue EXCEPT ![c] = @ \o Returned(c)]
  /\ list' = [list EXCEPT ![c] = << >>]
  /\ mig' = [mig EXCEPT ![c] = NoMigration]
  /\ Goto(c, AfterMigration(c))
  /\ UNCHANGED <<newthread, threads, wc_threads, c_zombies, c_curthread, c_isidle, c_ipi, c_hardclocks>>

-----------------------------------------------------------------------------
(* What the kernel does by itself, without a decision of a thread or a      *)
(* device.                                                                  *)
Kernel(c) ==
  \/ cpu_idle(c) \/ switchframe_switch(c) \/ wakeall_next(c) \/ interprocessor_interrupt(c)
  \/ (mode[c] = "yield" /\ thread_yield(c))
  \/ migrate_count(c) \/ migrate_pick(c) \/ migrate_give(c) \/ migrate_back(c)

Next ==
  \E c \in Cpus :
    \/ thread_fork(c) \/ fork_queue(c) \/ thread_yield(c) \/ wchan_sleep(c) \/ thread_exit(c)
    \/ wchan_wakeone(c) \/ wchan_wakeall(c)
    \/ hardclock(c)
    \/ Kernel(c)

(* Processors run, and the timer of each goes on interrupting: a timer      *)
(* interrupt that comes while interrupts are off stays pending and is taken *)
(* when they are on again, and a processor that spins on a run queue lock   *)
(* that is free again and again gets it; hence the strong fairness.  A      *)
(* thread that is run again and again gets to the end of its thread_fork:   *)
(* ticks are far apart.                                                     *)
Fairness ==
  \A c \in Cpus : SF_vars(Kernel(c)) /\ SF_vars(hardclock(c)) /\ SF_vars(fork_queue(c))

Spec == Init /\ [][Next]_vars /\ Fairness

-----------------------------------------------------------------------------
TypeOK ==
  /\ t_state \in [Threads -> {"none", "run", "ready", "sleep", "zombie"}]
  /\ t_cpu \in [Threads -> Cpus]
  /\ newthread \in [Threads -> Threads \cup {None}]
  /\ c_runqueue \in [Cpus -> Seq(Threads)]
  /\ c_curthread \in [Cpus -> Threads]
  /\ c_isidle \in [Cpus -> BOOLEAN]
  /\ c_zombies \in [Cpus -> SUBSET Threads]
  /\ c_ipi \in [Cpus -> BOOLEAN]
  /\ c_hardclocks \in [Cpus -> 0 .. MIGRATE_HARDCLOCKS - 1]
  /\ wc_threads \in Seq(Threads)
  /\ mode \in [Cpus -> Modes]
  /\ list \in [Cpus -> Seq(Threads)]
  /\ mig \in [Cpus -> [i : 1 .. N + 1, my : Nat, total : Nat, share : Nat, send : Nat]]

(* How often t is on the list s.                                            *)
Occurs(t, s) == Cardinality({k \in DOMAIN s : s[k] = t})

Running(t) == {c \in Cpus : c_curthread[c] = t /\ ~ c_isidle[c]}
OnQueue(t) == {c \in Cpus : Occurs(t, c_runqueue[c]) = 1}
Forked(t)  == {u \in Threads : newthread[u] = t}
OnList(t)  == {c \in Cpus : Occurs(t, list[c]) = 1}
Dead(t)    == {c \in Cpus : t \in c_zombies[c]}

Places(t) ==
  Cardinality(Running(t)) + Cardinality(OnQueue(t)) + Cardinality(OnList(t))
    + Cardinality(Dead(t)) + Cardinality(Forked(t)) + Occurs(t, wc_threads)

(* No thread is lost or duplicated: an allocated thread is running on one   *)
(* processor, or in the hands of the thread that forks it, or on one run    *)
(* queue, channel, zombie or local list, once; a destroyed one is nowhere.  *)
OnePlace ==
  \A t \in Threads :
    /\ Places(t) = IF t_state[t] = "none" THEN 0 ELSE 1
    /\ \A c \in Cpus : Occurs(t, c_runqueue[c]) <= 1 /\ Occurs(t, list[c]) <= 1

(* No stack is used twice: a thread that left its processor idling on its   *)
(* stack is not run by another one, whatever wakeups and migrations happen  *)
(* meanwhile, and is not destroyed (the assertions of exorcise and          *)
(* thread_destroy).                                                         *)
OneStack ==
  \A c \in Cpus :
    /\ \A d \in Cpus : c_curthread[c] = c_curthread[d] => c = d
    /\ t_state[c_curthread[c]] # "none"
    /\ t_state[c_curthread[c]] = "run" <=> ~ c_isidle[c]

(* A thread is queued where its t_cpu says: thread_make_runnable locks the  *)
(* queue that it changes, and thread_switch asserts it of curthread.        *)
HomeQueue ==
  \A c \in Cpus :
    /\ t_cpu[c_curthread[c]] = c
    /\ \A k \in DOMAIN c_runqueue[c] : t_cpu[c_runqueue[c][k]] = c

(* No processor sleeps over work: one that waits in cpu_idle with threads   *)
(* on its queue has an interrupt coming.                                    *)
NoSleepOverWork == \A c \in Cpus : mode[c] = "wait" /\ c_runqueue[c] # << >> => c_ipi[c]

(* The counts of thread_consider_migration stay good while other processors *)
(* change their queues: the own queue still has the victims it was counted  *)
(* to have, and the list never runs out before to_send does.                *)
MigrationCounts ==
  \A c \in Cpus :
    /\ mode[c] = "pick" => mig[c].send <= Len(c_runqueue[c])
    /\ mode[c] = "give" => mig[c].send <= Len(list[c])

(* Every ready thread runs in the end, one that is still being forked       *)
(* included: round robin reaches it, and migration, which takes threads     *)
(* from the end of a queue and puts them at the end of another, does not    *)
(* pass one around for ever.                                                *)
ReadyRuns == \A t \in Threads : t_state[t] = "ready" ~> t_state[t] = "run"

=============================================================================
