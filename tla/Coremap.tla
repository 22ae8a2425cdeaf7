------------------------------- MODULE Coremap -------------------------------
(***************************************************************************)
(* The physical-frame allocator of the kernel (kern/vm/coremap.c), with    *)
(* the boot-time allocator it falls back on (ram_stealmem in               *)
(* kern/arch/mips/vm/ram.c).                                               *)
(*                                                                         *)
(* Threads on several processors allocate and free runs of frames.  The    *)
(* code protects freeRamFrames and allocSize with freemem_lock and         *)
(* firstpaddr with stealmem_lock, but an operation is several critical     *)
(* sections: getppages searches, then steals, then records the size;       *)
(* freeppages reads the size before it takes the lock.  A critical section *)
(* is one action here; pc says where a thread is between two of them.      *)
(***************************************************************************)
EXTENDS Integers

CONSTANTS
  Threads,      (* kernel threads that allocate and free frames           *)
  Boot,         (* the thread that boots the kernel                       *)
  nRamFrames,   (* frames of physical memory                              *)
  FirstFrame,   (* first frame after the kernel image (start.S)           *)
  TableFrames,  (* frames the two tables of coremap_bootstrap take        *)
  Sizes         (* lengths of the runs that are asked for                 *)

ASSUME CoremapAssumption ==
  /\ Boot \in Threads
  /\ nRamFrames \in Nat
  /\ FirstFrame \in 1 .. nRamFrames
  /\ TableFrames \in Nat
  /\ Sizes \subseteq Nat \ {0}

VARIABLES
  freeRamFrames,    (* frame -> it has been freed and can be handed out    *)
  allocSize,        (* frame -> length of the run that starts there        *)
  allocTableActive, (* coremap_bootstrap has run                           *)
  firstpaddr,       (* first frame ram_stealmem has not handed out         *)
  pc,               (* thread -> the critical section it enters next       *)
  run,              (* thread -> the run its operation in progress is on   *)
  held,             (* the runs callers hold: returned by getppages and    *)
                    (* not yet passed to freeppages (by whatever thread)   *)
  bootEnd           (* history: end of the frames handed out before the    *)
                    (* table became active                                 *)

vars == <<freeRamFrames, allocSize, allocTableActive, firstpaddr,
          pc, run, held, bootEnd>>

-----------------------------------------------------------------------------
Frames == 0 .. nRamFrames - 1

(* A run is np frames from frame first on.                                  *)
Run == [first : Frames, np : Nat]

InRun(f, r) == r.first <= f /\ f < r.first + r.np

Disjoint(r, s) == ~ \E f \in Frames : InRun(f, r) /\ InRun(f, s)

(* Frame 0 stands for the address 0 getppages returns for "no memory".      *)
NoRun == [first |-> 0, np |-> 0]

(* The other threads start once the boot thread is past vm_bootstrap.       *)
CanRun(t) == t = Boot \/ allocTableActive

Init ==
  /\ freeRamFrames = [f \in Frames |-> FALSE]
  /\ allocSize = [f \in Frames |-> 0]
  /\ allocTableActive = FALSE
  /\ firstpaddr = FirstFrame
  /\ pc = [t \in Threads |-> "idle"]
  /\ run = [t \in Threads |-> NoRun]
  /\ held = {}
  /\ bootEnd = FirstFrame

-----------------------------------------------------------------------------
(* coremap_bootstrap allocates its two tables with kmalloc, while the table *)
(* is inactive, so with ram_stealmem; nothing gives these frames back.      *)
coremap_bootstrap ==
  /\ ~ allocTableActive
  /\ pc[Boot] = "idle"
  /\ firstpaddr + TableFrames <= nRamFrames
  /\ firstpaddr' = firstpaddr + TableFrames
  /\ bootEnd' = firstpaddr'
  /\ allocTableActive' = TRUE
  /\ UNCHANGED <<freeRamFrames, allocSize, pc, run, held>>

(* Its other outcome: the tables do not fit and the kernel panics.          *)
coremap_panic ==
  /\ ~ allocTableActive
  /\ pc[Boot] = "idle"
  /\ firstpaddr + TableFrames > nRamFrames
  /\ pc' = [pc EXCEPT ![Boot] = "panic"]
  /\ UNCHANGED <<freeRamFrames, allocSize, allocTableActive, firstpaddr,
                 run, held, bootEnd>>

(* A run of np freed frames starts at frame f ...                           *)
FitsAt(free, f, np) ==
  /\ f + np <= nRamFrames
  /\ \A g \in Frames : f <= g /\ g < f + np => free[g]

(* ... and no other one starts lower: what the search loop finds (module    *)
(* CoremapSearch has the loop itself and implements this one).              *)
FirstFit(free, f, np) ==
  /\ FitsAt(free, f, np)
  /\ \A g \in Frames : FitsAt(free, g, np) => f <= g

(* The table once run r is taken out of it, and once r is put back.         *)
TakeRunMutant(free, r) == [free EXCEPT ![r.first] = FALSE]

TakeRun(free, r) == [f \in Frames |-> free[f] /\ ~ InRun(f, r)]

PutRun(free, r) == [f \in Frames |-> free[f] \/ InRun(f, r)]

(* The lengths once run r is recorded.                                      *)
RecordRunMutant(size, r) == [size EXCEPT ![r.first] = r.np - 1]

RecordRun(size, r) == [size EXCEPT ![r.first] = r.np]

(* ram_stealmem has np frames left.                                         *)
StealFitsMutant(np) == firstpaddr <= nRamFrames

StealFits(np) == firstpaddr + np <= nRamFrames

(* The run freeppages will mark, from the length it reads at frame f.       *)
RecordedRunMutant(f) == [first |-> f, np |-> 1]

RecordedRun(f) == [first |-> f, np |-> allocSize[f]]

(* getppages, its first critical section: getfreeppages finds a run ...     *)
getfreeppages(t, np) ==
  /\ CanRun(t) /\ pc[t] = "idle"
  /\ allocTableActive
  /\ \E found \in Frames :
       LET r == [first |-> found, np |-> np] IN
       /\ FirstFit(freeRamFrames, found, np)
       /\ freeRamFrames' = TakeRun(freeRamFrames, r)
       /\ allocSize' = RecordRun(allocSize, r)
       /\ run' = [run EXCEPT ![t] = r]
  /\ pc' = [pc EXCEPT ![t] = "record"]
  /\ UNCHANGED <<allocTableActive, firstpaddr, held, bootEnd>>

(* ... or returns 0.                                                        *)
getfreeppages_none(t, np) ==
  /\ CanRun(t) /\ pc[t] = "idle"
  /\ allocTableActive => \A f \in Frames : ~ FitsAt(freeRamFrames, f, np)
  /\ run' = [run EXCEPT ![t] = [first |-> 0, np |-> np]]
  /\ pc' = [pc EXCEPT ![t] = "steal"]
  /\ UNCHANGED <<freeRamFrames, allocSize, allocTableActive, firstpaddr,
                 held, bootEnd>>

(* Its second one: ram_stealmem takes np frames that were never used; while *)
(* the table is inactive getppages then returns without recording them.     *)
ram_stealmem(t) ==
  LET r == [first |-> firstpaddr, np |-> run[t].np] IN
  /\ pc[t] = "steal"
  /\ StealFits(run[t].np)
  /\ firstpaddr' = firstpaddr + run[t].np
  /\ \/ /\ allocTableActive
        /\ run' = [run EXCEPT ![t] = r]
        /\ pc' = [pc EXCEPT ![t] = "record"]
        /\ UNCHANGED <<held, bootEnd>>
     \/ /\ ~ allocTableActive
        /\ run' = [run EXCEPT ![t] = NoRun]
        /\ pc' = [pc EXCEPT ![t] = "idle"]
        /\ held' = held \cup {r}
        /\ bootEnd' = firstpaddr'
  /\ UNCHANGED <<freeRamFrames, allocSize, allocTableActive>>

(* No frame left either: getppages returns 0.                               *)
ram_stealmem_none(t) ==
  /\ pc[t] = "steal"
  /\ ~ StealFits(run[t].np)
  /\ run' = [run EXCEPT ![t] = NoRun]
  /\ pc' = [pc EXCEPT ![t] = "idle"]
  /\ UNCHANGED <<freeRamFrames, allocSize, allocTableActive, firstpaddr,
                 held, bootEnd>>

(* Its last one: the length is recorded (again, after getfreeppages), and   *)
(* the caller has the run.                                                  *)
getppages(t) ==
  /\ pc[t] = "record"
  /\ allocSize' = RecordRun(allocSize, run[t])
  /\ held' = held \cup {run[t]}
  /\ run' = [run EXCEPT ![t] = NoRun]
  /\ pc' = [pc EXCEPT ![t] = "idle"]
  /\ UNCHANGED <<freeRamFrames, allocTableActive, firstpaddr, bootEnd>>

(* freeppages: nothing happens while the table is inactive.  Otherwise the  *)
(* length is read without the lock ...                                      *)
freeppages(t, r) ==
  /\ CanRun(t) /\ pc[t] = "idle"
  /\ held' = held \ {r}
  /\ \/ /\ ~ allocTableActive
        /\ UNCHANGED <<pc, run>>
     \/ /\ allocTableActive
        /\ run' = [run EXCEPT ![t] = RecordedRun(r.first)]
        /\ pc' = [pc EXCEPT ![t] = "free"]
  /\ UNCHANGED <<freeRamFrames, allocSize, allocTableActive, firstpaddr, bootEnd>>

(* ... and the frames are marked free under it.                             *)
freeppages_mark(t) ==
  /\ pc[t] = "free"
  /\ freeRamFrames' = PutRun(freeRamFrames, run[t])
  /\ run' = [run EXCEPT ![t] = NoRun]
  /\ pc' = [pc EXCEPT ![t] = "idle"]
  /\ UNCHANGED <<allocSize, allocTableActive, firstpaddr, held, bootEnd>>

Step(t) ==
  \/ \E np \in Sizes : getfreeppages(t, np) \/ getfreeppages_none(t, np)
  \/ ram_stealmem(t) \/ ram_stealmem_none(t) \/ getppages(t)
  \/ \E r \in held : freeppages(t, r)
  \/ freeppages_mark(t)

Next == coremap_bootstrap \/ coremap_panic \/ \E t \in Threads : Step(t)

Spec == Init /\ [][Next]_vars

-----------------------------------------------------------------------------
TypeOK ==
  /\ freeRamFrames \in [Frames -> BOOLEAN]
  /\ allocSize \in [Frames -> Nat]
  /\ allocTableActive \in BOOLEAN
  /\ firstpaddr \in FirstFrame .. nRamFrames
  /\ pc \in [Threads -> {"idle", "steal", "record", "free", "panic"}]
  /\ run \in [Threads -> Run]
  /\ held \in SUBSET Run
  /\ bootEnd \in FirstFrame .. firstpaddr

(* Threads whose operation in progress owns frames: they have been taken    *)
(* off the table and not returned yet, or not marked free yet.              *)
Owning(t) == pc[t] \in {"record", "free"}

(* No frame is in two hands: the runs that callers hold and the runs that   *)
(* getppages and freeppages are still working on are pairwise disjoint,     *)
(* whatever the interleaving of their critical sections.                    *)
Exclusive ==
  /\ \A r, s \in held : r # s => Disjoint(r, s)
  /\ \A t \in Threads : Owning(t) => \A r \in held : Disjoint(run[t], r)
  /\ \A t, u \in Threads :
       t # u /\ Owning(t) /\ Owning(u) => Disjoint(run[t], run[u])

(* A frame marked free in the table belongs to no one, was handed out once  *)
(* by ram_stealmem, and is neither part of the kernel image (frame 0 with   *)
(* the exception handlers included) nor of what was allocated during boot.  *)
FreeUnowned ==
  \A f \in Frames : freeRamFrames[f] =>
    /\ bootEnd <= f /\ f < firstpaddr
    /\ \A r \in held : ~ InRun(f, r)
    /\ \A t \in Threads : Owning(t) => ~ InRun(f, run[t])

(* Nothing allocated after boot leaks: a frame that ram_stealmem has handed *)
(* out since then is free in the table, held by a caller, or in the hands   *)
(* of an operation in progress.  In particular freeppages, which reads the  *)
(* length before it takes the lock, frees all of the run.                   *)
NoLeak ==
  \A f \in bootEnd .. firstpaddr - 1 :
    \/ freeRamFrames[f]
    \/ \E r \in held : InRun(f, r)
    \/ \E t \in Threads : Owning(t) /\ InRun(f, run[t])

(* The table of lengths agrees with what callers hold, also across the      *)
(* bootstrap: 0 for what was allocated before it.                           *)
SizeRecorded ==
  \A r \in held :
    allocSize[r.first] = IF allocTableActive /\ r.first >= bootEnd THEN r.np ELSE 0

(* What makes these inductive: where the runs lie ...                       *)
Handed(r) ==
  /\ r.np > 0
  /\ FirstFrame <= r.first
  /\ r.first + r.np <= (IF r.first < bootEnd THEN bootEnd ELSE firstpaddr)

RunsPlaced ==
  /\ \A r \in held : Handed(r)
  /\ \A t \in Threads :
       /\ pc[t] = "steal" => run[t].np > 0
       /\ pc[t] = "record" => Handed(run[t]) /\ run[t].first >= bootEnd
       /\ pc[t] = "free" => \/ Handed(run[t]) /\ run[t].first >= bootEnd
                            \/ run[t].np = 0

(* ... and what cannot have happened during boot.                           *)
BootSequential ==
  /\ \A f \in Frames : f < bootEnd => allocSize[f] = 0
  /\ ~ allocTableActive =>
       /\ bootEnd = firstpaddr
       /\ \A f \in Frames : allocSize[f] = 0
       /\ \A t \in Threads : ~ Owning(t)

IInv ==
  /\ TypeOK
  /\ Exclusive
  /\ FreeUnowned
  /\ NoLeak
  /\ SizeRecorded
  /\ RunsPlaced
  /\ BootSequential

=============================================================================
