--------------------------------- MODULE VM ----------------------------------
(***************************************************************************)
(* The demand-paging virtual memory of the PROJECTC1 kernel: vm_fault and  *)
(* the address spaces (kern/vm/addrspace.c), the inverted page table       *)
(* (kern/vm/pt.c), the swap file (kern/vm/swapfile.c) and the TLB          *)
(* (kern/vm/vm_tlb.c).                                                     *)
(*                                                                         *)
(* A process has one thread.  vm_fault runs with interrupts on and takes   *)
(* one spinlock after the other, so a thread can lose its processor, or    *)
(* another processor can come in, between any two of its steps; a step is  *)
(* what it does under one lock.  Frames come from getppages and are never  *)
(* the same for two callers (module Coremap).                              *)
(***************************************************************************)
EXTENDS Integers, Sequences, FiniteSets, FiniteSetsExt

CONSTANTS
  Cpus, Procs,
  None, Halted,
  PAGE_SIZE,
  Frames,               (* indices of the page table                       *)
  UserFrames,           (* the frames getppages has left                   *)
  Segments,             (* pages of the code and data segments             *)
  Stack,                (* pages of the stack                              *)
  Pages,                (* pages a program touches, its own and others     *)
  MAX_ALLOCATED_PAGES,
  NUM_TLB,
  PidValues,            (* what the pid field of a new proc can hold       *)
  MaxPosition           (* bound: clock ticks counted in position_fifo     *)

ASSUME VMAssumption ==
  /\ Cpus # {} /\ None \notin Procs /\ Halted \notin Procs /\ None # Halted
  /\ PAGE_SIZE \in Nat \ {0}
  /\ 0 \in Frames /\ Frames \subseteq Nat /\ UserFrames \subseteq Frames \ {0}
  /\ Segments \cup Stack \subseteq Pages /\ Pages \subseteq Nat \ {0}
  /\ MAX_ALLOCATED_PAGES \in Nat /\ NUM_TLB \in Nat \ {0}
  /\ PidValues \subseteq Int /\ MaxPosition \in Nat

VARIABLES
  running,          (* cpu -> process, None (the kernel) or Halted (panic)  *)
  pid,              (* process -> its pid field, which no code assigns      *)
  as,               (* process -> none, empty (as_create) or loaded (ELF)   *)
  allocated_pages,
  pc, fault, frame, (* process -> place in vm_fault, faultaddress, paddr    *)
  page_table,       (* frame -> entry                                       *)
  track,            (* the valid entries of the swap file                   *)
  tlb, bitmap, next_victim,
  free,             (* frames getppages can return                          *)
  given,            (* history: frame -> process and page it was given to   *)
  order             (* history: cpu -> slots of its TLB, oldest write first *)

proc == <<pid, as, allocated_pages, pc, fault, frame>>
memory == <<page_table, track, free, given>>
translation == <<tlb, bitmap, next_victim, order>>
vars == <<running, proc, memory, translation>>

-----------------------------------------------------------------------------
Slots == 0 .. NUM_TLB - 1

NoEntry == [pid |-> -1, vaddr |-> 0, position_fifo |-> 0]

(* TLBHI_INVALID: a page no program can touch, and address space 0.         *)
Invalid == [page |-> 0, pid |-> 0, frame |-> 0]

Init ==
  /\ running = [c \in Cpus |-> None]
  /\ pid = [p \in Procs |-> 0]
  /\ as = [p \in Procs |-> "none"]
  /\ allocated_pages = [p \in Procs |-> 0]
  /\ pc = [p \in Procs |-> "none"]
  /\ fault = [p \in Procs |-> 0]
  /\ frame = [p \in Procs |-> 0]
  /\ page_table = [i \in Frames |-> NoEntry]
  /\ track = {}
  /\ tlb = [c \in Cpus |-> [s \in Slots |-> Invalid]]
  /\ bitmap = [s \in Slots |-> 0]
  /\ next_victim = 0
  /\ free = UserFrames
  /\ given = [f \in UserFrames |-> None]
  /\ order = [c \in Cpus |-> << >>]

Goto(p, l) == pc' = [pc EXCEPT ![p] = l]

(* vm_fault is over for p and its local variables are gone.                 *)
Return(p, l) ==
  /\ Goto(p, l)
  /\ fault' = [fault EXCEPT ![p] = 0]
  /\ frame' = [frame EXCEPT ![p] = 0]

(* The process running on c stops with its processor in panic(); the other  *)
(* processors go on until the IPI_PANIC of thread_panic reaches them.       *)
Panic(c) ==
  /\ Return(running[c], "panic")
  /\ running' = [running EXCEPT ![c] = Halted]

-----------------------------------------------------------------------------

ActivatePanics(c, asp, pidp) == asp # "none" /\ \E s \in Slots : tlb[c][s].pid # pidp

Dispatch(c, p, panics) ==
  /\ running' = [running EXCEPT ![c] = IF panics THEN Halted ELSE p]
  /\ Goto(p, IF panics THEN "panic" ELSE IF pc[p] = "none" THEN "user" ELSE pc[p])

(* A new process enters runprogram: as_create, as_activate, load_elf with   *)
(* as_define_region for two segments.                                       *)
runprogram(c) ==
  /\ running[c] = None
  /\ \E p \in Procs, v \in PidValues :
       /\ pc[p] = "none"
       /\ pid' = [pid EXCEPT ![p] = v]
       /\ as' = [as EXCEPT ![p] = "loaded"]
       /\ allocated_pages' = [allocated_pages EXCEPT ![p] = 0]
       /\ Dispatch(c, p, ActivatePanics(c, "loaded", v))
  /\ UNCHANGED <<fault, frame, memory, translation>>

(* sys_fork: as_copy gives the child an address space without regions; the  *)
(* child goes on where its parent is, once it gets a processor.             *)
sys_fork(c) ==
  /\ running[c] \in Procs /\ pc[running[c]] = "user"
  /\ \E q \in Procs, v \in PidValues :
       /\ pc[q] = "none"
       /\ pid' = [pid EXCEPT ![q] = v]
       /\ as' = [as EXCEPT ![q] = "empty"]
       /\ allocated_pages' = [allocated_pages EXCEPT ![q] = 0]
       /\ Goto(q, "user")
  /\ UNCHANGED <<running, fault, frame, memory, translation>>

thread_switch(c) ==
  /\ running[c] # Halted
  /\ \/ /\ running' = [running EXCEPT ![c] = None]
        /\ UNCHANGED pc
     \/ \E p \in Procs :
          /\ pc[p] \notin {"none", "exited", "panic"}
          /\ \A d \in Cpus : running[d] # p
          /\ Dispatch(c, p, ActivatePanics(c, as[p], pid[p]))
  /\ UNCHANGED <<pid, as, allocated_pages, fault, frame, memory, translation>>

-----------------------------------------------------------------------------
Translates(c, v) == \E s \in Slots : tlb[c][s].page = v

(* A TLB miss.  vm_fault asserts that the address space has its regions;    *)
(* entries are always writable, so VM_FAULT_READONLY does not happen.       *)
vm_fault(c) ==
  /\ running[c] \in Procs /\ pc[running[c]] = "user"
  /\ \E v \in Pages :
       /\ ~ Translates(c, v)
       /\ \/ /\ as[running[c]] = "loaded"
             /\ fault' = [fault EXCEPT ![running[c]] = v]
             /\ Goto(running[c], "lookup")
             /\ UNCHANGED <<running, frame>>
          \/ as[running[c]] = "empty" /\ Panic(c)
  /\ UNCHANGED <<pid, as, allocated_pages, memory, translation>>

(* page_table_get_paddr_entry: the last entry that matches.                 *)
Matching(p) ==
  {i \in Frames : page_table[i].pid = pid[p] /\ page_table[i].vaddr = fault[p] * PAGE_SIZE}

lookup(c) ==
  LET p == running[c] IN
  /\ p \in Procs /\ pc[p] = "lookup"
  /\ IF Matching(p) # {}
     THEN frame' = [frame EXCEPT ![p] = Max(Matching(p))] /\ Goto(p, "tlb")
     ELSE Goto(p, "swap_in") /\ UNCHANGED frame
  /\ UNCHANGED <<running, pid, as, allocated_pages, fault, memory, translation>>

(* swap_in: VOP_READ sleeps for the device while slock is held, which       *)
(* wchan_sleep asserts against.                                             *)
swap_in(c) ==
  LET p == running[c] IN
  /\ p \in Procs /\ pc[p] = "swap_in"
  /\ IF [pid |-> pid[p], page |-> fault[p]] \in track
     THEN Panic(c)
     ELSE Goto(p, "load") /\ UNCHANGED <<running, fault, frame>>
  /\ UNCHANGED <<pid, as, allocated_pages, memory, translation>>

(* page_table_replacement: the entries it can take.                         *)
Victims(p) == {i \in Frames : page_table[i].position_fifo = 0 /\ page_table[i].pid = pid[p]}

AtLimitMutant(p) == allocated_pages[p] > MAX_ALLOCATED_PAGES \/ free = {}

AtLimit(p) == allocated_pages[p] >= MAX_ALLOCATED_PAGES \/ free = {}

CountPageMutant(p) == allocated_pages' = allocated_pages

CountPage(p) == allocated_pages' = [allocated_pages EXCEPT ![p] = @ + 1]

(* getppages(1): the first frame that was freed or, those being below it,   *)
(* the next one of ram_stealmem.                                            *)
getppages == Min(free)

(* A frame for the page.  The count is the process's own and getppages acts *)
(* at one point, so testing, taking and counting are one step.  The bytes   *)
(* of frames are not modelled: the frame is cleared and, in a segment,      *)
(* read_elf_page may fill it or may fail, which vm_fault ignores (its tests *)
(* of result are empty), so both outcomes are this step.                    *)
load(c) ==
  LET p == running[c] IN
  /\ p \in Procs /\ pc[p] = "load"
  /\ fault[p] \in Segments \cup Stack
  /\ ~ AtLimit(p)
  /\ free' = free \ {getppages}
  /\ frame' = [frame EXCEPT ![p] = getppages]
  /\ given' = [given EXCEPT ![getppages] = [proc |-> p, page |-> fault[p]]]
  /\ CountPage(p)
  /\ Goto(p, "add")
  /\ UNCHANGED <<running, pid, as, fault, page_table, track, translation>>

(* No frame: swap_out of a page of the process, whose VOP_WRITE sleeps with *)
(* slock held before it fills an entry of track; or, without a page to      *)
(* replace, vm_fault returns 0 and the program repeats the access.          *)
load_replace(c) ==
  LET p == running[c] IN
  /\ p \in Procs /\ pc[p] = "load"
  /\ fault[p] \in Segments \cup Stack
  /\ AtLimit(p)
  /\ IF Victims(p) # {} THEN Panic(c) ELSE Return(p, "user") /\ UNCHANGED running
  /\ UNCHANGED <<pid, as, allocated_pages, memory, translation>>

(* EFAULT: kill_curthread panics.                                           *)
load_outside(c) ==
  /\ running[c] \in Procs /\ pc[running[c]] = "load"
  /\ fault[running[c]] \notin Segments \cup Stack
  /\ Panic(c)
  /\ UNCHANGED <<pid, as, allocated_pages, memory, translation>>

(* The table once an entry is added; asserted: the frame is in the table.   *)
page_table_add_entry(pidArg, vaddrArg, paddrArg) ==
  LET same == {page_table[i].position_fifo : i \in {j \in Frames : page_table[j].pid = pidArg}}
  IN  [page_table EXCEPT ![paddrArg \div PAGE_SIZE] =
         [pid |-> pidArg, vaddr |-> vaddrArg, position_fifo |-> Max({-1} \cup same) + 1]]

(* vm_fault passes faultaddress, paddr, pid where page_table_add_entry      *)
(* takes pid, vaddr, paddr.                                                 *)
add(c) ==
  LET p == running[c] IN
  /\ p \in Procs /\ pc[p] = "add"
  /\ IF pid[p] \div PAGE_SIZE \in Frames
     THEN /\ page_table' = page_table_add_entry(fault[p] * PAGE_SIZE, frame[p] * PAGE_SIZE, pid[p])
          /\ Goto(p, "tlb")
          /\ UNCHANGED <<running, fault, frame>>
     ELSE Panic(c) /\ UNCHANGED page_table
  /\ UNCHANGED <<pid, as, allocated_pages, track, free, given, translation>>

FreeSlots == {s \in Slots : bitmap[s] = 0}

tlb_get_rr_victimMutant == (next_victim + 2) % NUM_TLB

tlb_get_rr_victim == (next_victim + 1) % NUM_TLB

write_entry(s) == bitmap' = [bitmap EXCEPT ![s] = 1]

(* The entry vm_fault writes: ehi and elo.                                  *)
NewEntryMutant(p) == [page |-> frame[p], pid |-> pid[p], frame |-> fault[p]]

NewEntry(p) == [page |-> fault[p], pid |-> pid[p], frame |-> frame[p]]

(* add_entry, for the processor it runs on; the bitmap is everybody's.      *)
add_entry(c) ==
  LET p == running[c]
      s == IF FreeSlots # {} THEN Min(FreeSlots) ELSE next_victim
  IN  /\ p \in Procs /\ pc[p] = "tlb"
      /\ next_victim' = IF FreeSlots # {} THEN next_victim ELSE tlb_get_rr_victim
      /\ write_entry(s)
      /\ tlb' = [tlb EXCEPT ![c][s] = NewEntry(p)]
      /\ order' = [order EXCEPT ![c] = Append(SelectSeq(@, LAMBDA o : o # s), s)]
      /\ Return(p, "user")
      /\ UNCHANGED <<running, pid, as, allocated_pages, memory>>

-----------------------------------------------------------------------------
(* The clock interrupt.                                                     *)
lru_update_cnt ==
  /\ \A i \in Frames : page_table[i].position_fifo < MaxPosition
  /\ page_table' = [i \in Frames |->
       IF page_table[i].pid # -1 THEN [page_table[i] EXCEPT !.position_fifo = @ + 1]
       ELSE page_table[i]]
  /\ UNCHANGED <<running, proc, track, free, given, translation>>

(* sys__exit: the process is over for its parent, the processor panics (see *)
(* module Process).                                                         *)
sys__exit(c) ==
  /\ running[c] \in Procs /\ pc[running[c]] = "user"
  /\ Goto(running[c], "exited")
  /\ running' = [running EXCEPT ![c] = Halted]
  /\ UNCHANGED <<pid, as, allocated_pages, fault, frame, memory, translation>>

(* as_destroy, called by the parent in waitpid with its own pid:            *)
(* page_table_remove_on_pids holds the spinlock page_table_reset_entry      *)
(* takes, swap_remove_pid follows.                                          *)
as_destroy(c) ==
  LET p == running[c] IN
  /\ p \in Procs /\ pc[p] = "user"
  /\ \E q \in Procs :
       /\ pc[q] = "exited"
       /\ IF pid[p] < 0 \/ \E i \in Frames : page_table[i].pid = pid[p]
          THEN Panic(c) /\ UNCHANGED <<as, track, given>>
          ELSE /\ track' = {e \in track : e.pid # pid[p]}
               /\ as' = [as EXCEPT ![q] = "none"]
               /\ Goto(q, "none")
               /\ given' = [f \in UserFrames |->
                    IF given[f] # None /\ given[f].proc = q THEN None ELSE given[f]]
               /\ UNCHANGED <<running, fault, frame>>
  /\ UNCHANGED <<pid, allocated_pages, page_table, free, translation>>

Next ==
  \/ lru_update_cnt
  \/ \E c \in Cpus :
       \/ runprogram(c) \/ sys_fork(c) \/ thread_switch(c) \/ sys__exit(c) \/ as_destroy(c)
       \/ vm_fault(c) \/ lookup(c) \/ swap_in(c)
       \/ load(c) \/ load_replace(c) \/ load_outside(c) \/ add(c) \/ add_entry(c)

Spec == Init /\ [][Next]_vars

-----------------------------------------------------------------------------
TypeOK ==
  /\ running \in [Cpus -> Procs \cup {None, Halted}]
  /\ pid \in [Procs -> PidValues \cup {0}]
  /\ as \in [Procs -> {"none", "empty", "loaded"}]
  /\ allocated_pages \in [Procs -> 0 .. MAX_ALLOCATED_PAGES]
  /\ pc \in [Procs -> {"none", "user", "lookup", "swap_in", "load", "add", "tlb", "exited", "panic"}]
  /\ fault \in [Procs -> Pages \cup {0}]
  /\ frame \in [Procs -> Frames]
  /\ page_table \in [Frames -> [pid : Int, vaddr : Nat, position_fifo : Nat]]
  /\ track \subseteq [pid : Int, page : Pages]
  /\ tlb \in [Cpus -> [Slots -> [page : Pages \cup {0}, pid : PidValues \cup {0}, frame : Frames]]]
  /\ bitmap \in [Slots -> {0, 1}]
  /\ next_victim \in Slots
  /\ free \subseteq UserFrames
  /\ given \in [UserFrames -> {None} \cup [proc : Procs, page : Pages]]
  /\ order \in [Cpus -> Seq(Slots)]

FramesOf(p) == {f \in UserFrames : given[f] # None /\ given[f].proc = p}

(* "I limit every process to have a maximum number of pages": the count is  *)
(* the number of frames the process was given, and stays within the limit,  *)
(* over fork, exit and the reuse of a process, while others take frames.    *)
PageBudget ==
  \A p \in Procs : as[p] # "none" =>
    allocated_pages[p] = Cardinality(FramesOf(p)) /\ allocated_pages[p] <= MAX_ALLOCATED_PAGES

(* Round robin replaces the translation written longest ago, although it    *)
(* starts at slot 0 whenever the slots happen to fill up: on a processor    *)
(* that is the only one to have served faults.  Bitmap and next_victim are  *)
(* shared, so with a second one nothing of the kind holds of either TLB.    *)
OldestReplaced ==
  \A c \in Cpus :
    FreeSlots = {} /\ (\A d \in Cpus \ {c} : order[d] = << >>) => next_victim = Head(order[c])


(* The frame vm_fault puts in the TLB is one that this process was given,   *)
(* for the page the program asked for: never a frame of another page or     *)
(* process, though the thread may lose its processor and others take frames *)
(* and fill TLBs between getppages and add_entry.                           *)
OwnFrame ==
  [][\A c \in Cpus, s \in Slots : tlb'[c][s] # tlb[c][s] =>
       /\ tlb'[c][s].page = fault[running[c]]
       /\ given[tlb'[c][s].frame] = [proc |-> running[c], page |-> fault[running[c]]]]_vars

(* "the goal of this function is to find the related paddr of vaddr and     *)
(* write it into the tlb": the program goes on after vm_fault with a        *)
(* translation of the page it asked for.                                    *)
FaultServed ==
  [][\A p \in Procs : pc[p] \notin {"none", "user"} /\ pc'[p] = "user" =>
       \E c \in Cpus, s \in Slots : running[c] = p /\ tlb'[c][s].page = fault[p]]_vars

(* "never write more than one TLB entry with the same virtual page field".  *)
NoDuplicateEntries ==
  \A c \in Cpus : \A s, u \in Slots :
    tlb[c][s] # Invalid /\ tlb[c][s].page = tlb[c][u].page => s = u

(* "number of TLB misses for pages that were already in memory": a miss on  *)
(* a page that is in memory is a reload of its frame.                       *)
MissReloads ==
  [][\A p \in Procs :
       pc[p] = "lookup" /\ pc'[p] # "lookup" /\ (\E f \in FramesOf(p) : given[f].page = fault[p])
         => pc'[p] = "tlb" /\ given[frame'[p]] = [proc |-> p, page |-> fault[p]]]_vars

=============================================================================
