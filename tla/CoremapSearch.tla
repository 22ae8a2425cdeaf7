---------------------------- MODULE CoremapSearch ----------------------------
(***************************************************************************)
(* The frame allocator of module Coremap with the search loop of           *)
(* getfreeppages (kern/vm/coremap.c) step by step.  The loop looks at one  *)
(* frame after the other while freemem_lock is held and keeps only the     *)
(* start of the interval of free frames it is in; meanwhile other threads  *)
(* do what takes no freemem_lock: ram_stealmem, and freeppages up to where *)
(* it has read the length.  This specification implements Coremap, where   *)
(* the search is one step.                                                 *)
(***************************************************************************)
EXTENDS Coremap

CONSTANT None   (* no thread                                              *)

ASSUME SearchAssumption == None \notin Threads

VARIABLES
  holder,           (* the thread in getfreeppages, with freemem_lock       *)
  np,               (* frames it asks for                                   *)
  i, first, found   (* the other locals of the loop                         *)

search == <<holder, np, i, first, found>>

SearchInit ==
  /\ Init
  /\ holder = None /\ np = 0 /\ i = 0 /\ first = -1 /\ found = -1

(* getfreeppages releases the lock and returns.                             *)
search_end ==
  /\ holder' = None
  /\ np' = 0 /\ i' = 0 /\ first' = -1 /\ found' = -1

(* Takes freemem_lock and enters the loop.                                  *)
search_begin(t, n) ==
  /\ CanRun(t) /\ pc[t] = "idle"
  /\ allocTableActive
  /\ holder = None
  /\ holder' = t /\ np' = n
  /\ i' = 0 /\ first' = -1 /\ found' = -1
  /\ UNCHANGED vars

(* first after frame i has been looked at: i when an interval of free       *)
(* frames starts there.                                                     *)
IntervalStartMutant == IF first < 0 THEN i ELSE first

IntervalStart == IF i = 0 \/ ~ freeRamFrames[i - 1] THEN i ELSE first

(* np frames from frame f on end at frame i.                                *)
LongEnoughMutant(f) == i - f + 2 >= np

LongEnough(f) == i - f + 1 >= np

(* One iteration: it ends the loop with the break, or goes to frame i + 1.  *)
Iterate ==
  /\ holder # None /\ found = -1 /\ i < nRamFrames
  /\ first' = IF freeRamFrames[i] THEN IntervalStart ELSE first
  /\ \/ /\ freeRamFrames[i] /\ LongEnough(first')
        /\ found' = first'
        /\ i' = i
     \/ /\ ~ (freeRamFrames[i] /\ LongEnough(first'))
        /\ found' = found
        /\ i' = i + 1
  /\ UNCHANGED <<holder, np>>
  /\ UNCHANGED vars

(* The loop is over, by its break or by its condition.                      *)
Over == holder # None /\ (found >= 0 \/ i = nRamFrames)

(* The frames found are taken off the table, their number is recorded ...   *)
search_found ==
  LET r == [first |-> found, np |-> np] IN
  /\ Over /\ found >= 0
  /\ freeRamFrames' = TakeRun(freeRamFrames, r)
  /\ allocSize' = RecordRun(allocSize, r)
  /\ run' = [run EXCEPT ![holder] = r]
  /\ pc' = [pc EXCEPT ![holder] = "record"]
  /\ search_end
  /\ UNCHANGED <<allocTableActive, firstpaddr, held, bootEnd>>

(* ... or none were found; both release the lock.                           *)
search_none ==
  /\ Over /\ found < 0
  /\ run' = [run EXCEPT ![holder] = [first |-> 0, np |-> np]]
  /\ pc' = [pc EXCEPT ![holder] = "steal"]
  /\ search_end
  /\ UNCHANGED <<freeRamFrames, allocSize, allocTableActive, firstpaddr, held, bootEnd>>

(* What the other critical sections on freemem_lock wait for.               *)
LockFreeMutant == TRUE

LockFree == holder = None

(* What a thread other than the holder can do.                              *)
Other(t) ==
  \/ \E n \in Sizes : ~ allocTableActive /\ getfreeppages_none(t, n)
  \/ ram_stealmem(t) \/ ram_stealmem_none(t)
  \/ LockFree /\ getppages(t)
  \/ \E r \in held : freeppages(t, r)
  \/ LockFree /\ freeppages_mark(t)

SearchNext ==
  \/ (coremap_bootstrap \/ coremap_panic) /\ UNCHANGED search
  \/ Iterate \/ search_found \/ search_none
  \/ \E t \in Threads :
       \/ \E n \in Sizes : search_begin(t, n)
       \/ t # holder /\ Other(t) /\ UNCHANGED search

SearchSpec == SearchInit /\ [][SearchNext]_<<vars, search>>

-----------------------------------------------------------------------------
SearchTypeOK ==
  /\ TypeOK
  /\ holder \in Threads \cup {None}
  /\ np \in Nat
  /\ i \in 0 .. nRamFrames
  /\ first \in -1 .. nRamFrames - 1
  /\ found \in -1 .. nRamFrames - 1

Fits(f) == FitsAt(freeRamFrames, f, np)

(* When the loop of getfreeppages is over it has found the lowest run of np *)
(* free frames, or there is none: it neither hands out a frame in use nor   *)
(* reports "no memory" for a table with room, whatever the other threads    *)
(* did while it was looking.                                                *)
FindsFirstFit ==
  Over => \/ found \in Frames /\ FirstFit(freeRamFrames, found, np)
          \/ found = -1 /\ \A f \in Frames : ~ Fits(f)

(* The loop of getfreeppages with its lock is as good as the single step of *)
(* Coremap: every step of a search but its last one changes nothing there.  *)
ImplementsCoremap == Spec

(* The loop invariant: no run of np free frames ends before frame i, and    *)
(* when frame i - 1 is free, first is where its interval starts.            *)
LoopInv ==
  holder # None /\ found = -1 =>
    /\ \A f \in Frames : Fits(f) => f + np > i
    /\ i > 0 /\ freeRamFrames[i - 1] =>
         /\ 0 <= first /\ first < i
         /\ \A g \in Frames : first <= g /\ g < i => freeRamFrames[g]
         /\ first > 0 => ~ freeRamFrames[first - 1]
         /\ i - first < np

(* The thread in the loop is at the beginning of getppages.                 *)
HolderInv ==
  holder # None =>
    CanRun(holder) /\ pc[holder] = "idle" /\ allocTableActive /\ np \in Sizes

SearchInv == IInv /\ SearchTypeOK /\ HolderInv /\ LoopInv /\ FindsFirstFit

=============================================================================
