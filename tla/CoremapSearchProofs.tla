------------------------- MODULE CoremapSearchProofs -------------------------
(* The search of getfreeppages is right for tables and requests of any size *)
(* and any number of threads, and implements the single step of Coremap.    *)
EXTENDS CoremapProofs, CoremapSearch

USE CoremapAssumption, SearchAssumption DEF CoremapAssumption, SearchAssumption, Frames

(* Every step of the detailed allocator is a step of Coremap or stutters.   *)
LEMMA SearchStepMaps ==
  SearchInv /\ [SearchNext]_<<vars, search>> => [Next]_vars
<1> SUFFICES ASSUME SearchInv, [SearchNext]_<<vars, search>> PROVE [Next]_vars
  OBVIOUS
<1> SearchTypeOK /\ HolderInv /\ FindsFirstFit
  BY DEF SearchInv
<1>1. CASE coremap_bootstrap \/ coremap_panic
  BY <1>1 DEF Next
<1>2. CASE Iterate
  BY <1>2 DEF Iterate
<1>3. CASE search_found
  <2>1. Over /\ found >= 0
    BY <1>3 DEF search_found
  <2>2. /\ holder \in Threads /\ np \in Sizes
        /\ CanRun(holder) /\ pc[holder] = "idle" /\ allocTableActive
    BY <2>1 DEF Over, HolderInv, SearchTypeOK
  <2>3. found \in Frames /\ FirstFit(freeRamFrames, found, np)
    BY <2>1 DEF FindsFirstFit
  <2>4. getfreeppages(holder, np)
    BY Zenon, <1>3, <2>2, <2>3 DEF search_found, getfreeppages
  <2> QED
    BY <2>2, <2>4 DEF Next, Step
<1>4. CASE search_none
  <2>1. Over /\ found < 0
    BY <1>4 DEF search_none
  <2>2. /\ holder \in Threads /\ np \in Sizes
        /\ CanRun(holder) /\ pc[holder] = "idle" /\ allocTableActive
    BY <2>1 DEF Over, HolderInv, SearchTypeOK
  <2>3. \A f \in Frames : ~ FitsAt(freeRamFrames, f, np)
    BY <2>1 DEF FindsFirstFit, Fits
  <2>4. getfreeppages_none(holder, np)
    BY <1>4, <2>2, <2>3 DEF search_none, getfreeppages_none
  <2> QED
    BY <2>2, <2>4 DEF Next, Step
<1>5. ASSUME NEW t \in Threads, NEW n \in Sizes, search_begin(t, n)
      PROVE  UNCHANGED vars
  BY <1>5 DEF search_begin
<1>6. ASSUME NEW t \in Threads, Other(t)
      PROVE  Next
  BY <1>6 DEF Other, Next, Step
<1>7. CASE UNCHANGED <<vars, search>>
  BY <1>7
<1> QED
  BY <1>1, <1>2, <1>3, <1>4, <1>5, <1>6, <1>7 DEF SearchNext

(* What other threads do leaves the table and the searching thread alone.   *)
LEMMA SearchUndisturbed ==
  ASSUME SearchInv, NEW t \in Threads, t # holder, Other(t), holder # None
  PROVE  UNCHANGED <<freeRamFrames, allocTableActive>> /\ pc'[holder] = pc[holder]
<1> TypeOK /\ holder \in Threads /\ allocTableActive
  BY DEF SearchInv, SearchTypeOK, HolderInv
<1>1. CASE ram_stealmem(t)
  BY <1>1 DEF ram_stealmem, TypeOK
<1>2. CASE ram_stealmem_none(t)
  BY <1>2 DEF ram_stealmem_none, TypeOK
<1>3. ASSUME NEW r \in held, freeppages(t, r)
      PROVE  UNCHANGED <<freeRamFrames, allocTableActive>> /\ pc'[holder] = pc[holder]
  BY <1>3 DEF freeppages, TypeOK
<1> QED
  BY ZenonT(30), <1>1, <1>2, <1>3 DEF Other, LockFree

(* One iteration of the loop keeps the loop invariant, or ends the loop     *)
(* with the lowest run that fits.                                           *)
LEMMA SearchIterates ==
  ASSUME SearchInv, Iterate
  PROVE  /\ i' \in 0 .. nRamFrames
         /\ first' \in -1 .. nRamFrames - 1
         /\ found' \in -1 .. nRamFrames - 1
         /\ LoopInv' /\ FindsFirstFit'
<1> SearchTypeOK /\ HolderInv /\ LoopInv
  BY DEF SearchInv
<1>1. /\ holder # None /\ found = -1 /\ i \in Frames /\ np \in Nat \ {0}
      /\ UNCHANGED <<freeRamFrames, holder, np>>
  BY DEF Iterate, SearchTypeOK, HolderInv, vars
<1>2. \A f \in Frames : Fits(f) => f + np > i
  BY <1>1 DEF LoopInv
<1>3. ASSUME i' = i + 1, found' = -1, \A f \in Frames : Fits(f) => f + np > i + 1
      PROVE  FindsFirstFit'
  <2>1. CASE i + 1 = nRamFrames
    <3>1. \A f \in Frames : ~ Fits(f)
      BY <1>1, <1>3, <2>1 DEF Fits, FitsAt
    <3>2. \A f \in Frames : ~ Fits(f)'
      BY ZenonT(30), <1>1, <3>1 DEF Fits, FitsAt
    <3> QED
      BY <1>3, <3>2 DEF FindsFirstFit
  <2>2. CASE i + 1 # nRamFrames
    BY <1>3, <2>2 DEF FindsFirstFit, Over
  <2> QED
    BY <2>1, <2>2
<1>4. CASE ~ freeRamFrames[i]
  <2>1. i' = i + 1 /\ UNCHANGED <<first, found>>
    BY <1>4 DEF Iterate
  <2>2. \A f \in Frames : Fits(f) => f + np > i + 1
    <3> SUFFICES ASSUME NEW f \in Frames, Fits(f), f + np <= i + 1 PROVE FALSE
      BY <1>1
    <3>1. f + np = i + 1
      BY <1>1, <1>2
    <3>2. f <= i /\ i < f + np
      BY <1>1, <3>1
    <3> QED
      BY <1>1, <1>4, <3>2 DEF Fits, FitsAt
  <2>3. LoopInv'
    BY <1>1, <1>4, <2>1, <2>2 DEF LoopInv, Fits, FitsAt
  <2>4. FindsFirstFit'
    BY <1>1, <1>3, <2>1, <2>2
  <2> QED
    BY <1>1, <2>1, <2>3, <2>4 DEF SearchTypeOK
<1>5. CASE freeRamFrames[i]
  <2> DEFINE s == IntervalStart
  <2>1. first' = s
    BY <1>5 DEF Iterate
  <2>2. /\ s \in Frames /\ s <= i
        /\ \A g \in Frames : s <= g /\ g < i + 1 => freeRamFrames[g]
        /\ s > 0 => ~ freeRamFrames[s - 1]
        /\ i - s < np
    <3>1. CASE i = 0 \/ ~ freeRamFrames[i - 1]
      <4>1. s = i
        BY <3>1 DEF IntervalStart
      <4>2. \A g \in Frames : i <= g /\ g < i + 1 => g = i
        BY <1>1
      <4> QED
        BY <1>1, <1>5, <3>1, <4>1, <4>2
    <3>2. CASE i > 0 /\ freeRamFrames[i - 1]
      BY <1>1, <1>5, <3>2 DEF IntervalStart, LoopInv, SearchTypeOK
    <3> QED
      BY <1>1, <3>1, <3>2
  <2> HIDE DEF s
  <2>3. CASE i - s + 1 >= np
    <3>1. found' = s /\ i' = i
      BY <1>1, <1>5, <2>1, <2>2, <2>3 DEF Iterate, LongEnough
    <3>2. s + np = i + 1
      BY <1>1, <2>2, <2>3
    <3>3. FitsAt(freeRamFrames, s, np)
      BY <1>1, <2>2, <3>2 DEF FitsAt
    <3>4. \A f \in Frames : FitsAt(freeRamFrames, f, np) => s <= f
      BY <1>1, <1>2, <2>2, <3>2 DEF Fits
    <3>5. FirstFit(freeRamFrames, s, np)
      BY <3>3, <3>4 DEF FirstFit
    <3>6. FindsFirstFit'
      BY <1>1, <2>2, <3>1, <3>5 DEF FindsFirstFit, FirstFit, FitsAt
    <3>7. LoopInv'
      BY <2>2, <3>1 DEF LoopInv
    <3> QED
      BY <1>1, <2>1, <2>2, <3>1, <3>6, <3>7
  <2>4. CASE i - s + 1 < np
    <3>1. i' = i + 1 /\ UNCHANGED found
      BY <1>1, <1>5, <2>1, <2>2, <2>4 DEF Iterate, LongEnough
    <3>2. \A f \in Frames : Fits(f) => f + np > i + 1
      <4> SUFFICES ASSUME NEW f \in Frames, Fits(f), f + np <= i + 1 PROVE FALSE
        BY <1>1
      <4>1. f + np = i + 1
        BY <1>1, <1>2
      <4>2. s > 0 /\ s - 1 \in Frames /\ f <= s - 1 /\ s - 1 < f + np
        BY <1>1, <2>2, <2>4, <4>1
      <4> QED
        BY <2>2, <4>2 DEF Fits, FitsAt
    <3>3. LoopInv'
      BY <1>1, <2>1, <2>2, <2>4, <3>1, <3>2 DEF LoopInv, Fits, FitsAt
    <3>4. FindsFirstFit'
      BY <1>1, <1>3, <3>1, <3>2
    <3> QED
      BY <1>1, <2>1, <2>2, <3>1, <3>3, <3>4
  <2> QED
    BY <1>1, <2>2, <2>3, <2>4
<1> QED
  BY <1>4, <1>5

LEMMA SearchInitInv == SearchInit => SearchInv
<1> SUFFICES ASSUME SearchInit PROVE SearchInv
  OBVIOUS
<1>1. IInv
  BY InitIInv DEF SearchInit
<1>2. SearchTypeOK
  BY <1>1 DEF SearchInit, SearchTypeOK, IInv
<1> QED
  BY <1>1, <1>2 DEF SearchInit, SearchInv, HolderInv, LoopInv, FindsFirstFit, Over

LEMMA SearchStepInv == SearchInv /\ [SearchNext]_<<vars, search>> => SearchInv'
<1> SUFFICES ASSUME SearchInv, [SearchNext]_<<vars, search>> PROVE SearchInv'
  OBVIOUS
<1> SearchTypeOK /\ HolderInv /\ LoopInv /\ FindsFirstFit
  BY DEF SearchInv
<1>1. IInv' /\ TypeOK'
  BY SearchStepMaps, StepIInv DEF SearchInv, IInv
<1>2. ASSUME holder' = None, np' \in Nat, i' \in 0 .. nRamFrames,
             first' \in -1 .. nRamFrames - 1, found' \in -1 .. nRamFrames - 1
      PROVE  SearchInv'
  BY <1>1, <1>2 DEF SearchInv, SearchTypeOK, HolderInv, LoopInv, FindsFirstFit, Over
<1>3. ASSUME UNCHANGED <<freeRamFrames, allocTableActive>>, UNCHANGED search,
             holder # None => pc'[holder] = pc[holder]
      PROVE  SearchInv'
  <2>1. SearchTypeOK'
    BY <1>1, <1>3 DEF SearchTypeOK, search
  <2>2. HolderInv'
    BY <1>3 DEF HolderInv, CanRun, search
  <2>3. \A f \in Frames : Fits(f)' <=> Fits(f)
    BY <1>3 DEF Fits, FitsAt, search
  <2>4. LoopInv'
    BY <1>3, <2>3 DEF LoopInv, search
  <2>5. FindsFirstFit'
    BY <1>3, <2>3 DEF FindsFirstFit, Over, FirstFit, FitsAt, search
  <2> QED
    BY <1>1, <2>1, <2>2, <2>4, <2>5 DEF SearchInv
<1>4. CASE (coremap_bootstrap \/ coremap_panic) /\ UNCHANGED search
  <2>1. holder = None
    BY <1>4 DEF coremap_bootstrap, coremap_panic, HolderInv
  <2> QED
    BY <1>2, <1>4, <2>1 DEF search, SearchTypeOK
<1>5. CASE Iterate
  <2>1. UNCHANGED <<holder, np, pc, allocTableActive>>
    BY <1>5 DEF Iterate, vars
  <2>2. SearchTypeOK'
    BY <1>1, <1>5, <2>1, SearchIterates DEF SearchTypeOK
  <2>3. HolderInv'
    BY <2>1 DEF HolderInv, CanRun
  <2> QED
    BY <1>1, <1>5, <2>2, <2>3, SearchIterates DEF SearchInv
<1>6. CASE search_found \/ search_none
  BY <1>2, <1>6 DEF search_found, search_none, search_end
<1>7. ASSUME NEW t \in Threads, NEW n \in Sizes, search_begin(t, n)
      PROVE  SearchInv'
  <2>1. /\ holder' = t /\ np' = n /\ i' = 0 /\ first' = -1 /\ found' = -1
        /\ n \in Nat \ {0}
        /\ UNCHANGED <<freeRamFrames, pc, allocTableActive>>
    BY <1>7 DEF search_begin, vars
  <2>2. SearchTypeOK'
    BY <1>1, <2>1 DEF SearchTypeOK
  <2>3. HolderInv'
    BY <1>7, <2>1 DEF search_begin, HolderInv, CanRun
  <2>4. LoopInv'
    BY <2>1 DEF LoopInv
  <2>5. FindsFirstFit'
    BY <2>1 DEF FindsFirstFit, Over
  <2> QED
    BY <1>1, <2>2, <2>3, <2>4, <2>5 DEF SearchInv
<1>8. ASSUME NEW t \in Threads, t # holder, Other(t), UNCHANGED search
      PROVE  SearchInv'
  <2>1. CASE holder = None
    BY <1>2, <1>8, <2>1 DEF search, SearchTypeOK
  <2>2. CASE holder # None
    <3>1. UNCHANGED <<freeRamFrames, allocTableActive>> /\ pc'[holder] = pc[holder]
      BY <1>8, <2>2, SearchUndisturbed
    <3> QED
      BY <1>3, <1>8, <3>1
  <2> QED
    BY <2>1, <2>2
<1>9. CASE UNCHANGED <<vars, search>>
  BY <1>3, <1>9 DEF vars
<1> QED
  BY <1>4, <1>5, <1>6, <1>7, <1>8, <1>9 DEF SearchNext

(* getfreeppages: the loop, which only remembers where the current interval *)
(* of free frames starts, ends with the lowest run that fits, for every     *)
(* table, every request and every interleaving with other threads.          *)
THEOREM SearchCorrect == SearchSpec => []FindsFirstFit
<1>1. SearchInv => FindsFirstFit
  BY DEF SearchInv
<1> QED
  BY <1>1, SearchInitInv, SearchStepInv, PTL DEF SearchSpec

(* The allocator with the loop of getfreeppages implements the one that     *)
(* searches in a single step, so all that is proved of Coremap holds of it. *)
THEOREM RefinesCoremap == SearchSpec => ImplementsCoremap
<1>1. SearchInit => Init
  BY DEF SearchInit
<1> QED
  BY <1>1, SearchInitInv, SearchStepInv, SearchStepMaps, PTL
  DEF SearchSpec, ImplementsCoremap, Spec

(* ... in particular: with the loop of getfreeppages running between the    *)
(* steps of other threads, no frame is in two hands, none in use is offered *)
(* again, none is lost, and the recorded lengths are right.                 *)
THEOREM SearchKeepsFrames ==
  SearchSpec => [](Exclusive /\ FreeUnowned /\ NoLeak /\ SizeRecorded)
<1>1. SearchInv => Exclusive /\ FreeUnowned /\ NoLeak /\ SizeRecorded
  BY Zenon DEF SearchInv, IInv
<1> QED
  BY <1>1, SearchInitInv, SearchStepInv, PTL DEF SearchSpec

=============================================================================
