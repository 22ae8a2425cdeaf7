---------------------------- MODULE CoremapProofs ----------------------------
(* Proofs about Coremap: for every memory size, every set of threads and    *)
(* every interleaving of their critical sections.                           *)
EXTENDS Coremap, TLAPS

USE CoremapAssumption DEF CoremapAssumption
USE DEF TakeRun, PutRun, RecordRun, StealFits, RecordedRun

(* The invariant holds before the first page is taken.                      *)
LEMMA InitIInv == Init => IInv
<1> SUFFICES ASSUME Init PROVE IInv
  BY Zenon
<1>1. TypeOK
  <2>1. NoRun \in Run
    BY DEF NoRun, Run, Frames
  <2>2. firstpaddr \in FirstFrame .. nRamFrames /\ bootEnd \in FirstFrame .. firstpaddr
    BY DEF Init
  <2> QED
    BY Zenon, <2>1, <2>2 DEF Init, TypeOK
<1>2. \A t \in Threads : ~ Owning(t)
  BY Zenon DEF Init, Owning
<1>3. Exclusive /\ FreeUnowned /\ NoLeak /\ SizeRecorded
  BY <1>2 DEF Init, Exclusive, FreeUnowned, NoLeak, SizeRecorded, Frames
<1>4. RunsPlaced /\ BootSequential
  BY Zenon, <1>2 DEF Init, RunsPlaced, BootSequential, Frames
<1> QED
  BY Zenon, <1>1, <1>3, <1>4 DEF IInv

(* Every step keeps the types: no run leaves the memory.                    *)
LEMMA TypeStep == TypeOK /\ RunsPlaced /\ [Next]_vars => TypeOK'
<1> SUFFICES ASSUME TypeOK, RunsPlaced, [Next]_vars PROVE TypeOK'
  BY Zenon
<1> USE DEF TypeOK
<1>0. NoRun \in Run
  BY DEF NoRun, Run, Frames
<1>1. CASE coremap_bootstrap
  BY <1>1 DEF coremap_bootstrap
<1>2. CASE coremap_panic
  BY Zenon, <1>2 DEF coremap_panic
<1>3. ASSUME NEW t \in Threads, NEW np \in Sizes, getfreeppages(t, np)
      PROVE  TypeOK'
  <2>1. PICK found \in Frames :
          LET r == [first |-> found, np |-> np] IN
          /\ freeRamFrames' = TakeRun(freeRamFrames, r)
          /\ allocSize' = RecordRun(allocSize, r)
          /\ run' = [run EXCEPT ![t] = r]
    BY Zenon, <1>3 DEF getfreeppages
  <2>2. np \in Nat /\ [first |-> found, np |-> np] \in Run
    BY Zenon DEF Run
  <2>3. freeRamFrames' \in [Frames -> BOOLEAN] /\ allocSize' \in [Frames -> Nat]
    BY Zenon, <2>1, <2>2 DEF InRun
  <2> QED
    BY Zenon, <1>3, <2>1, <2>2, <2>3 DEF getfreeppages
<1>4. ASSUME NEW t \in Threads, NEW np \in Sizes, getfreeppages_none(t, np)
      PROVE  TypeOK'
  <2>1. [first |-> 0, np |-> np] \in Run
    BY DEF Run, Frames
  <2> QED
    BY Zenon, <1>4, <2>1 DEF getfreeppages_none
<1>5. ASSUME NEW t \in Threads, ram_stealmem(t)
      PROVE  TypeOK'
  <2>1. run[t].np \in Nat /\ run[t].np > 0
    BY Zenon, <1>5 DEF ram_stealmem, RunsPlaced, Run
  <2>2. /\ firstpaddr' = firstpaddr + run[t].np /\ firstpaddr' <= nRamFrames
        /\ bootEnd' = bootEnd \/ bootEnd' = firstpaddr'
    BY Zenon, <1>5 DEF ram_stealmem
  <2>3. [first |-> firstpaddr, np |-> run[t].np] \in Run
    BY SMTT(60), <2>1, <2>2 DEF Run, Frames
  <2>4. run' \in [Threads -> Run] /\ held' \in SUBSET Run
    BY <1>0, <1>5, <2>3 DEF ram_stealmem
  <2>5. firstpaddr' \in FirstFrame .. nRamFrames
    BY <2>1, <2>2
  <2>6. bootEnd' \in FirstFrame .. firstpaddr'
    BY <2>1, <2>2
  <2> QED
    BY Zenon, <1>5, <2>4, <2>5, <2>6 DEF ram_stealmem
<1>6. ASSUME NEW t \in Threads, ram_stealmem_none(t)
      PROVE  TypeOK'
  BY Zenon, <1>0, <1>6 DEF ram_stealmem_none
<1>7. ASSUME NEW t \in Threads, getppages(t)
      PROVE  TypeOK'
  <2>1. run[t].first \in Frames /\ run[t].np \in Nat
    BY Zenon DEF Run
  <2> QED
    BY Zenon, <1>0, <1>7, <2>1 DEF getppages
<1>8. ASSUME NEW t \in Threads, NEW r \in held, freeppages(t, r)
      PROVE  TypeOK'
  <2>1. RecordedRun(r.first) \in Run
    BY Zenon DEF Run
  <2> HIDE DEF RecordedRun
  <2> QED
    BY ZenonT(60), <1>8, <2>1 DEF freeppages
<1>9. ASSUME NEW t \in Threads, freeppages_mark(t)
      PROVE  TypeOK'
  BY Zenon, <1>0, <1>9 DEF freeppages_mark, InRun
<1>10. CASE UNCHANGED vars
  BY Zenon, <1>10 DEF vars
<1> QED
  BY Zenon, <1>1, <1>2, <1>3, <1>4, <1>5, <1>6, <1>7, <1>8, <1>9, <1>10 DEF Next, Step

(* Every step of every thread preserves the inductive invariant.            *)
LEMMA StepIInv == IInv /\ [Next]_vars => IInv'
<1> SUFFICES ASSUME IInv, [Next]_vars PROVE IInv'
  BY Zenon
<1> TypeOK /\ Exclusive /\ FreeUnowned /\ NoLeak /\ SizeRecorded /\ RunsPlaced /\ BootSequential
  BY Zenon DEF IInv
<1>0. TypeOK'
  BY Zenon, TypeStep
<1>a. /\ firstpaddr \in Int /\ bootEnd \in Int /\ bootEnd <= firstpaddr
      /\ FirstFrame <= bootEnd /\ FirstFrame \in Int /\ nRamFrames \in Int
  BY DEF TypeOK
<1>b. /\ \A q \in held : q.first \in Int /\ q.np \in Int
      /\ \A u \in Threads : run[u].first \in Int /\ run[u].np \in Int
  BY DEF TypeOK, Run, Frames
<1>c. \A f : f \in Frames <=> f \in Int /\ 0 <= f /\ f < nRamFrames
  BY DEF Frames
<1> USE DEF TypeOK, Frames, Run, NoRun, Owning, Handed, InRun, Disjoint
<1>1. CASE coremap_bootstrap
  <2>1. Exclusive'
    BY Zenon, <1>0, <1>1 DEF coremap_bootstrap, Exclusive, FreeUnowned, NoLeak, SizeRecorded, RunsPlaced, BootSequential
  <2>2. FreeUnowned'
    BY <1>0, <1>1 DEF coremap_bootstrap, Exclusive, FreeUnowned, NoLeak, SizeRecorded, RunsPlaced, BootSequential
  <2>3. NoLeak'
    BY <1>0, <1>1 DEF coremap_bootstrap, Exclusive, FreeUnowned, NoLeak, SizeRecorded, RunsPlaced, BootSequential
  <2>4. SizeRecorded'
    BY <1>0, <1>1 DEF coremap_bootstrap, Exclusive, FreeUnowned, NoLeak, SizeRecorded, RunsPlaced, BootSequential
  <2>5. RunsPlaced'
    BY <1>0, <1>1 DEF coremap_bootstrap, Exclusive, FreeUnowned, NoLeak, SizeRecorded, RunsPlaced, BootSequential
  <2>6. BootSequential'
    BY Zenon, <1>0, <1>1 DEF coremap_bootstrap, Exclusive, FreeUnowned, NoLeak, SizeRecorded, RunsPlaced, BootSequential
  <2> QED
    BY Zenon, <1>0, <2>1, <2>2, <2>3, <2>4, <2>5, <2>6 DEF IInv
<1>2. CASE coremap_panic
  <2>1. Exclusive'
    BY ZenonT(60), <1>0, <1>2 DEF coremap_panic, Exclusive, FreeUnowned, NoLeak, SizeRecorded, RunsPlaced, BootSequential
  <2>2. FreeUnowned'
    BY ZenonT(60), <1>0, <1>2 DEF coremap_panic, Exclusive, FreeUnowned, NoLeak, SizeRecorded, RunsPlaced, BootSequential
  <2>3. NoLeak'
    BY Zenon, <1>0, <1>2 DEF coremap_panic, Exclusive, FreeUnowned, NoLeak, SizeRecorded, RunsPlaced, BootSequential
  <2>4. SizeRecorded'
    BY Zenon, <1>0, <1>2 DEF coremap_panic, Exclusive, FreeUnowned, NoLeak, SizeRecorded, RunsPlaced, BootSequential
  <2>5. RunsPlaced'
    BY <1>0, <1>2 DEF coremap_panic, Exclusive, FreeUnowned, NoLeak, SizeRecorded, RunsPlaced, BootSequential
  <2>6. BootSequential'
    BY Zenon, <1>0, <1>2 DEF coremap_panic, Exclusive, FreeUnowned, NoLeak, SizeRecorded, RunsPlaced, BootSequential
  <2> QED
    BY Zenon, <1>0, <2>1, <2>2, <2>3, <2>4, <2>5, <2>6 DEF IInv
<1>3. ASSUME NEW t \in Threads, NEW np \in Sizes, getfreeppages(t, np)
      PROVE  IInv'
  <2>1. PICK found \in Frames :
          /\ FitsAt(freeRamFrames, found, np)
          /\ freeRamFrames' = [f \in Frames |-> freeRamFrames[f]
                                 /\ ~ InRun(f, [first |-> found, np |-> np])]
          /\ allocSize' = [allocSize EXCEPT ![found] = np]
          /\ run' = [run EXCEPT ![t] = [first |-> found, np |-> np]]
    BY Zenon, <1>3 DEF getfreeppages, FirstFit
  <2>2. /\ \A u \in Threads : u # t => run'[u] = run[u] /\ pc'[u] = pc[u]
        /\ run'[t].first = found /\ run'[t].np = np /\ pc'[t] = "record"
        /\ pc[t] = "idle" /\ allocTableActive
        /\ UNCHANGED <<allocTableActive, firstpaddr, held, bootEnd>>
    BY ZenonT(60), <1>3, <2>1 DEF getfreeppages
  <2>3. np \in Nat /\ np > 0 /\ found + np <= nRamFrames
    BY <2>1 DEF FitsAt
  <2>4. \A f \in Frames : found <= f /\ f < found + np => freeRamFrames[f]
    BY Zenon, <2>1 DEF FitsAt
  <2>5. \A f \in Frames : freeRamFrames'[f] <=>
                           freeRamFrames[f] /\ ~ (found <= f /\ f < found + np)
    BY Zenon, <2>1
  <2>6. bootEnd <= found /\ found + np <= firstpaddr
    <3>1. found \in Frames /\ found + np - 1 \in Frames
      BY <2>3
    <3>2. freeRamFrames[found] /\ freeRamFrames[found + np - 1]
      BY <2>3, <2>4, <3>1
    <3> QED
      BY <2>3, <3>1, <3>2 DEF FreeUnowned
  <2>7. Exclusive'
    <3>1. \A q \in held : Disjoint(run'[t], q)
      BY Zenon, <2>2, <2>4 DEF FreeUnowned
    <3>2. \A u \in Threads \ {t} : Owning(u) =>
            Disjoint(run'[t], run[u]) /\ Disjoint(run[u], run'[t])
      BY Zenon, <2>2, <2>4 DEF FreeUnowned
    <3>3. \A u \in Threads : Owning(u)' <=> u = t \/ Owning(u)
      BY Zenon, <2>2
    <3> HIDE DEF Disjoint, Owning
    <3> QED
      BY Zenon, <2>2, <3>1, <3>2, <3>3 DEF Exclusive
  <2>8. FreeUnowned'
    BY Zenon, <2>2, <2>3, <2>5 DEF FreeUnowned
  <2>9. NoLeak'
    <3> SUFFICES ASSUME NEW f \in bootEnd .. firstpaddr - 1
                 PROVE  \/ freeRamFrames'[f]
                        \/ \E r \in held : InRun(f, r)
                        \/ \E u \in Threads : Owning(u)' /\ InRun(f, run'[u])
      BY Zenon, <2>2 DEF NoLeak
    <3>0. f \in Frames
      OBVIOUS
    <3>1. CASE found <= f /\ f < found + np
      BY Zenon, <2>2, <3>1
    <3>2. CASE ~ (found <= f /\ f < found + np) /\ freeRamFrames[f]
      BY Zenon, <2>5, <3>0, <3>2
    <3>3. CASE ~ freeRamFrames[f]
      BY Zenon, <2>2, <3>3 DEF NoLeak
    <3> QED
      BY Zenon, <3>1, <3>2, <3>3
  <2>10. SizeRecorded'
    <3> SUFFICES ASSUME NEW r \in held PROVE allocSize'[r.first] = allocSize[r.first]
      BY Zenon, <2>2 DEF SizeRecorded
    <3>0. r.np > 0 /\ r.first \in Int /\ r.np \in Int
      BY Zenon, <1>b DEF RunsPlaced
    <3>1. InRun(r.first, r)
      BY ONLY <3>0 DEF InRun
    <3>2. freeRamFrames[found]
      BY <2>3, <2>4
    <3>3. r.first # found
      BY Zenon, <3>1, <3>2 DEF FreeUnowned
    <3> QED
      BY Zenon, <2>1, <3>3
  <2>11. RunsPlaced'
    <3>1. \A r \in held' : Handed(r)'
      BY Zenon, <2>2 DEF RunsPlaced
    <3>0. found \in Int /\ bootEnd' = bootEnd /\ firstpaddr' = firstpaddr
      BY Zenon, <1>c, <2>2
    <3>2. Handed(run[t])' /\ run'[t].first >= bootEnd
      BY ONLY <1>a, <2>2, <2>3, <2>6, <3>0 DEF Handed
    <3>3. \A u \in Threads \ {t} :
            /\ pc'[u] = "steal" => run'[u].np > 0
            /\ pc'[u] = "record" => Handed(run[u])' /\ run'[u].first >= bootEnd'
            /\ pc'[u] = "free" => \/ Handed(run[u])' /\ run'[u].first >= bootEnd'
                                  \/ run'[u].np = 0
      BY ZenonT(60), <2>2 DEF RunsPlaced
    <3> HIDE DEF Handed
    <3> QED
      BY Zenon, <2>2, <3>1, <3>2, <3>3 DEF RunsPlaced
  <2>12. BootSequential'
    BY <2>1, <2>2, <2>6 DEF BootSequential
  <2> QED
    BY Zenon, <1>0, <2>7, <2>8, <2>9, <2>10, <2>11, <2>12 DEF IInv
<1>4. ASSUME NEW t \in Threads, NEW np \in Sizes, getfreeppages_none(t, np)
      PROVE  IInv'
  <2>1. Exclusive'
    <3>1. /\ \A u \in Threads : u # t => run'[u] = run[u] /\ pc'[u] = pc[u]
          /\ pc'[t] = "steal" /\ UNCHANGED held
      BY Zenon, <1>4 DEF getfreeppages_none
    <3> QED
      BY ZenonT(60), <3>1 DEF Exclusive
  <2>2. FreeUnowned'
    BY ZenonT(60), <1>0, <1>4 DEF getfreeppages_none, Exclusive, FreeUnowned, NoLeak, SizeRecorded, RunsPlaced, BootSequential
  <2>3. NoLeak'
    BY Zenon, <1>0, <1>4 DEF getfreeppages_none, Exclusive, FreeUnowned, NoLeak, SizeRecorded, RunsPlaced, BootSequential
  <2>4. SizeRecorded'
    BY Zenon, <1>0, <1>4 DEF getfreeppages_none, Exclusive, FreeUnowned, NoLeak, SizeRecorded, RunsPlaced, BootSequential
  <2>5. RunsPlaced'
    BY SMTT(30), <1>0, <1>4 DEF getfreeppages_none, Exclusive, FreeUnowned, NoLeak, SizeRecorded, RunsPlaced, BootSequential
  <2>6. BootSequential'
    BY Zenon, <1>0, <1>4 DEF getfreeppages_none, Exclusive, FreeUnowned, NoLeak, SizeRecorded, RunsPlaced, BootSequential
  <2> QED
    BY Zenon, <1>0, <2>1, <2>2, <2>3, <2>4, <2>5, <2>6 DEF IInv
<1>5. ASSUME NEW t \in Threads, ram_stealmem(t)
      PROVE  IInv'
  <2> DEFINE r == [first |-> firstpaddr, np |-> run[t].np]
  <2>1. /\ \A u \in Threads : u # t => run'[u] = run[u] /\ pc'[u] = pc[u]
        /\ pc[t] = "steal" /\ firstpaddr' = firstpaddr + run[t].np
        /\ firstpaddr' <= nRamFrames
        /\ UNCHANGED <<freeRamFrames, allocSize, allocTableActive>>
    BY Zenon, <1>5 DEF ram_stealmem
  <2>2. run[t].np \in Nat /\ run[t].np > 0 /\ firstpaddr \in Frames
    <3>1. run[t].np \in Nat /\ run[t].np > 0
      BY Zenon, <2>1 DEF RunsPlaced
    <3>2. FirstFrame <= firstpaddr /\ 1 <= FirstFrame
      BY CoremapAssumption
    <3> QED
      BY ONLY <1>a, <1>c, <2>1, <3>1, <3>2
  <2>3. ASSUME NEW q \in held PROVE q.first + q.np <= firstpaddr
    <3>1. q.first \in Int /\ q.np \in Int
      BY Zenon, <1>b
    <3>2. Handed(q)
      BY Zenon DEF RunsPlaced
    <3> HIDE DEF TypeOK, Run, Frames
    <3> QED
      BY <1>a, <3>1, <3>2
  <2>4. \A u \in Threads : Owning(u) => run[u].first + run[u].np <= firstpaddr \/ run[u].np = 0
    <3> SUFFICES ASSUME NEW u \in Threads, Owning(u), run[u].np # 0
                 PROVE  run[u].first + run[u].np <= firstpaddr
      BY Zenon
    <3>1. Handed(run[u]) /\ run[u].first \in Int /\ run[u].np \in Int
      BY Zenon, <1>b DEF RunsPlaced
    <3> QED
      BY ONLY <1>a, <3>1 DEF Handed
  <2>5. CASE allocTableActive
    <3>1. /\ run'[t].first = firstpaddr /\ run'[t].np = run[t].np
          /\ pc'[t] = "record" /\ UNCHANGED <<held, bootEnd>>
      BY <1>5, <2>5 DEF ram_stealmem
    <3>2. Exclusive'
      <4>1. ASSUME NEW q \in held PROVE Disjoint(run'[t], q)
        <5>1. q.first \in Int /\ q.np \in Int /\ q.first + q.np <= firstpaddr
          BY <2>3
        <5>2. Frames \subseteq Int
          OBVIOUS
        <5>3. ASSUME NEW f \in Frames, InRun(f, run'[t]), InRun(f, q)
              PROVE  FALSE
          <6>1. f \in Int /\ firstpaddr <= f
            BY Zenon, <3>1, <5>2, <5>3
          <6>2. f < q.first + q.np
            BY Zenon, <5>3
          <6> HIDE DEF TypeOK, Run, Frames
          <6> QED
            BY <1>a, <5>1, <6>1, <6>2
        <5> QED
          BY Zenon, <5>3
      <4>2. ASSUME NEW u \in Threads \ {t}, Owning(u)
            PROVE  Disjoint(run'[t], run[u])
        <5>1. run[u].first \in Int /\ run[u].np \in Int
          BY Zenon, <1>b
        <5>2. run[u].first + run[u].np <= firstpaddr \/ run[u].np = 0
          BY Zenon, <2>4, <4>2
        <5> QED
          BY ONLY <1>a, <1>c, <2>2, <3>1, <5>1, <5>2 DEF Disjoint, InRun
      <4>3. \A u \in Threads \ {t} : Owning(u)' <=> Owning(u)
        BY Zenon, <2>1
      <4> HIDE DEF Disjoint, Owning
      <4>4. \A u, v \in Threads : u # v /\ Owning(u)' /\ Owning(v)' => Disjoint(run'[u], run'[v])
        <5> SUFFICES ASSUME NEW u \in Threads, NEW v \in Threads, u # v, Owning(u)', Owning(v)'
                     PROVE  Disjoint(run'[u], run'[v])
          BY Zenon
        <5>1. CASE u = t
          BY Zenon, <2>1, <4>2, <4>3, <5>1
        <5>2. CASE v = t
          BY Zenon, <2>1, <4>2, <4>3, <5>2 DEF Disjoint
        <5>3. CASE u # t /\ v # t
          BY Zenon, <2>1, <4>3, <5>3 DEF Exclusive
        <5> QED
          BY Zenon, <5>1, <5>2, <5>3
      <4> QED
        BY Zenon, <2>1, <3>1, <4>1, <4>3, <4>4 DEF Exclusive
    <3>3. FreeUnowned'
      <4> SUFFICES ASSUME NEW f \in Frames, freeRamFrames[f]
                   PROVE  /\ bootEnd <= f /\ f < firstpaddr'
                          /\ \A q \in held : ~ InRun(f, q)
                          /\ \A u \in Threads : Owning(u)' => ~ InRun(f, run'[u])
        BY Zenon, <2>1, <3>1 DEF FreeUnowned
      <4>1. bootEnd <= f /\ f < firstpaddr
        BY Zenon DEF FreeUnowned
      <4>2. ~ InRun(f, run'[t])
        BY <3>1, <4>1
      <4>3. f < firstpaddr'
        <5>1. f \in Int
          BY Zenon, <1>c
        <5> QED
          BY ONLY <1>a, <2>1, <2>2, <4>1, <5>1
      <4>4. ASSUME NEW u \in Threads, u # t, Owning(u)'
            PROVE  ~ InRun(f, run'[u])
        BY Zenon, <2>1, <4>4 DEF FreeUnowned
      <4>5. \A q \in held : ~ InRun(f, q)
        BY Zenon DEF FreeUnowned
      <4> HIDE DEF InRun, Owning
      <4> QED
        BY Zenon, <4>1, <4>2, <4>3, <4>4, <4>5
    <3>4. NoLeak'
      <4> SUFFICES ASSUME NEW f \in bootEnd .. firstpaddr' - 1
                   PROVE  \/ freeRamFrames[f]
                          \/ \E q \in held : InRun(f, q)
                          \/ \E u \in Threads : Owning(u)' /\ InRun(f, run'[u])
        BY Zenon, <2>1, <3>1 DEF NoLeak
      <4>1. CASE f >= firstpaddr
        <5>0. f \in Int /\ f < firstpaddr'
          BY ONLY <1>a, <2>1, <2>2, f \in bootEnd .. firstpaddr' - 1
        <5>1. InRun(f, run'[t])
          BY ONLY <1>a, <2>1, <2>2, <3>1, <4>1, <5>0 DEF InRun
        <5> QED
          BY Zenon, <3>1, <5>1
      <4>2. CASE f < firstpaddr
        <5>1. f \in bootEnd .. firstpaddr - 1
          BY <4>2
        <5> HIDE DEF InRun
        <5> QED
          BY Zenon, <2>1, <3>1, <5>1 DEF NoLeak
      <4> QED
        BY <4>1, <4>2
    <3>5. SizeRecorded'
      BY Zenon, <2>1, <3>1 DEF SizeRecorded
    <3>6. RunsPlaced'
      <4>1. ASSUME NEW q \in held' PROVE Handed(q)'
        <5>1. Handed(q) /\ q.first \in Int /\ q.np \in Int /\ bootEnd' = bootEnd
          BY Zenon, <1>b, <3>1 DEF RunsPlaced
        <5> QED
          BY ONLY <1>a, <2>1, <2>2, <5>1 DEF Handed
      <4>2. Handed(run[t])' /\ run'[t].first >= bootEnd'
        BY ONLY <1>a, <2>1, <2>2, <3>1 DEF Handed
      <4>3. ASSUME NEW u \in Threads \ {t}
            PROVE
            /\ pc'[u] = "steal" => run'[u].np > 0
            /\ pc'[u] = "record" => Handed(run[u])' /\ run'[u].first >= bootEnd'
            /\ pc'[u] = "free" => \/ Handed(run[u])' /\ run'[u].first >= bootEnd'
                                  \/ run'[u].np = 0
        <5>1. run[u].first \in Int /\ run[u].np \in Int /\ run'[u] = run[u] /\ pc'[u] = pc[u]
          BY Zenon, <1>b, <2>1
        <5>2. ASSUME Handed(run[u]) PROVE Handed(run[u])'
          <6>1. firstpaddr <= firstpaddr' /\ bootEnd' = bootEnd /\ bootEnd \in Int
            BY ONLY <1>a, <2>1, <2>2, <3>1
          <6>2. firstpaddr \in Int /\ firstpaddr' \in Int
            BY <1>0
          <6> HIDE DEF TypeOK, Run, Frames
          <6> QED
            BY <1>a, <5>1, <5>2, <6>1, <6>2
        <5> HIDE DEF Handed
        <5> QED
          BY Zenon, <3>1, <5>1, <5>2 DEF RunsPlaced
      <4> HIDE DEF Handed
      <4> QED
        BY Zenon, <3>1, <4>1, <4>2, <4>3 DEF RunsPlaced
    <3>7. BootSequential'
      BY Zenon, <2>1, <2>5, <3>1 DEF BootSequential
    <3> QED
      BY Zenon, <1>0, <3>2, <3>3, <3>4, <3>5, <3>6, <3>7 DEF IInv
  <2>6. CASE ~ allocTableActive
    <3>1. /\ pc'[t] = "idle" /\ held' = held \cup {r} /\ bootEnd' = firstpaddr'
      BY Zenon, <1>5, <2>6 DEF ram_stealmem
    <3>2. \A u \in Threads : ~ Owning(u) /\ ~ Owning(u)'
      BY Zenon, <2>1, <2>6, <3>1 DEF BootSequential
    <3>3. \A f \in Frames : ~ freeRamFrames'[f] /\ allocSize'[f] = 0
      <4> SUFFICES ASSUME NEW f \in Frames PROVE ~ freeRamFrames[f] /\ allocSize[f] = 0
        BY Zenon, <2>1
      <4>1. bootEnd = firstpaddr /\ allocSize[f] = 0
        BY Zenon, <2>6 DEF BootSequential
      <4>2. f \in Int /\ (freeRamFrames[f] => bootEnd <= f /\ f < firstpaddr)
        BY Zenon, <1>c DEF FreeUnowned
      <4> QED
        BY ONLY <1>a, <4>1, <4>2
    <3>4. Exclusive'
      <4>1. ASSUME NEW q \in held PROVE Disjoint(r, q) /\ Disjoint(q, r)
        <5>1. q.first \in Int /\ q.np \in Int /\ q.first + q.np <= firstpaddr
          BY <2>3
        <5>2. Frames \subseteq Int
          OBVIOUS
        <5> HIDE DEF TypeOK, Run, Frames
        <5> QED
          BY <1>a, <2>2, <5>1, <5>2
      <4> HIDE DEF Disjoint, Owning, r
      <4> QED
        BY ZenonT(60), <3>1, <3>2, <4>1 DEF Exclusive
    <3>5. FreeUnowned' /\ NoLeak'
      BY SMTT(60), <2>1, <2>2, <3>1, <3>3 DEF FreeUnowned, NoLeak
    <3>6. SizeRecorded'
      BY <2>1, <2>2, <2>6, <3>1, <3>3 DEF SizeRecorded
    <3>7. RunsPlaced'
      <4>1. ASSUME NEW q \in held' PROVE Handed(q)'
        <5>1. CASE q = r
          BY <2>1, <2>2, <3>1, <5>1
        <5>2. CASE q \in held
          <6>1. q.first \in Int /\ q.np \in Int /\ q.first + q.np <= firstpaddr
            BY <2>3, <5>2
          <6>2. q.np > 0 /\ FirstFrame <= q.first
            BY Zenon, <5>2 DEF RunsPlaced
          <6> QED
            BY ONLY <1>a, <2>1, <2>2, <3>1, <6>1, <6>2 DEF Handed
        <5> QED
          BY Zenon, <3>1, <5>1, <5>2
      <4>2. \A u \in Threads :
            /\ pc'[u] = "steal" => run'[u].np > 0
            /\ pc'[u] = "record" => Handed(run[u])' /\ run'[u].first >= bootEnd'
            /\ pc'[u] = "free" => \/ Handed(run[u])' /\ run'[u].first >= bootEnd'
                                  \/ run'[u].np = 0
        BY Zenon, <2>1, <3>1, <3>2 DEF RunsPlaced
      <4> HIDE DEF Handed
      <4> QED
        BY Zenon, <4>1, <4>2 DEF RunsPlaced
    <3>8. BootSequential'
      BY Zenon, <3>1, <3>2, <3>3 DEF BootSequential
    <3> QED
      BY Zenon, <1>0, <3>4, <3>5, <3>6, <3>7, <3>8 DEF IInv
  <2> QED
    BY Zenon, <2>5, <2>6
<1>6. ASSUME NEW t \in Threads, ram_stealmem_none(t)
      PROVE  IInv'
  <2>1. Exclusive'
    <3>1. /\ \A u \in Threads : u # t => run'[u] = run[u] /\ pc'[u] = pc[u]
          /\ pc'[t] = "idle" /\ UNCHANGED held
      BY Zenon, <1>6 DEF ram_stealmem_none
    <3> QED
      BY ZenonT(60), <3>1 DEF Exclusive
  <2>2. FreeUnowned'
    BY ZenonT(60), <1>0, <1>6 DEF ram_stealmem_none, Exclusive, FreeUnowned, NoLeak, SizeRecorded, RunsPlaced, BootSequential
  <2>3. NoLeak'
    BY Zenon, <1>0, <1>6 DEF ram_stealmem_none, Exclusive, FreeUnowned, NoLeak, SizeRecorded, RunsPlaced, BootSequential
  <2>4. SizeRecorded'
    BY ZenonT(60), <1>0, <1>6 DEF ram_stealmem_none, Exclusive, FreeUnowned, NoLeak, SizeRecorded, RunsPlaced, BootSequential
  <2>5. RunsPlaced'
    BY <1>0, <1>6 DEF ram_stealmem_none, Exclusive, FreeUnowned, NoLeak, SizeRecorded, RunsPlaced, BootSequential
  <2>6. BootSequential'
    BY Zenon, <1>0, <1>6 DEF ram_stealmem_none, Exclusive, FreeUnowned, NoLeak, SizeRecorded, RunsPlaced, BootSequential
  <2> QED
    BY Zenon, <1>0, <2>1, <2>2, <2>3, <2>4, <2>5, <2>6 DEF IInv
<1>7. ASSUME NEW t \in Threads, getppages(t)
      PROVE  IInv'
  <2>1. /\ \A u \in Threads : u # t => run'[u] = run[u] /\ pc'[u] = pc[u]
        /\ pc[t] = "record" /\ pc'[t] = "idle" /\ held' = held \cup {run[t]}
        /\ allocSize' = [allocSize EXCEPT ![run[t].first] = run[t].np]
        /\ UNCHANGED <<freeRamFrames, allocTableActive, firstpaddr, bootEnd>>
    BY Zenon, <1>7 DEF getppages
  <2>2. /\ Handed(run[t]) /\ run[t].first >= bootEnd
        /\ allocTableActive
    BY Zenon, <2>1 DEF RunsPlaced, BootSequential
  <2>3. \A u \in Threads : Owning(u)' <=> u # t /\ Owning(u)
    BY Zenon, <2>1
  <2>4. Exclusive'
    <3>1. \A q \in held : Disjoint(run[t], q) /\ Disjoint(q, run[t])
      BY Zenon, <2>1 DEF Exclusive
    <3>2. \A u \in Threads \ {t} : Owning(u) => Disjoint(run[u], run[t])
      BY Zenon, <2>1 DEF Exclusive
    <3> HIDE DEF Disjoint, Owning
    <3> QED
      BY ZenonT(60), <2>1, <2>3, <3>1, <3>2 DEF Exclusive
  <2>5. FreeUnowned'
    <3>1. \A f \in Frames : freeRamFrames[f] => ~ InRun(f, run[t])
      BY Zenon, <2>1 DEF FreeUnowned
    <3> HIDE DEF InRun, Owning
    <3> QED
      BY ZenonT(60), <2>1, <2>3, <3>1 DEF FreeUnowned
  <2>6. NoLeak'
    <3> HIDE DEF InRun, Owning
    <3> QED
      BY ZenonT(60), <2>1, <2>3 DEF NoLeak
  <2>7. SizeRecorded'
    <3>1. ASSUME NEW q \in held PROVE q.first # run[t].first
      <4>0. /\ q.first \in Int /\ q.np \in Int /\ q.np > 0
            /\ run[t].first \in Int /\ run[t].np \in Int /\ run[t].np > 0
        BY <2>2 DEF RunsPlaced
      <4>1. InRun(q.first, q) /\ InRun(run[t].first, run[t])
        <5> HIDE DEF TypeOK, Run, Frames
        <5> QED
          BY <4>0
      <4>2. Disjoint(run[t], q)
        BY Zenon, <2>1 DEF Exclusive
      <4> QED
        BY Zenon, <4>1, <4>2
    <3>2. allocSize'[run[t].first] = run[t].np
      BY Zenon, <2>1
    <3>3. \A q \in held : allocSize'[q.first] = allocSize[q.first]
      BY Zenon, <2>1, <3>1
    <3> QED
      BY ZenonT(60), <2>1, <2>2, <3>2, <3>3 DEF SizeRecorded
  <2>8. RunsPlaced'
    BY ZenonT(60), <2>1, <2>2 DEF RunsPlaced
  <2>9. BootSequential'
    BY <2>1, <2>2 DEF BootSequential
  <2> QED
    BY Zenon, <1>0, <2>4, <2>5, <2>6, <2>7, <2>8, <2>9 DEF IInv
<1>8. ASSUME NEW t \in Threads, NEW r \in held, freeppages(t, r)
      PROVE  IInv'
  <2>1. /\ \A u \in Threads : u # t => run'[u] = run[u] /\ pc'[u] = pc[u]
        /\ pc[t] = "idle" /\ held' = held \ {r}
        /\ UNCHANGED <<freeRamFrames, allocSize, allocTableActive, firstpaddr, bootEnd>>
    BY Zenon, <1>8 DEF freeppages
  <2>2. Handed(r) /\ r.first \in Frames /\ r.np \in Nat
    BY Zenon DEF RunsPlaced
  <2>3. CASE ~ allocTableActive
    <3>1. UNCHANGED <<pc, run>>
      BY Zenon, <1>8, <2>3 DEF freeppages
    <3>2. bootEnd = firstpaddr
      BY Zenon, <2>3 DEF BootSequential
    <3>3. Exclusive' /\ FreeUnowned' /\ SizeRecorded'
      BY ZenonT(60), <2>1, <3>1 DEF Exclusive, FreeUnowned, SizeRecorded
    <3>4. NoLeak'
      BY SMTT(30), <2>1, <3>2 DEF NoLeak
    <3>5. RunsPlaced' /\ BootSequential'
      BY Zenon, <2>1, <3>1 DEF RunsPlaced, BootSequential
    <3> QED
      BY Zenon, <1>0, <3>3, <3>4, <3>5 DEF IInv
  <2>4. CASE allocTableActive
    <3>1. /\ run'[t].first = r.first /\ run'[t].np = allocSize[r.first]
          /\ pc'[t] = "free"
      BY <1>8, <2>4 DEF freeppages
    <3>2. run'[t].np = IF r.first >= bootEnd THEN r.np ELSE 0
      BY Zenon, <2>4, <3>1 DEF SizeRecorded
    <3>3. \A f \in Frames : InRun(f, run'[t]) <=> InRun(f, r) /\ f >= bootEnd
      <4>1. Frames \subseteq Int /\ r.first \in Int /\ r.np \in Int
        BY <2>2
      <4> HIDE DEF TypeOK, Run, Frames
      <4>2. CASE r.first >= bootEnd
        BY ONLY <1>a, <3>1, <3>2, <4>1, <4>2 DEF InRun
      <4>3. CASE r.first < bootEnd
        <5>1. r.first + r.np <= bootEnd
          BY Zenon, <2>2, <4>3
        <5> QED
          BY SMTT(30), <1>a, <3>1, <3>2, <4>1, <4>3, <5>1
      <4>4. r.first >= bootEnd \/ r.first < bootEnd
        BY ONLY <1>a, <4>1
      <4> QED
        BY Zenon, <4>2, <4>3, <4>4
    <3>4. \A u \in Threads : Owning(u)' <=> u = t \/ Owning(u)
      BY Zenon, <2>1, <3>1
    <3>5. Exclusive'
      <4>1. \A q \in held' : Disjoint(run'[t], q)
        BY Zenon, <2>1, <3>3 DEF Exclusive
      <4>2. \A u \in Threads \ {t} : Owning(u) =>
              Disjoint(run'[t], run[u]) /\ Disjoint(run[u], run'[t])
        BY Zenon, <2>1, <3>3 DEF Exclusive
      <4> HIDE DEF Disjoint, Owning
      <4> QED
        BY Zenon, <2>1, <3>4, <4>1, <4>2 DEF Exclusive
    <3>6. FreeUnowned'
      <4> HIDE DEF InRun, Owning
      <4> QED
        BY Zenon, <2>1, <3>3, <3>4 DEF FreeUnowned
    <3>7. NoLeak'
      <4> SUFFICES ASSUME NEW f \in bootEnd .. firstpaddr - 1
                   PROVE  \/ freeRamFrames[f]
                          \/ \E q \in held' : InRun(f, q)
                          \/ \E u \in Threads : Owning(u)' /\ InRun(f, run'[u])
        BY Zenon, <2>1 DEF NoLeak
      <4>1. f \in Frames /\ f >= bootEnd
        OBVIOUS
      <4>2. CASE \E u \in Threads : Owning(u) /\ InRun(f, run[u])
        <5> HIDE DEF InRun
        <5> QED
          BY Zenon, <2>1, <4>2
      <4>3. CASE InRun(f, r)
        <5> HIDE DEF InRun, Owning
        <5> QED
          BY Zenon, <3>3, <3>4, <4>1, <4>3
      <4>4. CASE \E q \in held : q # r /\ InRun(f, q)
        BY Zenon, <2>1, <4>4
      <4> HIDE DEF InRun, Owning
      <4> QED
        BY Zenon, <4>2, <4>3, <4>4 DEF NoLeak
    <3>8. SizeRecorded'
      BY Zenon, <2>1 DEF SizeRecorded
    <3>9. RunsPlaced'
      <4>1. \A q \in Run : Handed(q)' <=> Handed(q)
        BY Zenon, <2>1
      <4>2. \/ Handed(run[t])' /\ run'[t].first >= bootEnd
            \/ run'[t].np = 0
        BY Zenon, <2>1, <2>2, <3>1, <3>2
      <4>3. ASSUME NEW u \in Threads \ {t}
            PROVE
            /\ pc'[u] = "steal" => run'[u].np > 0
            /\ pc'[u] = "record" => Handed(run[u])' /\ run'[u].first >= bootEnd'
            /\ pc'[u] = "free" => \/ Handed(run[u])' /\ run'[u].first >= bootEnd'
                                  \/ run'[u].np = 0
        BY Zenon, <2>1 DEF RunsPlaced
      <4>4. \A q \in held' : Handed(q)'
        BY Zenon, <2>1 DEF RunsPlaced
      <4> HIDE DEF Handed
      <4> QED
        BY Zenon, <2>1, <3>1, <4>2, <4>3, <4>4 DEF RunsPlaced
    <3>10. BootSequential'
      BY Zenon, <2>1, <2>4 DEF BootSequential
    <3> QED
      BY Zenon, <1>0, <3>5, <3>6, <3>7, <3>8, <3>9, <3>10 DEF IInv
  <2> QED
    BY Zenon, <2>3, <2>4
<1>9. ASSUME NEW t \in Threads, freeppages_mark(t)
      PROVE  IInv'
  <2>1. /\ \A u \in Threads : u # t => run'[u] = run[u] /\ pc'[u] = pc[u]
        /\ pc[t] = "free" /\ pc'[t] = "idle"
        /\ UNCHANGED <<allocSize, allocTableActive, firstpaddr, held, bootEnd>>
    BY Zenon, <1>9 DEF freeppages_mark
  <2>2. \A f \in Frames : freeRamFrames'[f] <=> freeRamFrames[f] \/ InRun(f, run[t])
    BY Zenon, <1>9 DEF freeppages_mark
  <2>3. \A u \in Threads : Owning(u)' <=> u # t /\ Owning(u)
    BY Zenon, <2>1
  <2>4. Exclusive'
    <3> HIDE DEF Disjoint, Owning
    <3> QED
      BY Zenon, <2>1, <2>3 DEF Exclusive
  <2>5. FreeUnowned'
    <3> SUFFICES ASSUME NEW f \in Frames, InRun(f, run[t])
                 PROVE  /\ bootEnd <= f /\ f < firstpaddr
                        /\ \A q \in held : ~ InRun(f, q)
                        /\ \A u \in Threads \ {t} : Owning(u) => ~ InRun(f, run[u])
      <4> HIDE DEF InRun, Owning
      <4> QED
        BY Zenon, <2>1, <2>2, <2>3 DEF FreeUnowned
    <3>1. bootEnd <= f /\ f < firstpaddr
      <4>1. run[t].first \in Int /\ run[t].np \in Int
        OBVIOUS
      <4>2. (Handed(run[t]) /\ run[t].first >= bootEnd) \/ run[t].np = 0
        BY Zenon, <2>1 DEF RunsPlaced
      <4> QED
        BY SMTT(60), <4>1, <4>2
    <3>2. \A q \in held : Disjoint(run[t], q)
      BY Zenon, <2>1 DEF Exclusive
    <3>3. \A u \in Threads \ {t} : Owning(u) => Disjoint(run[t], run[u])
      BY Zenon, <2>1 DEF Exclusive
    <3> HIDE DEF InRun, Owning
    <3> QED
      BY Zenon, <3>1, <3>2, <3>3
  <2>6. NoLeak'
    <3>1. bootEnd .. firstpaddr - 1 \subseteq Frames
      OBVIOUS
    <3> HIDE DEF InRun, Owning
    <3> QED
      BY Zenon, <2>1, <2>2, <2>3, <3>1 DEF NoLeak
  <2>7. SizeRecorded'
    BY Zenon, <2>1 DEF SizeRecorded
  <2>8. RunsPlaced'
    BY Zenon, <2>1 DEF RunsPlaced
  <2>9. BootSequential'
    BY Zenon, <2>1 DEF BootSequential
  <2> QED
    BY Zenon, <1>0, <2>4, <2>5, <2>6, <2>7, <2>8, <2>9 DEF IInv
<1>10. CASE UNCHANGED vars
  <2>1. Exclusive'
    BY ZenonT(60), <1>0, <1>10 DEF vars, Exclusive, FreeUnowned, NoLeak, SizeRecorded, RunsPlaced, BootSequential
  <2>2. FreeUnowned'
    BY Zenon, <1>0, <1>10 DEF vars, Exclusive, FreeUnowned, NoLeak, SizeRecorded, RunsPlaced, BootSequential
  <2>3. NoLeak'
    BY Zenon, <1>0, <1>10 DEF vars, Exclusive, FreeUnowned, NoLeak, SizeRecorded, RunsPlaced, BootSequential
  <2>4. SizeRecorded'
    BY Zenon, <1>0, <1>10 DEF vars, Exclusive, FreeUnowned, NoLeak, SizeRecorded, RunsPlaced, BootSequential
  <2>5. RunsPlaced'
    BY Zenon, <1>0, <1>10 DEF vars, Exclusive, FreeUnowned, NoLeak, SizeRecorded, RunsPlaced, BootSequential
  <2>6. BootSequential'
    BY Zenon, <1>0, <1>10 DEF vars, Exclusive, FreeUnowned, NoLeak, SizeRecorded, RunsPlaced, BootSequential
  <2> QED
    BY Zenon, <1>0, <2>1, <2>2, <2>3, <2>4, <2>5, <2>6 DEF IInv
<1> QED
  BY Zenon, <1>1, <1>2, <1>3, <1>4, <1>5, <1>6, <1>7, <1>8, <1>9, <1>10 DEF Next, Step

(* coremap.c, for every size of memory and every interleaving of getppages  *)
(* and freeppages: the inductive invariant holds of every reachable state.  *)
THEOREM Inductive == Spec => []IInv
<1>1. Init => IInv
  BY Zenon, InitIInv
<1>2. IInv /\ [Next]_vars => IInv'
  BY Zenon, StepIInv
<1> QED
  BY <1>1, <1>2, PTL DEF Spec

(* No frame is ever in two hands (getppages, freeppages).                   *)
THEOREM FramesExclusive == Spec => []Exclusive
<1>1. IInv => Exclusive
  BY DEF IInv
<1> QED
  BY <1>1, Inductive, PTL

(* The free table never offers a frame someone owns, nor one of the kernel  *)
(* image or of boot (getfreeppages can hand out any frame it marks).        *)
THEOREM FreeTableSound == Spec => []FreeUnowned
<1>1. IInv => FreeUnowned
  BY DEF IInv
<1> QED
  BY <1>1, Inductive, PTL

(* No frame handed out since boot is lost, although freeppages reads the    *)
(* length of the run outside freemem_lock.                                  *)
THEOREM NothingLeaks == Spec => []NoLeak
<1>1. IInv => NoLeak
  BY DEF IInv
<1> QED
  BY <1>1, Inductive, PTL

=============================================================================
