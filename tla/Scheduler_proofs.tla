------------------------- MODULE Scheduler_proofs --------------------------
(***************************************************************************)
(* Machine-checked proofs about Scheduler, for any set of threads, any     *)
(* quantum and any sleep times.                                            *)
(***************************************************************************)
EXTENDS Scheduler, TLAPS, FiniteSetTheorems

USE SchedulerAssumption DEF Flow

\* The ascending enumeration of a finite set of indices is a finite sequence.
LEMMA AscendingType ==
    ASSUME NEW D, IsFiniteSet(D), NEW q \in Ascending(D)
    PROVE  q \in [1..Cardinality(D) -> D] /\ Cardinality(D) \in Nat
  BY FS_CardinalityType DEF Ascending

\* Picking elements of a sequence of threads gives a sequence of threads.
LEMMA SubseqAtType ==
    ASSUME NEW s \in Seq(Thread), NEW D \in SUBSET DOMAIN s, NEW r \in SubseqAt(s, D)
    PROVE  r \in Seq(Thread)
  <1>1. IsFiniteSet(D)
    <2>1. DOMAIN s = 1..Len(s) /\ Len(s) \in Nat
      OBVIOUS
    <2>2. IsFiniteSet(1..Len(s))
      BY <2>1, FS_Interval
    <2> QED
      BY <2>1, <2>2, FS_Subset
  <1>2. PICK q \in Ascending(D) : r = [i \in 1..Cardinality(D) |-> s[q[i]]]
    BY DEF SubseqAt
  <1>3. q \in [1..Cardinality(D) -> D] /\ Cardinality(D) \in Nat
    BY <1>1, AscendingType
  <1>4. r \in [1..Cardinality(D) -> Thread]
    BY <1>2, <1>3
  <1> QED
    BY <1>3, <1>4

\* check_sleep_list leaves sequences of threads in the ready queue and the sleep list.
LEMMA CheckSleepListType ==
    ASSUME TypeOK, NEW left
    PROVE  Woken(left) \subseteq Seq(Thread) /\ Asleep(left) \subseteq Seq(Thread)
  <1>1. Expired(left) \in SUBSET DOMAIN sleep_list
    BY DEF Expired
  <1> QED
    BY <1>1, SubseqAtType DEF TypeOK, SchedType, Woken, Asleep

-----------------------------------------------------------------------------
(* Types. *)

\* The program counters that the switch code names are program counters.
LEMMA PcNames ==
    /\ {"boot", "run", "off", "clock", "sleep", "block", "dead", "ktss", "pop", "scan",
        "yscan", "ypop", "fetch", "save", "tss", "load", "enlist", "yield", "init",
        "ready", "join", "exit", "kickoff", "new"} \subseteq Pc
    /\ Stale \in Frame
  BY DEF Pc, Waiting, InSection, InBlock, InSwitch, Switching, Stale, Frame

\* The state at boot has its types.
LEMMA InitType == Init => TypeOK
  <1> SUFFICES ASSUME Init PROVE TypeOK
    OBVIOUS
  <1>1. SchedType
    <2>1. join_map = [t \in {} |-> <<>>]
      BY DEF Init
    <2>2. DOMAIN join_map \subseteq Thread /\ join_map \in [DOMAIN join_map -> Seq(Thread)]
      BY <2>1
    <2>3. /\ initialized = FALSE /\ current_thread = Boot
          /\ ready_queue = <<>> /\ sleep_list = <<>>
      BY DEF Init
    <2>4. <<>> \in Seq(Thread)
      OBVIOUS
    <2> QED
      BY <2>2, <2>3, <2>4 DEF SchedType
  <1>4. TimeType
    BY DEF Init, TimeType
  <1>2. sw \in [Flow -> [cur : Flow, next : Flow, rsi : Frame]]
    BY PcNames DEF Init, Idle
  <1>3. old_rsp0 \in [Thread -> Frame] /\ pc \in [Flow -> Pc]
    BY PcNames DEF Init, FirstFrame, Frame
  <1> QED
    BY <1>1, <1>2, <1>3, <1>4 DEF Init, TypeOK, FlowType, Address

\* The address that a switch puts into the TSS is an address.
LEMMA StackAddress ==
    ASSUME NEW t \in Flow
    PROVE  kernel_stack_addr(t) \in Address
  <1>1. (Capacity - 1) * 8 \in Nat
    BY SchedulerAssumption
  <1> QED
    BY <1>1 DEF kernel_stack_addr, Address

\* Switching stacks keeps the types of what it touches.
LEMMA ResumeType ==
    ASSUME FlowType, NEW fr \in Frame, NEW ptrs \in [Thread -> Frame],
           NEW pcs \in [Flow -> Pc], Resume(fr, ptrs, pcs)
    PROVE  /\ cpu' \in Flow
           /\ pc' \in [Flow -> Pc]
           /\ sw' \in [Flow -> [cur : Flow, next : Flow, rsi : Frame]]
           /\ old_rsp0' \in [Thread -> Frame]
           /\ fault' \in {"none", "context", "hang", "panic"}
  <1>1. \A p \in Frame : Overwritten(p, fr) \in Frame
    BY PcNames DEF Overwritten
  <1>2. CASE fr.at = "dead"
    BY <1>2 DEF Resume, FlowType, Stop
  <1>3. CASE fr.at # "dead"
    <2>1. cpu' \in Flow /\ pc' \in [Flow -> Pc] /\ fault' = fault
      BY <1>3 DEF Resume, Frame
    <2>2. old_rsp0' \in [Thread -> Frame]
      BY <1>1, <1>3 DEF Resume
    <2>3. Idle \in [cur : Flow, next : Flow, rsi : Frame]
      BY PcNames DEF Idle
    <2>4. sw' \in [Flow -> [cur : Flow, next : Flow, rsi : Frame]]
      BY <1>1, <1>3, <2>3 DEF Resume, FlowType
    <2> QED
      BY <2>1, <2>2, <2>4 DEF FlowType
  <1> QED
    BY <1>2, <1>3

-----------------------------------------------------------------------------
(* Switching stacks. *)

\* p may be loaded to run thread u when the flows are where pcs says.
Fits(p, u, pcs) ==
    /\ p.at # "dead" => p.stack \in Thread
    /\ p.at \notin Held
    /\ p.at \notin Switching \cup {"dead"} => p.stack = u
    /\ p.at \in Switching => pcs[p.stack] = p.at /\ sw[p.stack].next = u

\* What holds of a frame still holds of it after another stack has been loaded.
LEMMA OverwrittenLeads ==
    ASSUME NEW fr \in Frame, NEW p \in Frame, NEW pcs \in [Flow -> Pc], NEW t, NEW u,
           sw \in [Flow -> [cur : Flow, next : Flow, rsi : Frame]],
           Fits(fr, t, pcs), Fits(p, u, pcs), fr.at # "dead",
           cpu' = fr.stack, pc' = [pcs EXCEPT ![fr.stack] = fr.at],
           \A f \in Flow : f # fr.stack => sw'[f].next = sw[f].next
    PROVE  LeadsTo(Overwritten(p, fr), u)'
  <1>1. CASE p.stack = fr.stack /\ (fr.at = "load" => p.at = "load")
    BY <1>1 DEF Overwritten, LeadsTo, Stale, Held, Switching, InSection, InBlock, InSwitch
  <1>2. CASE ~(p.stack = fr.stack /\ (fr.at = "load" => p.at = "load"))
    <2>1. Overwritten(p, fr) = p
      BY <1>2 DEF Overwritten
    <2>2. p.at \in Switching => p.stack # fr.stack
      BY <1>2 DEF Fits, Switching
    <2>3. p.at \in Switching => pc'[p.stack] = p.at /\ sw'[p.stack].next = u
      BY <2>2 DEF Fits, Frame
    <2> QED
      BY <2>1, <2>2, <2>3 DEF LeadsTo, Fits
  <1> QED
    BY <1>1, <1>2

\* Loading a frame that fits the thread made current keeps the invariant.
LEMMA ResumeInv ==
    ASSUME NEW fr \in Frame, NEW ptrs \in [Thread -> Frame], NEW pcs \in [Flow -> Pc],
           NEW t \in Thread, FlowType, FlowType',
           current_thread' = t, fr.at # "dead", Resume(fr, ptrs, pcs), fault = "none",
           Fits(fr, t, pcs),
           \A u \in Thread : Fits(ptrs[u], u, pcs),
           \A f \in Flow : Fits(sw[f].rsi, sw[f].next, pcs),
           \A f \in Flow : pcs[f] \notin Held,
           \A f \in Flow : pcs[f] \in Switching => sw[f].next \in Thread,
           \A f \in Flow : pcs[f] \in {"fetch", "save"} => sw[f].cur = f,
           pcs[Boot] \in {"boot", "off"}
    PROVE  LockHolderRuns' /\ RunsAsCurrent' /\ SwitchInv'
  <1>1. /\ cpu' = fr.stack
        /\ pc' = [pcs EXCEPT ![fr.stack] = fr.at]
        /\ old_rsp0' = [u \in Thread |-> Overwritten(ptrs[u], fr)]
        /\ sw' = [f \in Flow |->
                    IF f = fr.stack /\ fr.at \notin Switching
                    THEN Idle
                    ELSE [cur |-> sw[f].cur, next |-> sw[f].next,
                          rsi |-> Overwritten(sw[f].rsi, fr)]]
    BY DEF Resume
  <1>2. fr.stack \in Thread /\ fr.stack # Boot
    BY DEF Fits
  <1>3. \A f \in Flow : pc'[f] = IF f = fr.stack THEN fr.at ELSE pcs[f]
    BY <1>1, <1>2
  <1>4. \A f \in Flow : f # fr.stack \/ fr.at \in Switching =>
           sw'[f].cur = sw[f].cur /\ sw'[f].next = sw[f].next
             /\ sw'[f].rsi = Overwritten(sw[f].rsi, fr)
    BY <1>1
  <1>5. fr.at \notin Switching => sw'[fr.stack] = Idle
    BY <1>1, <1>2
  <1>6. \A u \in Thread : LeadsTo(old_rsp0[u], u)'
    <2> SUFFICES ASSUME NEW u \in Thread PROVE LeadsTo(old_rsp0[u], u)'
      OBVIOUS
    <2>1. LeadsTo(Overwritten(ptrs[u], fr), u)'
      BY <1>1, <1>4, OverwrittenLeads DEF FlowType
    <2>2. old_rsp0'[u] = Overwritten(ptrs[u], fr)
      BY <1>1
    <2> QED
      BY <2>1, <2>2 DEF LeadsTo, Overwritten
  <1>7. \A f \in Flow : LeadsTo(sw[f].rsi, sw[f].next)'
    <2> SUFFICES ASSUME NEW f \in Flow PROVE LeadsTo(sw[f].rsi, sw[f].next)'
      OBVIOUS
    <2>1. CASE f = fr.stack /\ fr.at \notin Switching
      BY <1>5, <2>1 DEF LeadsTo, Idle, Stale, Held, Switching, InSection, InBlock, InSwitch
    <2>2. CASE f # fr.stack \/ fr.at \in Switching
      <3>1. PICK p \in Frame, u \in Flow : p = sw[f].rsi /\ u = sw[f].next
        BY DEF FlowType
      <3>2. LeadsTo(Overwritten(p, fr), u)'
        <4>1. Fits(p, u, pcs)
          BY <3>1
        <4>2. \A g \in Flow : g # fr.stack => sw'[g].next = sw[g].next
          BY <1>4
        <4> QED
          BY <1>1, <4>1, <4>2, OverwrittenLeads DEF FlowType
      <3>3. sw'[f].rsi = Overwritten(p, fr) /\ sw'[f].next = u
        BY <1>4, <2>2, <3>1
      <3> QED
        BY <3>2, <3>3 DEF LeadsTo, Overwritten
    <2> QED
      BY <2>1, <2>2
  <1>8. \A f \in Flow : pc'[f] \in Switching =>
           sw'[f].next \in Thread /\ (pc'[f] \in {"fetch", "save"} => sw'[f].cur = f)
    BY <1>2, <1>3, <1>4 DEF Fits, Switching
  <1>9. \A f \in Flow : pc'[f] \notin Held
    BY <1>3 DEF Fits
  <1>10. LockHolderRuns'
    BY <1>9 DEF LockHolderRuns, Held
  <1>11. RunsAsCurrent'
    BY <1>1, <1>2, <1>3 DEF RunsAsCurrent, Fits
  <1>12. SwitchInv'
    <2>1. \A f \in Flow : pc'[f] # "ready"
      BY <1>9 DEF Held, InSection
    <2>2. pc'[cpu'] \in Switching => sw'[cpu'].next = current_thread'
      BY <1>1, <1>2, <1>3, <1>4 DEF Fits
    <2>3. pc'[Boot] \in {"boot", "ready", "off"}
      BY <1>2, <1>3
    <2> QED
      BY <1>6, <1>7, <1>8, <2>1, <2>2, <2>3 DEF SwitchInv, Switching
  <1> QED
    BY <1>10, <1>11, <1>12

-----------------------------------------------------------------------------
(* Steps that stay on their stack. *)

\* Code outside Thread::switch runs as a thread, and as the current one.
LEMMA RunningThread ==
    ASSUME Inv, fault = "none", pc[cpu] \notin Switching \cup {"boot", "ready", "off"}
    PROVE  cpu \in Thread /\ current_thread = cpu
  BY DEF Inv, RunsAsCurrent, SwitchInv, TypeOK, FlowType

\* A thread moves on in its own code, outside Thread::switch and ready().
LEMMA LocalStep ==
    ASSUME Inv, fault = "none", cpu \in Thread, pc[cpu] \notin Switching,
           NEW p \in Pc \ (Switching \cup {"ready"}),
           pc' = [pc EXCEPT ![cpu] = p],
           UNCHANGED <<cpu, current_thread, sw, old_rsp0>>
    PROVE  LockHolderRuns' /\ RunsAsCurrent' /\ SwitchInv'
  <1>1. \A f \in Flow : pc'[f] = IF f = cpu THEN p ELSE pc[f]
    BY DEF Inv, TypeOK, FlowType
  <1>2. LockHolderRuns'
    BY <1>1 DEF Inv, LockHolderRuns
  <1>3. RunsAsCurrent'
    BY DEF Inv, RunsAsCurrent
  <1>4. ASSUME NEW q \in Frame, NEW u, LeadsTo(q, u) PROVE LeadsTo(q, u)'
    BY <1>1, <1>4 DEF LeadsTo, Frame
  <1>5. \A t \in Thread : LeadsTo(old_rsp0[t], t)'
    BY <1>4 DEF Inv, SwitchInv, TypeOK, FlowType
  <1>6. \A f \in Flow : LeadsTo(sw[f].rsi, sw[f].next)'
    BY <1>4 DEF Inv, SwitchInv, TypeOK, FlowType
  <1>7. \A f \in Flow : pc'[f] # "ready"
    BY <1>1 DEF Inv, LockHolderRuns, Held, InSection
  <1>8. /\ \A f \in Flow : pc'[f] \in Switching => sw'[f].next \in Thread
        /\ \A f \in Flow : pc'[f] \in {"fetch", "save"} => sw'[f].cur = f
        /\ pc'[cpu'] \in Switching => sw'[cpu'].next = current_thread'
        /\ pc'[Boot] \in {"boot", "ready", "off"}
    BY <1>1 DEF Inv, SwitchInv, Switching
  <1> QED
    BY <1>2, <1>3, <1>5, <1>6, <1>7, <1>8 DEF SwitchInv

-----------------------------------------------------------------------------
(* The type invariant, action by action. *)

\* A step within the code of one flow keeps the types of the flows.
LEMMA GotoType ==
    ASSUME FlowType, NEW f \in Flow, NEW p \in Pc, Goto(f, p),
           UNCHANGED <<cpu, arg, sw, old_rsp0, tss_rsp0, fault>>
    PROVE  FlowType'
  BY DEF FlowType, Goto

\* Steps of the flow on the CPU.
LEMMA StepType ==
    ASSUME Inv, NEW f \in Flow, Step(f)
    PROVE  TypeOK'
  <1> USE PcNames DEF schedVars, timeVars, flowVars, At, Stop
  <1> HIDE DEF Flow
  <1>0. SchedType /\ TimeType /\ FlowType
    BY DEF Inv, TypeOK
  <1>a. ASSUME fault = "none", cpu = f, pc[f] \notin Switching \cup {"boot", "ready", "off"}
        PROVE  f \in Thread /\ current_thread = f /\ current_thread \in Thread
    BY <1>a, RunningThread
  <1> SUFFICES SchedType' /\ TimeType' /\ FlowType'
    BY DEF TypeOK
  <1>1. CASE Kickoff(f)
    <2>1. SchedType' /\ TimeType'
      BY <1>0, <1>1 DEF Kickoff, SchedType, TimeType
    <2> QED
      BY <1>0, <1>1, <2>1, GotoType DEF Kickoff
  <1>2. CASE SetInit(f)
    <2>1. SchedType' /\ TimeType'
      BY <1>0, <1>2 DEF SetInit, SchedType, TimeType
    <2>2. FlowType'
      BY <1>0, <1>2 DEF SetInit, SchedType, FlowType, Goto
    <2> QED
      BY <2>1, <2>2
  <1>3. CASE KickoffTss(f)
    <2>1. SchedType' /\ TimeType'
      BY <1>0, <1>3 DEF KickoffTss, SchedType, TimeType
    <2>2. FlowType'
      BY <1>0, <1>3, StackAddress DEF KickoffTss, FlowType, Goto, Flow
    <2> QED
      BY <2>1, <2>2
  <1>4. CASE Ready(f)
    <2>1. arg[f] \in Thread
      BY <1>4 DEF Ready, Inv, SwitchInv
    <2>2. SchedType' /\ TimeType'
      BY <1>0, <1>4, <2>1 DEF Ready, SchedType, TimeType
    <2>3. FlowType'
      BY <1>0, <1>4, <2>1 DEF Ready, FlowType, Flow
    <2> QED
      BY <2>2, <2>3
  <1>5. CASE Join(f)
    <2>1. current_thread \in Thread
      BY <1>5, <1>a DEF Join, Switching
    <2>2. TimeType'
      BY <1>0, <1>5 DEF Join, TimeType
    <2>3. CASE arg[f] \in DOMAIN join_map
      <3>1. DOMAIN join_map' = DOMAIN join_map
        BY <1>0, <1>5, <2>3 DEF Join, SchedType
      <3>2. Append(join_map[arg[f]], current_thread) \in Seq(Thread)
        BY <1>0, <2>1, <2>3 DEF SchedType
      <3>3. join_map' \in [DOMAIN join_map -> Seq(Thread)]
        <4>1. join_map' = [join_map EXCEPT ![arg[f]] = Append(join_map[arg[f]], current_thread)]
          BY <1>5, <2>3 DEF Join
        <4> QED
          BY <1>0, <3>2, <4>1 DEF SchedType
      <3>4. SchedType'
        BY <1>0, <1>5, <3>1, <3>3 DEF Join, SchedType
      <3>5. FlowType'
        BY <1>0, <1>5, <2>3, GotoType DEF Join
      <3> QED
        BY <2>2, <3>4, <3>5
    <2>4. CASE arg[f] \notin DOMAIN join_map
      <3>1. SchedType'
        BY <1>0, <1>5, <2>4 DEF Join, SchedType
      <3>2. FlowType'
        BY <1>0, <1>5, <2>4 DEF Join, FlowType
      <3> QED
        BY <2>2, <3>1, <3>2
    <2> QED
      BY <2>3, <2>4
  <1>6. CASE Exit(f)
    <2>1. TimeType'
      BY <1>0, <1>6 DEF Exit, TimeType
    <2>2. CASE current_thread \in DOMAIN join_map
      <3>1. ready_queue' \in Seq(Thread)
        <4>1. join_map[current_thread] \in Seq(Thread)
          BY <1>0, <2>2 DEF SchedType
        <4>2. ready_queue' = ready_queue \o join_map[current_thread]
          BY <1>6, <2>2 DEF Exit
        <4>3. ready_queue \in Seq(Thread)
          BY <1>0 DEF SchedType
        <4> QED
          BY <4>1, <4>2, <4>3
      <3>2. /\ DOMAIN join_map' \subseteq Thread
            /\ join_map' \in [DOMAIN join_map' -> Seq(Thread)]
        BY <1>0, <1>6, <2>2 DEF Exit, SchedType
      <3>3. SchedType'
        BY <1>0, <1>6, <3>1, <3>2 DEF Exit, SchedType
      <3>4. FlowType'
        BY <1>0, <1>6, <2>2, GotoType DEF Exit
      <3> QED
        BY <2>1, <3>3, <3>4
    <2>3. CASE current_thread \notin DOMAIN join_map
      <3>1. SchedType'
        BY <1>0, <1>6, <2>3 DEF Exit, SchedType
      <3>2. FlowType'
        BY <1>0, <1>6, <2>3 DEF Exit, FlowType
      <3> QED
        BY <2>1, <3>1, <3>2
    <2> QED
      BY <2>2, <2>3
  <1>7. ASSUME NEW ms \in SleepTimes, ReadClock(f, ms)
        PROVE  SchedType' /\ TimeType' /\ FlowType'
    <2>1. SchedType'
      BY <1>0, <1>7 DEF ReadClock, SchedType
    <2>2. TimeType'
      BY <1>0, <1>7 DEF ReadClock, TimeType
    <2> QED
      BY <1>0, <1>7, <2>1, <2>2, GotoType DEF ReadClock
  <1>8. ASSUME NEW p \in Pc, NEW q \in Pc, Call(f, p, q)
        PROVE  SchedType' /\ TimeType' /\ FlowType'
    <2>1. SchedType'
      BY <1>0, <1>8 DEF Call, SchedType
    <2>2. TimeType'
      BY <1>0, <1>8 DEF Call, TimeType
    <2> QED
      BY <1>0, <1>8, <2>1, <2>2, GotoType DEF Call
  <1>9. CASE Enlist(f)
    <2>1. current_thread \in Thread
      BY <1>9, <1>a DEF Enlist, Switching
    <2>2. SchedType'
      BY <1>0, <1>9, <2>1 DEF Enlist, SchedType
    <2>3. TimeType'
      BY <1>0, <1>9 DEF Enlist, TimeType
    <2> QED
      BY <1>0, <1>9, <2>2, <2>3, GotoType DEF Enlist
  <1>10. CASE ScanDone(f)
    <2>1. ready_queue' \in Seq(Thread) /\ sleep_list' \in Seq(Thread)
      BY <1>0, <1>10, CheckSleepListType DEF ScanDone, SchedType, TypeOK
    <2>2. SchedType'
      BY <1>0, <1>10, <2>1 DEF ScanDone, SchedType
    <2>3. TimeType'
      BY <1>0, <1>10 DEF ScanDone, TimeType
    <2> QED
      BY <1>0, <1>10, <2>2, <2>3, GotoType DEF ScanDone
  <1>b. ASSUME NEW next \in Thread, Dispatch(f, next),
               UNCHANGED <<cpu, arg, old_rsp0, tss_rsp0, fault>>
        PROVE  FlowType'
    <2>1. next \in Flow /\ current_thread \in Flow
      BY <1>0 DEF SchedType, Flow
    <2> QED
      BY <1>0, <1>b, <2>1 DEF Dispatch, FlowType, Goto
  <1>11. CASE Block(f)
    <2>1. Head(ready_queue) \in Thread /\ Tail(ready_queue) \in Seq(Thread)
      BY <1>0, <1>11 DEF Block, SchedType
    <2>2. AfterBlock(f) \in Pc
      BY DEF AfterBlock
    <2>3. TimeType'
      BY <1>0, <1>11 DEF Block, TimeType
    <2>4. SchedType'
      BY <1>0, <1>11, <2>1 DEF Block, Dispatch, SchedType, Flow
    <2>5. FlowType'
      BY <1>0, <1>11, <2>1, <2>2, <1>b, GotoType DEF Block
    <2> QED
      BY <2>3, <2>4, <2>5
  <1>12. CASE YieldPop(f)
    <2>1. current_thread \in Thread
      BY <1>12, <1>a DEF YieldPop, Switching
    <2>2. TimeType'
      BY <1>0, <1>12 DEF YieldPop, TimeType
    <2>3. CASE ready_queue = <<>>
      <3>1. SchedType'
        BY <1>0, <1>12, <2>3 DEF YieldPop, SchedType
      <3> QED
        BY <1>0, <1>12, <2>2, <2>3, <3>1, GotoType DEF YieldPop
    <2>4. CASE ready_queue # <<>>
      <3>1. Head(ready_queue) \in Thread /\ Tail(ready_queue) \in Seq(Thread)
        BY <1>0, <2>4 DEF SchedType
      <3>2. SchedType'
        <4>1. ready_queue' = Append(Tail(ready_queue), current_thread)
          BY <1>12, <2>4 DEF YieldPop
        <4>2. ready_queue' \in Seq(Thread)
          BY <2>1, <3>1, <4>1
        <4>3. current_thread' \in Flow
          BY <1>12, <2>4, <3>1 DEF YieldPop, Dispatch, Flow
        <4> QED
          BY <1>0, <1>12, <4>2, <4>3 DEF YieldPop, SchedType
      <3>3. FlowType'
        BY <1>12, <2>4, <3>1, <1>b DEF YieldPop
      <3> QED
        BY <2>2, <3>2, <3>3
    <2> QED
      BY <2>3, <2>4
  <1>13. CASE Fetch(f)
    <2>1. sw[f].next \in Thread
      BY <1>13 DEF Fetch, Inv, SwitchInv, Switching
    <2>2. SchedType' /\ TimeType'
      BY <1>0, <1>13 DEF Fetch, SchedType, TimeType
    <2>3. FlowType'
      BY <1>0, <1>13, <2>1 DEF Fetch, FlowType, Goto
    <2> QED
      BY <2>2, <2>3
  <1>14. CASE Save(f)
    <2>1. [stack |-> f, at |-> AfterBlock(f)] \in Frame
      BY DEF AfterBlock, Frame
    <2>2. SchedType' /\ TimeType'
      BY <1>0, <1>14 DEF Save, SchedType, TimeType
    <2>3. FlowType'
      BY <1>0, <1>14, <2>1 DEF Save, FlowType, Goto
    <2> QED
      BY <2>2, <2>3
  <1>15. CASE SetTss(f)
    <2>1. SchedType' /\ TimeType'
      BY <1>0, <1>15 DEF SetTss, SchedType, TimeType
    <2>2. FlowType'
      BY <1>0, <1>15, StackAddress DEF SetTss, FlowType, Goto
    <2> QED
      BY <2>1, <2>2
  <1>16. CASE Load(f)
    <2>1. sw[f].rsi \in Frame /\ [pc EXCEPT ![f] = "off"] \in [Flow -> Pc]
      BY <1>0 DEF FlowType
    <2>2. /\ cpu' \in Flow
          /\ pc' \in [Flow -> Pc]
          /\ sw' \in [Flow -> [cur : Flow, next : Flow, rsi : Frame]]
          /\ old_rsp0' \in [Thread -> Frame]
          /\ fault' \in {"none", "context", "hang", "panic"}
      BY <1>0, <1>16, <2>1, ResumeType DEF Load, FlowType
    <2>3. SchedType' /\ TimeType'
      BY <1>0, <1>16 DEF Load, SchedType, TimeType
    <2>4. FlowType'
      BY <1>0, <1>16, <2>2 DEF Load, FlowType
    <2> QED
      BY <2>3, <2>4
  <1> QED
    BY <1>1, <1>2, <1>3, <1>4, <1>5, <1>6, <1>7, <1>8, <1>9, <1>10, <1>11, <1>12,
       <1>13, <1>14, <1>15, <1>16 DEF Step, LockSleep, LockBlock, ScanStart

\* Calls from a thread's own code.
LEMMA CallsType ==
    ASSUME Inv, NEW f \in Flow, Calls(f)
    PROVE  TypeOK'
  <1> USE PcNames DEF schedVars, timeVars, flowVars, At
  <1>0. SchedType /\ TimeType /\ FlowType
    BY DEF Inv, TypeOK
  <1>1. SchedType' /\ TimeType'
    <2>1. UNCHANGED <<initialized, current_thread, ready_queue, sleep_list, join_map,
                      wakeup_time, phase, pending_incs>>
      BY DEF Calls, CallReady, CallJoin, CallExit, CallYield, CallSleep, Call
    <2> QED
      BY <1>0, <2>1 DEF SchedType, TimeType
  <1>2. FlowType'
    <2>1. CASE CallExit(f) \/ CallYield(f) \/ CallSleep(f)
      BY <1>0, <2>1, GotoType DEF CallExit, CallYield, CallSleep, Call
    <2>2. ASSUME NEW t \in Thread, CallReady(f, t) \/ CallJoin(f, t) PROVE FlowType'
      BY <1>0, <2>2 DEF CallReady, CallJoin, Goto, FlowType
    <2> QED
      BY <2>1, <2>2 DEF Calls
  <1> QED
    BY <1>1, <1>2 DEF TypeOK

\* The start of the first thread.
LEMMA StartType ==
    ASSUME Inv, Start
    PROVE  TypeOK'
  <1> USE PcNames DEF schedVars, timeVars, flowVars, At
  <1>0. SchedType /\ TimeType /\ FlowType
    BY DEF Inv, TypeOK
  <1>1. PICK t \in Thread : t = Head(ready_queue)
    BY <1>0 DEF Start, SchedType
  <1>2. old_rsp0[t] \in Frame /\ [pc EXCEPT ![Boot] = "off"] \in [Flow -> Pc]
    BY <1>0 DEF FlowType
  <1>3. Resume(old_rsp0[t], old_rsp0, [pc EXCEPT ![Boot] = "off"])
    BY <1>1 DEF Start
  <1>4. /\ cpu' \in Flow
        /\ pc' \in [Flow -> Pc]
        /\ sw' \in [Flow -> [cur : Flow, next : Flow, rsi : Frame]]
        /\ old_rsp0' \in [Thread -> Frame]
        /\ fault' \in {"none", "context", "hang", "panic"}
    BY <1>0, <1>2, <1>3, ResumeType DEF FlowType
  <1>5. SchedType'
    <2>1. ready_queue' \in Seq(Thread) /\ current_thread' \in Flow
      BY <1>0, <1>1 DEF Start, SchedType
    <2> QED
      BY <1>0, <2>1 DEF Start, SchedType
  <1>6. TimeType'
    BY <1>0 DEF Start, TimeType
  <1>7. FlowType'
    BY <1>0, <1>4 DEF Start, FlowType
  <1> QED
    BY <1>5, <1>6, <1>7 DEF TypeOK

\* The switch in the timer interrupt.
LEMMA SwitchFromInterruptType ==
    ASSUME SchedType, FlowType, current_thread \in Thread,
           NEW rq \in Seq(Thread), rq # <<>>, SwitchFromInterrupt(rq)
    PROVE  /\ ready_queue' \in Seq(Thread) /\ current_thread' \in Flow
           /\ cpu' \in Flow
           /\ pc' \in [Flow -> Pc]
           /\ sw' \in [Flow -> [cur : Flow, next : Flow, rsi : Frame]]
           /\ old_rsp0' \in [Thread -> Frame]
           /\ tss_rsp0' \in Address
           /\ fault' \in {"none", "context", "hang", "panic"}
  <1>1. PICK next \in Thread : next = Head(rq)
    OBVIOUS
  <1>2. PICK saved \in [Thread -> Frame] :
           saved = [old_rsp0 EXCEPT ![current_thread] = [stack |-> cpu, at |-> pc[cpu]]]
    <2>1. [stack |-> cpu, at |-> pc[cpu]] \in Frame
      BY DEF FlowType, Frame
    <2> QED
      BY <2>1 DEF FlowType
  <1>3. ready_queue' \in Seq(Thread) /\ current_thread' \in Flow
    BY <1>1 DEF SwitchFromInterrupt
  <1>4. CASE TssLocked
    BY <1>2, <1>3, <1>4 DEF SwitchFromInterrupt, FlowType, Stop
  <1>5. CASE ~TssLocked
    <2>1. tss_rsp0' = kernel_stack_addr(next) /\ Resume(old_rsp0[next], saved, pc)
      BY <1>1, <1>2, <1>5 DEF SwitchFromInterrupt
    <2>2. old_rsp0[next] \in Frame /\ pc \in [Flow -> Pc]
      BY DEF FlowType
    <2> QED
      BY <1>3, <2>1, <2>2, ResumeType, StackAddress DEF Flow
  <1> QED
    BY <1>4, <1>5

\* The timer interrupt.
LEMMA TickType ==
    ASSUME Inv, Tick
    PROVE  TypeOK'
  <1> USE DEF schedVars, timeVars, flowVars
  <1>0. SchedType /\ TimeType /\ FlowType
    BY DEF Inv, TypeOK
  <1>1. PICK n \in Nat : n = pending_incs + 1
    BY <1>0 DEF TimeType
  <1>2. TimeType'
    <2>1. phase' = (phase + n) % Quantum /\ pending_incs' = 0 /\ wakeup_time' = Elapse(n)
      BY <1>1 DEF Tick
    <2>2. phase' \in 0..(Quantum - 1)
      BY <1>0, <2>1 DEF TimeType
    <2>3. wakeup_time' \in [Thread -> Nat]
      BY <1>0, <2>1 DEF Elapse, TimeType
    <2> QED
      BY <2>1, <2>2, <2>3 DEF TimeType
  <1>3. UNCHANGED <<initialized, join_map, arg>>
    BY DEF Tick
  <1>4. CASE SwitchThread(Elapse(n))
    <2>1. PICK woken \in Woken(Elapse(n)) :
            LET rq == ready_queue \o woken IN
            CASE rq = <<>> ->
                   UNCHANGED <<current_thread, ready_queue, cpu, pc, sw,
                               old_rsp0, tss_rsp0, fault>>
              [] rq # <<>> /\ current_thread = Boot ->
                   /\ Stop("panic")
                   /\ UNCHANGED <<current_thread, ready_queue, cpu, pc, sw, old_rsp0, tss_rsp0>>
              [] OTHER -> SwitchFromInterrupt(rq)
      BY <1>4 DEF SwitchThread
    <2>2. woken \in Seq(Thread) /\ sleep_list' \in Seq(Thread)
      BY <1>0, <1>4, CheckSleepListType DEF SwitchThread, TypeOK
    <2>3. PICK rq \in Seq(Thread) : rq = ready_queue \o woken
      <3>1. ready_queue \in Seq(Thread)
        BY <1>0 DEF SchedType
      <3>2. ready_queue \o woken \in Seq(Thread)
        BY <2>2, <3>1
      <3> QED
        BY <3>2
    <2>4. CASE rq = <<>>
      BY <1>0, <1>2, <1>3, <2>1, <2>2, <2>3, <2>4 DEF SchedType, FlowType, TypeOK
    <2>5. CASE rq # <<>> /\ current_thread = Boot
      BY <1>0, <1>2, <1>3, <2>1, <2>2, <2>3, <2>5 DEF SchedType, FlowType, TypeOK, Stop
    <2>6. CASE rq # <<>> /\ current_thread # Boot
      <3>1. SwitchFromInterrupt(rq)
        BY <2>1, <2>3, <2>6
      <3>2. current_thread \in Thread
        BY <1>0, <2>6 DEF SchedType
      <3>3. /\ ready_queue' \in Seq(Thread) /\ current_thread' \in Flow
            /\ cpu' \in Flow
            /\ pc' \in [Flow -> Pc]
            /\ sw' \in [Flow -> [cur : Flow, next : Flow, rsi : Frame]]
            /\ old_rsp0' \in [Thread -> Frame]
            /\ tss_rsp0' \in Address
            /\ fault' \in {"none", "context", "hang", "panic"}
        BY <1>0, <2>6, <3>1, <3>2, SwitchFromInterruptType
      <3> QED
        BY <1>0, <1>2, <1>3, <2>2, <3>3 DEF SchedType, FlowType, TypeOK
    <2> QED
      BY <2>4, <2>5, <2>6
  <1>5. CASE UNCHANGED <<current_thread, ready_queue, sleep_list,
                         cpu, pc, sw, old_rsp0, tss_rsp0, fault>>
    BY <1>0, <1>2, <1>3, <1>5 DEF SchedType, FlowType, TypeOK
  <1> QED
    BY <1>1, <1>4, <1>5 DEF Tick

\* Every step keeps every type.
LEMMA NextType ==
    ASSUME Inv, [Next]_vars
    PROVE  TypeOK'
  <1>0. SchedType /\ TimeType /\ FlowType
    BY DEF Inv, TypeOK
  <1>1. CASE TickPending
    <2>1. TimeType'
      BY <1>0, <1>1 DEF TickPending, TimeType
    <2>2. SchedType'
      BY <1>0, <1>1 DEF TickPending, SchedType, schedVars
    <2>3. FlowType'
      BY <1>0, <1>1 DEF TickPending, FlowType, flowVars
    <2> QED
      BY <2>1, <2>2, <2>3 DEF TypeOK
  <1>2. CASE UNCHANGED vars
    BY <1>0, <1>2 DEF SchedType, TimeType, FlowType, TypeOK, vars, schedVars, timeVars, flowVars
  <1> QED
    BY <1>1, <1>2, StartType, StepType, CallsType, TickType DEF Next, Halted

-----------------------------------------------------------------------------
(* The locks and the identity of the running thread, action by action. *)

Ctl == LockHolderRuns /\ RunsAsCurrent /\ (fault = "none" => SwitchInv)

\* When the machine stops where it is, nobody gets a lock or the CPU.
LEMMA StopCtl ==
    ASSUME Inv, fault' # "none", UNCHANGED <<cpu, pc>>
    PROVE  Ctl'
  BY DEF Inv, Ctl, LockHolderRuns, RunsAsCurrent

\* block() and sys_thread_switch enter Thread::switch.
LEMMA DispatchCtl ==
    ASSUME Inv, fault = "none", cpu \in Thread, current_thread = cpu,
           pc[cpu] \notin Switching, NEW next \in Thread, Dispatch(cpu, next),
           UNCHANGED <<cpu, old_rsp0>>
    PROVE  Ctl'
  <1> USE DEF Inv, TypeOK, FlowType
  <1>1. \A f \in Flow : pc'[f] = IF f = cpu THEN "fetch" ELSE pc[f]
    BY DEF Dispatch, Goto
  <1>2. \A f \in Flow : sw'[f] = IF f = cpu
                                 THEN [cur |-> cpu, next |-> next, rsi |-> Stale]
                                 ELSE sw[f]
    BY DEF Dispatch
  <1>3. current_thread' = next
    BY DEF Dispatch
  <1>4. LockHolderRuns'
    BY <1>1 DEF LockHolderRuns, Held, InSection, InBlock, InSwitch
  <1>5. RunsAsCurrent'
    BY <1>1 DEF RunsAsCurrent, Switching
  <1>6. ASSUME NEW q \in Frame, NEW u, LeadsTo(q, u) PROVE LeadsTo(q, u)'
    BY <1>1, <1>2, <1>6 DEF LeadsTo, Frame
  <1>7. \A t \in Thread : LeadsTo(old_rsp0[t], t)'
    BY <1>6 DEF SwitchInv
  <1>8. \A f \in Flow : LeadsTo(sw[f].rsi, sw[f].next)'
    <2> SUFFICES ASSUME NEW f \in Flow PROVE LeadsTo(sw[f].rsi, sw[f].next)'
      OBVIOUS
    <2>1. CASE f = cpu
      BY <1>2, <2>1 DEF LeadsTo, Stale, Held, Switching, InSection, InBlock, InSwitch
    <2>2. CASE f # cpu
      <3>1. PICK p \in Frame, u \in Flow : p = sw[f].rsi /\ u = sw[f].next
        OBVIOUS
      <3>2. LeadsTo(p, u)'
        BY <1>6, <3>1 DEF SwitchInv
      <3>3. sw'[f].rsi = p /\ sw'[f].next = u
        BY <1>2, <2>2, <3>1
      <3> QED
        BY <3>2, <3>3 DEF LeadsTo
    <2> QED
      BY <2>1, <2>2
  <1>9. /\ \A f \in Flow : pc'[f] \in Switching => sw'[f].next \in Thread
        /\ \A f \in Flow : pc'[f] \in {"fetch", "save"} => sw'[f].cur = f
        /\ pc'[cpu'] \in Switching => sw'[cpu'].next = current_thread'
        /\ pc'[Boot] \in {"boot", "ready", "off"}
    BY <1>1, <1>2, <1>3 DEF SwitchInv
  <1>10. \A f \in Flow : pc'[f] # "ready"
    BY <1>1 DEF LockHolderRuns, Held, InSection
  <1> QED
    BY <1>4, <1>5, <1>7, <1>8, <1>9, <1>10 DEF Ctl, SwitchInv

\* A step inside Thread::switch that stays on the stack.
LEMMA SwitchingCtl ==
    ASSUME Inv, fault = "none", fault' = "none", pc[cpu] \in Switching,
           NEW p \in Switching, pc' = [pc EXCEPT ![cpu] = p],
           p \in {"fetch", "save"} => pc[cpu] \in {"fetch", "save"},
           UNCHANGED <<cpu, current_thread, initialized>>,
           TypeOK',
           \A f \in Flow : sw'[f].cur = sw[f].cur /\ sw'[f].next = sw[f].next,
           \A t \in Thread : LeadsTo(old_rsp0'[t], t),
           \A f \in Flow : LeadsTo(sw'[f].rsi, sw[f].next)
    PROVE  Ctl'
  <1> USE DEF Inv, TypeOK, FlowType
  <1>1. \A f \in Flow : pc'[f] = IF f = cpu THEN p ELSE pc[f]
    OBVIOUS
  <1>2. LockHolderRuns'
    BY <1>1 DEF LockHolderRuns, Held, InSection, InBlock, InSwitch, Switching
  <1>3. RunsAsCurrent'
    BY <1>1 DEF RunsAsCurrent
  <1>4. ASSUME NEW q \in Frame, NEW u, LeadsTo(q, u) PROVE LeadsTo(q, u)'
    BY <1>1, <1>4 DEF LeadsTo, Frame
  <1>5. \A t \in Thread : LeadsTo(old_rsp0[t], t)'
    <2> SUFFICES ASSUME NEW t \in Thread PROVE LeadsTo(old_rsp0[t], t)'
      OBVIOUS
    <2>1. PICK q \in Frame : q = old_rsp0'[t]
      OBVIOUS
    <2>2. LeadsTo(q, t)'
      BY <1>4, <2>1
    <2> QED
      BY <2>1, <2>2 DEF LeadsTo
  <1>6. \A f \in Flow : LeadsTo(sw[f].rsi, sw[f].next)'
    <2> SUFFICES ASSUME NEW f \in Flow PROVE LeadsTo(sw[f].rsi, sw[f].next)'
      OBVIOUS
    <2>1. PICK q \in Frame, u \in Flow : q = sw'[f].rsi /\ u = sw[f].next
      OBVIOUS
    <2>2. LeadsTo(q, u)'
      BY <1>4, <2>1
    <2> QED
      BY <2>1, <2>2 DEF LeadsTo
  <1>7. /\ \A f \in Flow : pc'[f] \in Switching => sw'[f].next \in Thread
        /\ \A f \in Flow : pc'[f] \in {"fetch", "save"} => sw'[f].cur = f
        /\ pc'[cpu'] \in Switching => sw'[cpu'].next = current_thread'
        /\ pc'[Boot] \in {"boot", "ready", "off"}
    BY <1>1 DEF SwitchInv, Switching
  <1>8. \A f \in Flow : pc'[f] # "ready"
    BY <1>1 DEF LockHolderRuns, Held, InSection, Switching
  <1> QED
    BY <1>2, <1>3, <1>5, <1>6, <1>7, <1>8 DEF Ctl, SwitchInv

\* ready(): the state is locked, and a thread that has never run is filed.
LEMMA ReadyCtl ==
    ASSUME Inv, NEW f \in Flow,
           Ready(f) \/ \E t \in Thread : CallReady(f, t)
    PROVE  Ctl'
  <1> USE DEF Inv, TypeOK, FlowType, At, Goto
  <1>1. /\ fault = "none" /\ cpu = f /\ pc[f] \in {"ready", "run", "boot"}
        /\ UNCHANGED <<cpu, current_thread, initialized, sw, old_rsp0>>
    BY DEF Ready, CallReady, schedVars
  <1>2. ASSUME NEW q \in Frame, NEW u, LeadsTo(q, u),
               \A g \in Flow : g # cpu /\ pc[g] \in Switching => pc'[g] = pc[g]
        PROVE  LeadsTo(q, u)'
    BY <1>1, <1>2 DEF LeadsTo, Frame
  <1>3. ASSUME \A g \in Flow : g # cpu /\ pc[g] \in Switching => pc'[g] = pc[g]
        PROVE  /\ \A t \in Thread : LeadsTo(old_rsp0[t], t)'
               /\ \A g \in Flow : LeadsTo(sw[g].rsi, sw[g].next)'
    BY <1>1, <1>2, <1>3 DEF SwitchInv
  <1>4. CASE Ready(f)
    <2>1. arg[f] \in Thread /\ pc[arg[f]] = "new" /\ arg[f] # f
      BY <1>1, <1>4 DEF Ready, SwitchInv
    <2>2. \A g \in Flow : pc'[g] = IF g = arg[f] THEN "off"
                                   ELSE IF g = f THEN (IF f = Boot THEN "boot" ELSE "run")
                                   ELSE pc[g]
      BY <1>4, <2>1 DEF Ready
    <2>3. LockHolderRuns' /\ \A g \in Flow : pc'[g] # "ready"
      BY <1>1, <2>2 DEF LockHolderRuns, Held, InSection, InBlock, InSwitch
    <2>4. RunsAsCurrent'
      BY <1>1, <1>4 DEF RunsAsCurrent, Ready, Switching
    <2>5. /\ \A g \in Flow : pc'[g] \in Switching => sw'[g].next \in Thread
          /\ \A g \in Flow : pc'[g] \in {"fetch", "save"} => sw'[g].cur = g
          /\ pc'[cpu'] \in Switching => sw'[cpu'].next = current_thread'
          /\ pc'[Boot] \in {"boot", "ready", "off"}
      BY <1>1, <2>1, <2>2 DEF SwitchInv, Switching
    <2>6. \A g \in Flow : g # cpu /\ pc[g] \in Switching => pc'[g] = pc[g]
      BY <1>1, <2>1, <2>2 DEF Switching
    <2> QED
      BY <1>3, <2>3, <2>4, <2>5, <2>6 DEF Ctl, SwitchInv
  <1>5. ASSUME NEW t \in Thread, CallReady(f, t) PROVE Ctl'
    <2>1. \A g \in Flow : pc'[g] = IF g = f THEN "ready" ELSE pc[g]
      BY <1>5 DEF CallReady
    <2>2. arg'[f] = t /\ pc[t] = "new" /\ t # f
      BY <1>1, <1>5 DEF CallReady
    <2>3. LockHolderRuns'
      BY <1>1, <2>1 DEF LockHolderRuns
    <2>4. RunsAsCurrent'
      BY <1>1, <1>5 DEF RunsAsCurrent, CallReady, Switching
    <2>5. \A g \in Flow : pc'[g] = "ready" => arg'[g] \in Thread /\ pc'[arg'[g]] = "new"
      BY <1>1, <2>1, <2>2 DEF LockHolderRuns, Held, InSection
    <2>6. /\ \A g \in Flow : pc'[g] \in Switching => sw'[g].next \in Thread
          /\ \A g \in Flow : pc'[g] \in {"fetch", "save"} => sw'[g].cur = g
          /\ pc'[cpu'] \in Switching => sw'[cpu'].next = current_thread'
          /\ pc'[Boot] \in {"boot", "ready", "off"}
      BY <1>1, <2>1 DEF SwitchInv, Switching
    <2>7. \A g \in Flow : g # cpu /\ pc[g] \in Switching => pc'[g] = pc[g]
      BY <1>1, <2>1
    <2> QED
      BY <1>3, <2>3, <2>4, <2>5, <2>6, <2>7 DEF Ctl, SwitchInv
  <1> QED
    BY <1>4, <1>5

\* Loading the frame of the next thread, at the end of thread_switch.
LEMMA LoadCtl ==
    ASSUME Inv, NEW f \in Flow, Load(f), TypeOK'
    PROVE  Ctl'
  <1> USE DEF Inv, TypeOK, FlowType
  <1>1. /\ fault = "none" /\ cpu = f /\ pc[f] = "load"
        /\ current_thread' = current_thread
    BY DEF Load, At, schedVars
  <1>2. PICK fr \in Frame : fr = sw[f].rsi
    OBVIOUS
  <1>3. PICK pcs \in [Flow -> Pc] : pcs = [pc EXCEPT ![f] = "off"]
    BY PcNames
  <1>4. Resume(fr, old_rsp0, pcs)
    BY <1>2, <1>3 DEF Load
  <1>5. CASE fr.at = "dead"
    BY <1>4, <1>5, StopCtl DEF Resume, Stop
  <1>6. CASE fr.at # "dead"
    <2>1. PICK t \in Thread : t = sw[f].next /\ current_thread' = t
      BY <1>1 DEF SwitchInv, Switching
    <2>2. \A g \in Flow : pcs[g] = IF g = f THEN "off" ELSE pc[g]
      BY <1>3
    <2>3. ASSUME NEW p \in Frame, NEW u, LeadsTo(p, u) PROVE Fits(p, u, pcs)
      BY <1>1, <2>2, <2>3 DEF LeadsTo, Fits, Frame
    <2>4. Fits(fr, t, pcs)
      BY <1>1, <1>2, <2>1, <2>3 DEF SwitchInv
    <2>5. \A u \in Thread : Fits(old_rsp0[u], u, pcs)
      BY <1>1, <2>3 DEF SwitchInv
    <2>6. \A g \in Flow : Fits(sw[g].rsi, sw[g].next, pcs)
      BY <1>1, <2>3 DEF SwitchInv
    <2>7. \A g \in Flow : pcs[g] \notin Held
      BY <1>1, <2>2 DEF LockHolderRuns, Held, InSection, InBlock, InSwitch
    <2>8. /\ \A g \in Flow : pcs[g] \in Switching => sw[g].next \in Thread
          /\ \A g \in Flow : pcs[g] \in {"fetch", "save"} => sw[g].cur = g
      BY <1>1, <2>2 DEF SwitchInv, Switching
    <2>9. pcs[Boot] \in {"boot", "off"}
      BY <1>1, <2>2, <2>7 DEF SwitchInv, Held, InSection
    <2> QED
      BY <1>1, <1>4, <1>6, <2>1, <2>4, <2>5, <2>6, <2>7, <2>8, <2>9, ResumeInv DEF Ctl
  <1> QED
    BY <1>5, <1>6

\* The boot flow leaves for the first thread.
LEMMA StartCtl ==
    ASSUME Inv, Start, TypeOK'
    PROVE  Ctl'
  <1> USE DEF Inv, TypeOK, FlowType
  <1>1. fault = "none" /\ cpu = Boot /\ pc[Boot] = "boot"
    BY DEF Start, At
  <1>2. PICK t \in Thread : t = Head(ready_queue) /\ current_thread' = t
    BY DEF Start, SchedType
  <1>3. PICK pcs \in [Flow -> Pc] : pcs = [pc EXCEPT ![Boot] = "off"]
    BY PcNames
  <1>4. PICK fr \in Frame : fr = old_rsp0[t]
    OBVIOUS
  <1>5. Resume(fr, old_rsp0, pcs)
    BY <1>2, <1>3, <1>4 DEF Start
  <1>6. CASE fr.at = "dead"
    BY <1>5, <1>6, StopCtl DEF Resume, Stop
  <1>7. CASE fr.at # "dead"
    <2>1. \A g \in Flow : pcs[g] = IF g = Boot THEN "off" ELSE pc[g]
      BY <1>3
    <2>2. ASSUME NEW p \in Frame, NEW u, LeadsTo(p, u) PROVE Fits(p, u, pcs)
      BY <1>1, <2>1, <2>2 DEF LeadsTo, Fits, Frame
    <2>3. \A u \in Thread : Fits(old_rsp0[u], u, pcs)
      BY <1>1, <2>2 DEF SwitchInv
    <2>4. \A g \in Flow : Fits(sw[g].rsi, sw[g].next, pcs)
      BY <1>1, <2>2 DEF SwitchInv
    <2>5. \A g \in Flow : pcs[g] \notin Held
      BY <1>1, <2>1 DEF LockHolderRuns, Held, InSection, InBlock, InSwitch
    <2>6. /\ \A g \in Flow : pcs[g] \in Switching => sw[g].next \in Thread
          /\ \A g \in Flow : pcs[g] \in {"fetch", "save"} => sw[g].cur = g
      BY <1>1, <2>1 DEF SwitchInv, Switching
    <2>7. pcs[Boot] \in {"boot", "off"} /\ Fits(fr, t, pcs)
      BY <1>4, <2>1, <2>3
    <2> QED
      BY <1>1, <1>2, <1>5, <1>7, <2>3, <2>4, <2>5, <2>6, <2>7, ResumeInv DEF Ctl
  <1> QED
    BY <1>6, <1>7

\* Steps of the flow on the CPU.
LEMMA StepCtl ==
    ASSUME Inv, NEW f \in Flow, Step(f), TypeOK'
    PROVE  Ctl'
  <1> USE DEF At, Goto, schedVars
  <1>0. FlowType /\ FlowType'
    BY DEF Inv, TypeOK
  <1>1. ASSUME fault = "none", fault' = "none", cpu = f, pc[f] \notin Switching \cup {"boot", "ready", "off"},
               NEW p \in Pc \ (Switching \cup {"ready"}), pc' = [pc EXCEPT ![f] = p],
               UNCHANGED <<cpu, current_thread, sw, old_rsp0>>
        PROVE  Ctl'
    BY <1>1, RunningThread, LocalStep DEF Ctl
  <1>2. ASSUME fault = "none", cpu = f, pc[f] \in {"pop", "ypop"},
               NEW next \in Thread, Dispatch(f, next), UNCHANGED <<cpu, old_rsp0>>
        PROVE  Ctl'
    <2>1. cpu \in Thread /\ current_thread = cpu /\ pc[cpu] \notin Switching
      BY <1>2, RunningThread DEF Switching
    <2> QED
      BY <1>2, <2>1, DispatchCtl
  <1>3. CASE Kickoff(f) \/ SetInit(f) \/ KickoffTss(f)
    BY <1>1, <1>3, PcNames DEF Kickoff, SetInit, KickoffTss, Switching
  <1>4. CASE Ready(f)
    BY <1>4, ReadyCtl
  <1>5. CASE Join(f)
    <2>1. CASE arg[f] \in DOMAIN join_map
      BY <1>1, <1>5, <2>1, PcNames DEF Join, Switching
    <2>2. CASE arg[f] \notin DOMAIN join_map
      BY <1>5, <2>2, StopCtl DEF Join, Stop
    <2> QED
      BY <2>1, <2>2
  <1>6. CASE Exit(f)
    <2>1. CASE current_thread \in DOMAIN join_map
      BY <1>1, <1>6, <2>1, PcNames DEF Exit, Switching
    <2>2. CASE current_thread \notin DOMAIN join_map
      BY <1>6, <2>2, StopCtl DEF Exit, Stop
    <2> QED
      BY <2>1, <2>2
  <1>7. CASE (\E ms \in SleepTimes : ReadClock(f, ms)) \/ Enlist(f)
    BY <1>1, <1>7, PcNames DEF ReadClock, Enlist, Switching
  <1>8. CASE LockSleep(f) \/ LockBlock(f) \/ ScanStart(f)
    BY <1>1, <1>8, PcNames DEF LockSleep, LockBlock, ScanStart, Call, Switching
  <1>9. CASE ScanDone(f)
    BY <1>1, <1>9, PcNames DEF ScanDone, Switching
  <1>10. CASE Block(f)
    <2>1. Head(ready_queue) \in Thread
      BY <1>10 DEF Block, Inv, TypeOK, SchedType
    <2>2. CASE Head(ready_queue) = current_thread
      <3>1. AfterBlock(f) \in Pc \ (Switching \cup {"ready"})
        BY PcNames DEF AfterBlock, Switching
      <3> QED
        BY <1>1, <1>10, <2>2, <3>1 DEF Block, Switching
    <2>3. CASE Head(ready_queue) # current_thread
      BY <1>2, <1>10, <2>1, <2>3 DEF Block
    <2> QED
      BY <2>2, <2>3
  <1>11. CASE YieldPop(f)
    <2>1. CASE ready_queue = <<>>
      BY <1>1, <1>11, <2>1, PcNames DEF YieldPop, Switching
    <2>2. CASE ready_queue # <<>>
      <3>1. Head(ready_queue) \in Thread
        BY <2>2 DEF Inv, TypeOK, SchedType
      <3> QED
        BY <1>2, <1>11, <2>2, <3>1 DEF YieldPop
    <2> QED
      BY <2>1, <2>2
  <1>12. CASE Fetch(f)
    <2>1. /\ fault = "none" /\ fault' = "none" /\ cpu = f /\ pc[f] = "fetch"
          /\ UNCHANGED <<cpu, current_thread, initialized, old_rsp0>>
          /\ pc' = [pc EXCEPT ![f] = "save"]
      BY <1>12 DEF Fetch
    <2>2. \A g \in Flow : /\ sw'[g].cur = sw[g].cur /\ sw'[g].next = sw[g].next
                          /\ sw'[g].rsi = IF g = f THEN old_rsp0[sw[f].next] ELSE sw[g].rsi
      BY <1>0, <1>12 DEF Fetch, FlowType
    <2>3. sw[f].next \in Thread /\ \A t \in Thread : LeadsTo(old_rsp0[t], t)
      BY <2>1 DEF Inv, SwitchInv, Switching
    <2>4. \A g \in Flow : LeadsTo(sw'[g].rsi, sw[g].next)
      BY <2>1, <2>2, <2>3 DEF Inv, SwitchInv
    <2> QED
      BY <2>1, <2>2, <2>3, <2>4, SwitchingCtl DEF Switching
  <1>13. CASE Save(f)
    <2>1. /\ fault = "none" /\ fault' = "none" /\ cpu = f /\ pc[f] = "save"
          /\ UNCHANGED <<cpu, current_thread, initialized, sw>>
          /\ pc' = [pc EXCEPT ![f] = "tss"]
      BY <1>13 DEF Save
    <2>2. sw[f].cur = f /\ f \in Thread
      BY <2>1 DEF Inv, SwitchInv
    <2>3. \A t \in Thread : old_rsp0'[t] = IF t = f THEN [stack |-> f, at |-> AfterBlock(f)]
                                           ELSE old_rsp0[t]
      BY <1>0, <1>13, <2>2 DEF Save, FlowType
    <2>4. LeadsTo([stack |-> f, at |-> AfterBlock(f)], f)
      BY <2>2 DEF LeadsTo, AfterBlock, Held, InSection, InBlock, InSwitch, Switching
    <2>5. \A t \in Thread : LeadsTo(old_rsp0'[t], t)
      BY <2>1, <2>3, <2>4 DEF Inv, SwitchInv
    <2>6. \A g \in Flow : LeadsTo(sw'[g].rsi, sw[g].next)
      BY <2>1 DEF Inv, SwitchInv
    <2> QED
      BY <2>1, <2>5, <2>6, SwitchingCtl DEF Switching
  <1>14. CASE SetTss(f)
    <2>1. /\ fault = "none" /\ fault' = "none" /\ cpu = f /\ pc[f] = "tss"
          /\ UNCHANGED <<cpu, current_thread, initialized, sw, old_rsp0>>
          /\ pc' = [pc EXCEPT ![f] = "load"]
      BY <1>14 DEF SetTss
    <2>2. /\ \A t \in Thread : LeadsTo(old_rsp0'[t], t)
          /\ \A g \in Flow : LeadsTo(sw'[g].rsi, sw[g].next)
      BY <2>1 DEF Inv, SwitchInv
    <2> QED
      BY <2>1, <2>2, SwitchingCtl DEF Switching
  <1>15. CASE Load(f)
    BY <1>15, LoadCtl
  <1> QED
    BY <1>3, <1>4, <1>5, <1>6, <1>7, <1>8, <1>9, <1>10, <1>11, <1>12, <1>13, <1>14,
       <1>15 DEF Step

\* Calls from a thread's own code.
LEMMA CallsCtl ==
    ASSUME Inv, NEW f \in Flow, Calls(f)
    PROVE  Ctl'
  <1>1. CASE \E t \in Thread : CallReady(f, t)
    BY <1>1, ReadyCtl
  <1>2. CASE (\E t \in Thread : CallJoin(f, t)) \/ CallExit(f) \/ CallYield(f) \/ CallSleep(f)
    <2>1. /\ fault = "none" /\ fault' = "none" /\ cpu = f /\ pc[f] = "run"
          /\ UNCHANGED <<cpu, current_thread, sw, old_rsp0>>
          /\ \E p \in {"join", "exit", "yield", "clock"} : pc' = [pc EXCEPT ![f] = p]
      BY <1>2 DEF CallJoin, CallExit, CallYield, CallSleep, Call, At, Goto, schedVars
    <2>2. PICK p \in {"join", "exit", "yield", "clock"} : pc' = [pc EXCEPT ![f] = p]
      BY <2>1
    <2>3. cpu \in Thread /\ pc[cpu] \notin Switching
      BY <2>1, RunningThread DEF Switching
    <2>4. p \in Pc \ (Switching \cup {"ready"})
      BY PcNames DEF Switching
    <2> QED
      BY <2>1, <2>2, <2>3, <2>4, LocalStep DEF Ctl
  <1> QED
    BY <1>1, <1>2 DEF Calls

\* The switch in the timer interrupt: the interrupted flow is saved under the name
\* of the current thread, which is its own or the one it was switching to.
LEMMA SwitchFromInterruptCtl ==
    ASSUME Inv, TypeOK', fault = "none", initialized, current_thread \in Thread,
           pc[cpu] \notin Held \/ TssLocked,
           NEW rq \in Seq(Thread), rq # <<>>, SwitchFromInterrupt(rq)
    PROVE  Ctl'
  <1> USE DEF Inv, TypeOK, FlowType
  <1>1. CASE TssLocked
    BY <1>1, StopCtl DEF SwitchFromInterrupt, Stop
  <1>2. CASE ~TssLocked
    <2>1. PICK t \in Thread : t = Head(rq) /\ current_thread' = t
      BY DEF SwitchFromInterrupt
    <2>2. PICK own \in Frame : own = [stack |-> cpu, at |-> pc[cpu]]
      BY DEF Frame
    <2>3. PICK saved \in [Thread -> Frame] : saved = [old_rsp0 EXCEPT ![current_thread] = own]
      OBVIOUS
    <2>4. PICK fr \in Frame : fr = old_rsp0[t]
      OBVIOUS
    <2>5. Resume(fr, saved, pc)
      BY <1>2, <2>1, <2>2, <2>3, <2>4 DEF SwitchFromInterrupt
    <2>6. CASE fr.at = "dead"
      BY <2>5, <2>6, StopCtl DEF Resume, Stop
    <2>7. CASE fr.at # "dead"
      <3>1. cpu \in Thread /\ \A g \in Flow : pc[g] \notin Held
        BY <1>2 DEF RunsAsCurrent, LockHolderRuns
      <3>2. ASSUME NEW p, NEW u, LeadsTo(p, u) PROVE Fits(p, u, pc)
        BY <3>2 DEF LeadsTo, Fits
      <3>3. Fits(own, current_thread, pc)
        BY <2>2, <3>1 DEF Fits, RunsAsCurrent, SwitchInv
      <3>4. \A u \in Thread : Fits(saved[u], u, pc)
        BY <2>3, <3>2, <3>3 DEF SwitchInv
      <3>5. Fits(fr, t, pc) /\ \A g \in Flow : Fits(sw[g].rsi, sw[g].next, pc)
        BY <2>4, <3>2 DEF SwitchInv
      <3>6. pc[Boot] \in {"boot", "off"}
        BY <3>1 DEF SwitchInv, Held, InSection
      <3>7. /\ \A g \in Flow : pc[g] \in Switching => sw[g].next \in Thread
            /\ \A g \in Flow : pc[g] \in {"fetch", "save"} => sw[g].cur = g
        BY DEF SwitchInv
      <3> QED
        BY <2>1, <2>5, <2>7, <3>1, <3>4, <3>5, <3>6, <3>7, ResumeInv DEF Ctl
    <2> QED
      BY <2>6, <2>7
  <1> QED
    BY <1>1, <1>2

\* What the timer interrupt does: advance the clock only, panic, or switch away
\* from a flow without the state mutex or a read lock of the timer.
LEMMA TickCases ==
    ASSUME Inv, Tick
    PROVE  /\ fault = "none" /\ UNCHANGED <<initialized, arg>>
           /\ \/ UNCHANGED <<current_thread, cpu, pc, sw, old_rsp0, tss_rsp0, fault>>
              \/ fault' = "panic" /\ UNCHANGED <<cpu, pc>>
              \/ /\ initialized /\ current_thread \in Thread
                 /\ pc[cpu] \notin Held \/ TssLocked
                 /\ \E rq \in Seq(Thread) : rq # <<>> /\ SwitchFromInterrupt(rq)
  <1>1. fault = "none" /\ UNCHANGED <<initialized, arg>>
    BY DEF Tick
  <1>2. ASSUME NEW left, Reschedules((phase + (pending_incs + 1)) % Quantum), SwitchThread(left)
        PROVE  \/ UNCHANGED <<current_thread, cpu, pc, sw, old_rsp0, tss_rsp0, fault>>
               \/ fault' = "panic" /\ UNCHANGED <<cpu, pc>>
               \/ /\ initialized /\ current_thread \in Thread
                  /\ pc[cpu] \notin Held \/ TssLocked
                  /\ \E rq \in Seq(Thread) : rq # <<>> /\ SwitchFromInterrupt(rq)
    <2>1. PICK woken \in Woken(left) :
            LET rq == ready_queue \o woken IN
            CASE rq = <<>> ->
                   UNCHANGED <<current_thread, ready_queue, cpu, pc, sw,
                               old_rsp0, tss_rsp0, fault>>
              [] rq # <<>> /\ current_thread = Boot ->
                   /\ Stop("panic")
                   /\ UNCHANGED <<current_thread, ready_queue, cpu, pc, sw, old_rsp0, tss_rsp0>>
              [] OTHER -> SwitchFromInterrupt(rq)
      BY <1>2 DEF SwitchThread
    <2>2. woken \in Seq(Thread) /\ ready_queue \in Seq(Thread)
      BY CheckSleepListType DEF Inv, TypeOK, SchedType
    <2>3. PICK rq \in Seq(Thread) : rq = ready_queue \o woken
      <3>1. ready_queue \o woken \in Seq(Thread)
        BY <2>2
      <3> QED
        BY <3>1
    <2>4. CASE rq = <<>>
      BY <2>1, <2>3, <2>4
    <2>5. CASE rq # <<>> /\ current_thread = Boot
      BY <2>1, <2>3, <2>5 DEF Stop
    <2>6. CASE rq # <<>> /\ current_thread # Boot
      <3>1. SwitchFromInterrupt(rq)
        BY <2>1, <2>3, <2>6
      <3>2. current_thread \in Thread /\ cpu \in Flow
        BY <2>6 DEF Inv, TypeOK, SchedType, FlowType
      <3>3. initialized /\ (pc[cpu] \notin Held \/ TssLocked)
        BY <1>2, <3>2 DEF Tick, Reschedules, StateLocked, TimerRead, TssLocked, Held
      <3> QED
        BY <2>6, <3>1, <3>2, <3>3
    <2> QED
      BY <2>4, <2>5, <2>6
  <1> QED
    BY <1>1, <1>2 DEF Tick

\* The timer interrupt.
LEMMA TickCtl ==
    ASSUME Inv, Tick, TypeOK'
    PROVE  Ctl'
  <1>1. CASE UNCHANGED <<current_thread, cpu, pc, sw, old_rsp0, fault>>
    BY <1>1, TickCases DEF Inv, Ctl, LockHolderRuns, RunsAsCurrent, SwitchInv, LeadsTo
  <1> QED
    BY <1>1, TickCases, StopCtl, SwitchFromInterruptCtl

-----------------------------------------------------------------------------

\* The invariant holds at boot.
LEMMA InitInv == Init => Inv
  <1> SUFFICES ASSUME Init PROVE Inv
    OBVIOUS
  <1> USE DEF Init, Held, Switching, InSection, InBlock, InSwitch
  <1>1. LockHolderRuns /\ RunsAsCurrent
    BY DEF LockHolderRuns, RunsAsCurrent
  <1>2. SwitchInv
    BY DEF SwitchInv, LeadsTo, FirstFrame, Idle, Stale
  <1> QED
    BY <1>1, <1>2, InitType DEF Inv

\* Every step of the scheduler keeps the invariant.
LEMMA NextInv == Inv /\ [Next]_vars => Inv'
  <1> SUFFICES ASSUME Inv, [Next]_vars PROVE Inv'
    OBVIOUS
  <1>1. TypeOK'
    BY NextType
  <1>2. CASE TickPending \/ UNCHANGED vars
    BY <1>1, <1>2 DEF TickPending, Inv, LockHolderRuns, RunsAsCurrent, SwitchInv, LeadsTo,
                      vars, schedVars, timeVars, flowVars
  <1>3. Ctl' => Inv'
    BY <1>1 DEF Ctl, Inv
  <1> QED
    BY <1>1, <1>2, <1>3, StartCtl, StepCtl, CallsCtl, TickCtl DEF Next, Halted

\* TypeOK is an invariant of the scheduler, the timer handler and the switch code.
THEOREM TypeCorrect == Spec => []TypeOK
  <1>1. Inv => TypeOK
    BY DEF Inv
  <1> QED
    BY <1>1, InitInv, NextInv, PTL DEF Spec

\* No flow waits for the CPU with the state mutex, the timer's read lock or the
\* TSS mutex: the scheduler cannot deadlock on its own spin locks, for any number
\* of threads, however the timer interrupts them.
THEOREM LockHoldersRun == Spec => []LockHolderRuns
  <1>1. Inv => LockHolderRuns
    BY DEF Inv
  <1> QED
    BY <1>1, InitInv, NextInv, PTL DEF Spec

\* Outside Thread::switch the CPU always runs on the stack of current_thread, for
\* any number of threads and preemptions at any instruction.
THEOREM RunningIsCurrent == Spec => []RunsAsCurrent
  <1>1. Inv => RunsAsCurrent
    BY DEF Inv
  <1> QED
    BY <1>1, InitInv, NextInv, PTL DEF Spec

-----------------------------------------------------------------------------
(* The TSS. *)

\* Loading a frame for the thread whose address the TSS already has.
LEMMA ResumeTss ==
    ASSUME Inv, Inv', TssInv, fault = "none", NEW fr \in Frame, NEW ptrs, NEW pcs \in [Flow -> Pc],
           Resume(fr, ptrs, pcs), NEW t \in Thread, LeadsTo(fr, t),
           \A f \in Flow : pcs[f] = "ktss" => pc[f] = "ktss", arg' = arg,
           \/ tss_rsp0' = kernel_stack_addr(current_thread')
           \/ fr.at = "kickoff"
    PROVE  TssInv'
  <1>1. CASE fr.at = "dead"
    BY <1>1 DEF Resume, Stop, TssInv
  <1>2. CASE fr.at # "dead"
    <2>1. /\ fr.stack \in Thread /\ cpu' = fr.stack
          /\ pc' = [pcs EXCEPT ![fr.stack] = fr.at] /\ fr.at # "ktss"
      BY <1>2 DEF Resume, LeadsTo, Held
    <2>2. \A f \in Flow : pc'[f] = IF f = fr.stack THEN fr.at ELSE pcs[f]
      BY <2>1
    <2> QED
      BY <2>1, <2>2 DEF TssInv
  <1> QED
    BY <1>1, <1>2

\* Every step keeps the TSS in step with the current thread.
LEMMA NextTss ==
    ASSUME Inv, Inv', TssInv, [Next]_vars
    PROVE  TssInv'
  <1> USE DEF At, Goto, schedVars, timeVars, flowVars, vars
  <1>0. FlowType /\ FlowType' /\ SchedType
    BY DEF Inv, TypeOK
  <1>1. CASE Start
    <2>1. PICK t \in Thread : t = Head(ready_queue)
      BY <1>0, <1>1 DEF Start, SchedType
    <2>2. /\ fault = "none" /\ cpu = Boot /\ arg' = arg
          /\ Resume(old_rsp0[t], old_rsp0, [pc EXCEPT ![Boot] = "off"])
      BY <1>1, <2>1 DEF Start
    <2>3. old_rsp0[t] \in Frame /\ LeadsTo(old_rsp0[t], t) /\ old_rsp0[t].at = "kickoff"
      BY <1>0, <2>2 DEF Inv, SwitchInv, TssInv, FlowType, FirstFrame
    <2>4. /\ [pc EXCEPT ![Boot] = "off"] \in [Flow -> Pc]
          /\ \A f \in Flow : [pc EXCEPT ![Boot] = "off"][f] = "ktss" => pc[f] = "ktss"
      BY <1>0, PcNames DEF FlowType
    <2> QED
      BY <2>2, <2>3, <2>4, ResumeTss
  <1>2. ASSUME NEW f \in Flow, Step(f) PROVE TssInv'
    <2>a. ASSUME fault = "none", cpu = f, NEW p \in Pc, p # "ktss", pc' = [pc EXCEPT ![f] = p],
                 \A g \in Flow \ {f} : arg'[g] = arg[g], UNCHANGED cpu,
                 cpu = Boot => old_rsp0' = old_rsp0,
                 \/ p \in {"init", "fetch", "save", "tss"}
                 \/ f = Boot
                 \/ tss_rsp0' = kernel_stack_addr(current_thread')
          PROVE  TssInv'
      <3>1. \A g \in Flow : pc'[g] = IF g = f THEN p ELSE pc[g]
        BY <1>0, <2>a DEF FlowType
      <3> QED
        BY <2>a, <3>1 DEF TssInv
    <2>b. ASSUME fault = "none", cpu = f,
                 pc[f] \notin {"kickoff", "init", "ktss", "fetch", "save", "tss"}
          PROVE  f = Boot \/ tss_rsp0 = kernel_stack_addr(current_thread)
      BY <2>b DEF TssInv
    <2>1. CASE Kickoff(f)
      BY <2>1, <2>a, PcNames DEF Kickoff
    <2>2. CASE SetInit(f)
      <3>1. fault = "none" /\ cpu = f /\ pc[f] = "init"
        BY <2>2 DEF SetInit
      <3>2. current_thread = f /\ f \in Thread
        BY <3>1, RunningThread DEF Switching
      <3>3. /\ \A g \in Flow : pc'[g] = IF g = f THEN "ktss" ELSE pc[g]
            /\ \A g \in Flow : arg'[g] = IF g = f THEN f ELSE arg[g]
            /\ cpu' = f
        BY <1>0, <2>2, <3>1, <3>2 DEF SetInit, FlowType
      <3> QED
        BY <3>1, <3>2, <3>3 DEF TssInv
    <2>3. CASE KickoffTss(f)
      <3>1. fault = "none" /\ cpu = f /\ pc[f] = "ktss"
        BY <2>3 DEF KickoffTss
      <3>2. current_thread = f /\ arg[f] = f
        BY <3>1, RunningThread DEF Switching, TssInv
      <3>3. tss_rsp0' = kernel_stack_addr(current_thread')
        BY <2>3, <3>2 DEF KickoffTss
      <3>4. \A g \in Flow \ {f} : arg'[g] = arg[g]
        BY <1>0, <2>3 DEF KickoffTss, FlowType
      <3> QED
        BY <2>3, <2>a, <3>1, <3>3, <3>4, PcNames DEF KickoffTss
    <2>4. CASE Ready(f)
      <3>1. /\ fault = "none" /\ cpu = f /\ pc[f] = "ready" /\ arg[f] # f
            /\ UNCHANGED <<cpu, old_rsp0, tss_rsp0, current_thread>>
        BY <2>4 DEF Ready, Inv, SwitchInv
      <3>2. \A g \in Flow : pc'[g] = "ktss" => pc[g] = "ktss" /\ arg'[g] = arg[g]
        BY <1>0, <2>4 DEF Ready, FlowType
      <3> QED
        BY <2>b, <3>1, <3>2 DEF TssInv
    <2>5. CASE Join(f)
      <3>1. CASE arg[f] \in DOMAIN join_map
        BY <2>5, <2>a, <2>b, <3>1, PcNames DEF Join
      <3>2. CASE arg[f] \notin DOMAIN join_map
        BY <2>5, <3>2 DEF Join, Stop, TssInv
      <3> QED
        BY <3>1, <3>2
    <2>6. CASE Exit(f)
      <3>1. CASE current_thread \in DOMAIN join_map
        BY <2>6, <2>a, <2>b, <3>1, PcNames DEF Exit
      <3>2. CASE current_thread \notin DOMAIN join_map
        BY <2>6, <3>2 DEF Exit, Stop, TssInv
      <3> QED
        BY <3>1, <3>2
    <2>7. CASE (\E ms \in SleepTimes : ReadClock(f, ms)) \/ Enlist(f) \/ ScanDone(f)
      BY <2>7, <2>a, <2>b, PcNames DEF ReadClock, Enlist, ScanDone
    <2>8. CASE LockSleep(f) \/ LockBlock(f) \/ ScanStart(f)
      BY <2>8, <2>a, <2>b, PcNames DEF LockSleep, LockBlock, ScanStart, Call
    <2>9. CASE Block(f)
      <3>1. CASE Head(ready_queue) = current_thread
        <4>1. AfterBlock(f) \in Pc /\ AfterBlock(f) # "ktss"
          BY PcNames DEF AfterBlock
        <4> QED
          BY <2>9, <2>a, <2>b, <3>1, <4>1 DEF Block
      <3>2. CASE Head(ready_queue) # current_thread
        BY <2>9, <2>a, <3>2, PcNames DEF Block, Dispatch
      <3> QED
        BY <3>1, <3>2
    <2>10. CASE YieldPop(f)
      <3>1. CASE ready_queue = <<>>
        BY <2>10, <2>a, <2>b, <3>1, PcNames DEF YieldPop
      <3>2. CASE ready_queue # <<>>
        BY <2>10, <2>a, <3>2, PcNames DEF YieldPop, Dispatch
      <3> QED
        BY <3>1, <3>2
    <2>11. CASE Fetch(f)
      BY <2>11, <2>a, PcNames DEF Fetch
    <2>12. CASE Save(f)
      <3>1. cpu # Boot
        BY <2>12 DEF Save, Inv, SwitchInv
      <3> QED
        BY <2>12, <2>a, <3>1, PcNames DEF Save
    <2>13. CASE SetTss(f)
      <3>1. tss_rsp0' = kernel_stack_addr(current_thread')
        BY <2>13 DEF SetTss, Inv, SwitchInv, Switching
      <3> QED
        BY <2>13, <2>a, <3>1, PcNames DEF SetTss
    <2>14. CASE Load(f)
      <3>1. PICK t \in Thread : t = sw[f].next
        BY <2>14 DEF Load, Inv, SwitchInv, Switching
      <3>2. /\ fault = "none" /\ tss_rsp0' = kernel_stack_addr(current_thread') /\ arg' = arg
            /\ Resume(sw[f].rsi, old_rsp0, [pc EXCEPT ![f] = "off"])
        BY <2>14, <2>b DEF Load, Inv, SwitchInv
      <3>3. sw[f].rsi \in Frame /\ LeadsTo(sw[f].rsi, t)
        BY <1>0, <3>1, <3>2 DEF Inv, SwitchInv, FlowType
      <3>4. /\ [pc EXCEPT ![f] = "off"] \in [Flow -> Pc]
            /\ \A g \in Flow : [pc EXCEPT ![f] = "off"][g] = "ktss" => pc[g] = "ktss"
        BY <1>0, PcNames DEF FlowType
      <3> QED
        BY <3>2, <3>3, <3>4, ResumeTss
    <2> QED
      BY <1>2, <2>1, <2>2, <2>3, <2>4, <2>5, <2>6, <2>7, <2>8, <2>9, <2>10, <2>11, <2>12,
         <2>13, <2>14 DEF Step
  <1>3. ASSUME NEW f \in Flow, Calls(f) PROVE TssInv'
    <2>1. /\ fault = "none" /\ cpu = f /\ pc[f] \in {"run", "boot"}
          /\ UNCHANGED <<cpu, old_rsp0, tss_rsp0, current_thread>>
      BY <1>3 DEF Calls, CallReady, CallJoin, CallExit, CallYield, CallSleep, Call
    <2>2. \A g \in Flow : pc'[g] = "ktss" => pc[g] = "ktss" /\ arg'[g] = arg[g]
      BY <1>0, <1>3 DEF Calls, CallReady, CallJoin, CallExit, CallYield, CallSleep, Call, FlowType
    <2> QED
      BY <2>1, <2>2 DEF TssInv
  <1>4. CASE Tick
    <2>1. CASE UNCHANGED <<current_thread, cpu, pc, old_rsp0, tss_rsp0, fault>>
      BY <1>4, <2>1, TickCases DEF TssInv
    <2>2. CASE fault' # "none"
      BY <2>2 DEF TssInv
    <2>3. ASSUME NEW rq \in Seq(Thread), rq # <<>>, SwitchFromInterrupt(rq), fault' = "none"
          PROVE  TssInv'
      <3>1. PICK t \in Thread : t = Head(rq)
        BY <2>3
      <3>2. PICK saved : saved = [old_rsp0 EXCEPT ![current_thread] = [stack |-> cpu, at |-> pc[cpu]]]
        OBVIOUS
      <3>3. tss_rsp0' = kernel_stack_addr(t) /\ current_thread' = t /\ Resume(old_rsp0[t], saved, pc)
        BY <2>3, <3>1, <3>2 DEF SwitchFromInterrupt, Stop
      <3>4. fault = "none" /\ arg' = arg
        BY <1>4, TickCases
      <3>5. old_rsp0[t] \in Frame /\ LeadsTo(old_rsp0[t], t) /\ pc \in [Flow -> Pc]
        BY <1>0, <3>4 DEF Inv, SwitchInv, FlowType
      <3> QED
        BY <3>3, <3>4, <3>5, ResumeTss
    <2> QED
      BY <1>4, <2>1, <2>2, <2>3, TickCases
  <1>5. CASE TickPending \/ UNCHANGED vars
    BY <1>5 DEF TickPending, TssInv
  <1> QED
    BY <1>1, <1>2, <1>3, <1>4, <1>5 DEF Next, Halted

\* While a thread runs its own code, the TSS has what kernel_stack_addr() computes
\* for it and for no other, for any number of threads and stacks of any size, and
\* preemptions at any instruction of a switch.
THEOREM TssCorrect == Spec => []TssFollows
  <1>1. Init => TssInv
    BY DEF Init, TssInv
  <1>2. Inv /\ Inv' /\ TssInv /\ [Next]_vars => TssInv'
    BY NextTss
  <1>3. Inv /\ TssInv => TssFollows
    BY DEF Inv, RunsAsCurrent, SwitchInv, TssInv, TssFollows, Switching
  <1> QED
    BY <1>1, <1>2, <1>3, InitInv, NextInv, PTL DEF Spec

\* Yet that is no address on the thread's kernel stack, whatever its size, although
\* thread_switch is to "Set rsp0 of kernel stack in tss": kernel_stack_addr() gives
\* offset() a number of bytes, which it takes for words.
THEOREM TssBeyondStack ==
    Spec => [](fault = "none" /\ pc[cpu] = "run" => tss_rsp0.offset > Capacity)
  <1>1. \A t : kernel_stack_addr(t).offset > Capacity
    <2>1. Capacity \in Nat /\ Capacity > 1
      BY SchedulerAssumption
    <2>2. (Capacity - 1) * 8 > Capacity
      BY <2>1
    <2> QED
      BY <2>2 DEF kernel_stack_addr
  <1>2. TssFollows => (fault = "none" /\ pc[cpu] = "run" => tss_rsp0.offset > Capacity)
    BY <1>1 DEF TssFollows
  <1> QED
    BY <1>2, TssCorrect, PTL
-----------------------------------------------------------------------------
(* The order of the ready queue. *)

\* Putting threads at the end of a queue keeps the order of the others.
LEMMA ExtendFollows ==
    ASSUME NEW q \in Seq(Thread), NEW w \in Seq(Thread)
    PROVE  Follows(q, q) /\ Follows(q \o w, q)
  <1>1. 0 \in 0..1 /\ Len(q) \in Nat /\ Len(w) \in Nat
    OBVIOUS
  <1>2. Len(q \o w) = Len(q) + Len(w) /\ \A i \in 1..Len(q) : (q \o w)[i] = q[i]
    OBVIOUS
  <1> QED
    BY <1>1, <1>2 DEF Follows

\* So does putting one thread there.
LEMMA PushFollows ==
    ASSUME NEW q \in Seq(Thread), NEW t \in Flow
    PROVE  Follows(Append(q, t), q)
  <1>1. 0 \in 0..1 /\ Len(q) \in Nat
    OBVIOUS
  <1>2. Len(Append(q, t)) = Len(q) + 1 /\ \A i \in 1..Len(q) : Append(q, t)[i] = q[i]
    OBVIOUS
  <1> QED
    BY <1>1, <1>2 DEF Follows

\* So does taking the head, with or without a thread put at the end.
LEMMA TakeFollows ==
    ASSUME NEW q \in Seq(Thread), NEW t \in Flow, q # <<>>
    PROVE  Follows(Tail(q), q) /\ Follows(Append(Tail(q), t), q)
  <1>1. 1 \in 0..1 /\ Len(q) \in Nat /\ 1 <= Len(q)
    OBVIOUS
  <1>2. /\ Tail(q) \in Seq(Thread) /\ Len(Tail(q)) = Len(q) - 1
        /\ \A i \in 1..(Len(q) - 1) : Tail(q)[i] = q[i + 1]
    OBVIOUS
  <1>3. /\ Len(Append(Tail(q), t)) = Len(q)
        /\ \A i \in 1..(Len(q) - 1) : Append(Tail(q), t)[i] = q[i + 1]
    BY <1>1, <1>2
  <1>4. ASSUME NEW r, Len(r) \in Nat, Len(q) - 1 <= Len(r),
               \A i \in 1..(Len(q) - 1) : r[i] = q[i + 1]
        PROVE  Follows(r, q)
    BY <1>1, <1>4 DEF Follows
  <1>5. Follows(Tail(q), q)
    <2>1. PICK r : r = Tail(q)
      OBVIOUS
    <2>2. Len(r) \in Nat /\ Len(q) - 1 <= Len(r) /\ \A i \in 1..(Len(q) - 1) : r[i] = q[i + 1]
      BY <1>1, <1>2, <2>1
    <2>3. Follows(r, q)
      BY <2>2, <1>4
    <2> QED
      BY <2>1, <2>3
  <1>6. Follows(Append(Tail(q), t), q)
    <2>1. PICK r : r = Append(Tail(q), t)
      OBVIOUS
    <2>2. Len(r) \in Nat /\ Len(q) - 1 <= Len(r) /\ \A i \in 1..(Len(q) - 1) : r[i] = q[i + 1]
      BY <1>1, <1>3, <2>1
    <2>3. Follows(r, q)
      BY <2>2, <1>4
    <2> QED
      BY <2>1, <2>3
  <1> QED
    BY <1>5, <1>6

\* Waking threads and taking the head, as switch_thread() does in one step.
LEMMA WakeTakeFollows ==
    ASSUME NEW q \in Seq(Thread), NEW w \in Seq(Thread), NEW t \in Flow, q \o w # <<>>
    PROVE  Follows(Append(Tail(q \o w), t), q)
  <1> DEFINE r == Append(Tail(q \o w), t)
  <1>1. /\ q \o w \in Seq(Thread) /\ Len(q \o w) = Len(q) + Len(w)
        /\ Len(q) \in Nat /\ Len(w) \in Nat
        /\ \A i \in 1..Len(q) : (q \o w)[i] = q[i]
    OBVIOUS
  <1>2. PICK p \in Seq(Thread) : p = q \o w
    BY <1>1
  <1>3. p # <<>> /\ Len(p) >= 1 /\ Len(Tail(p)) = Len(p) - 1 /\ Tail(p) \in Seq(Thread)
    BY <1>2
  <1>4. Len(r) = Len(p) /\ \A i \in 1..(Len(p) - 1) : r[i] = p[i + 1]
    BY <1>2, <1>3
  <1>5. CASE Len(q) = 0
    <2>1. 0 \in 0..1 /\ 1..(Len(q) - 0) = {} /\ Len(r) \in Nat
      BY <1>1, <1>2, <1>4, <1>5
    <2> HIDE DEF r
    <2> QED
      BY <1>5, <2>1 DEF Follows
  <1>6. CASE Len(q) # 0
    <2>1. 1 \in 0..1 /\ 1 <= Len(q) /\ Len(q) - 1 <= Len(r)
      BY <1>1, <1>2, <1>4, <1>6
    <2>2. \A i \in 1..(Len(q) - 1) : r[i] = q[i + 1]
      BY <1>1, <1>2, <1>4
    <2> HIDE DEF r
    <2> QED
      BY <2>1, <2>2 DEF Follows
  <1> QED
    BY <1>5, <1>6

\* Every step serves the ready queue in order.
LEMMA NextFollows ==
    ASSUME TypeOK, [Next]_vars
    PROVE  Follows(ready_queue', ready_queue)
  <1> USE DEF vars, schedVars, timeVars, flowVars
  <1>0. ready_queue \in Seq(Thread) /\ current_thread \in Flow
    BY DEF TypeOK, SchedType
  <1>a. CASE UNCHANGED ready_queue
    BY <1>0, <1>a, ExtendFollows
  <1>b. ASSUME NEW w \in Seq(Thread), ready_queue' = ready_queue \o w
        PROVE  Follows(ready_queue', ready_queue)
    BY <1>0, <1>b, ExtendFollows
  <1>c. ASSUME ready_queue # <<>>,
               \/ ready_queue' = Tail(ready_queue)
               \/ ready_queue' = Append(Tail(ready_queue), current_thread)
        PROVE  Follows(ready_queue', ready_queue)
    BY <1>0, <1>c, TakeFollows
  <1>1. CASE Start
    BY <1>1, <1>c DEF Start
  <1>2. ASSUME NEW f \in Flow, Step(f) PROVE Follows(ready_queue', ready_queue)
    <2>1. CASE Kickoff(f) \/ SetInit(f) \/ KickoffTss(f) \/ Join(f) \/ LockSleep(f) \/ Enlist(f)
               \/ LockBlock(f) \/ ScanStart(f) \/ Fetch(f) \/ Save(f) \/ SetTss(f) \/ Load(f)
               \/ \E ms \in SleepTimes : ReadClock(f, ms)
      BY <1>a, <2>1 DEF Kickoff, SetInit, KickoffTss, Join, LockSleep, Enlist, LockBlock,
                        ScanStart, Call, Fetch, Save, SetTss, Load, ReadClock
    <2>2. CASE Ready(f)
      <3>1. arg[f] \in Flow
        BY DEF TypeOK, FlowType
      <3>2. ready_queue' = Append(ready_queue, arg[f])
        BY <2>2 DEF Ready
      <3> QED
        BY <1>0, <3>1, <3>2, PushFollows
    <2>3. CASE Exit(f)
      <3>1. CASE current_thread \in DOMAIN join_map
        <4>1. join_map[current_thread] \in Seq(Thread)
          BY <3>1 DEF TypeOK, SchedType
        <4> QED
          BY <1>b, <2>3, <3>1, <4>1 DEF Exit
      <3>2. CASE current_thread \notin DOMAIN join_map
        BY <1>a, <2>3, <3>2 DEF Exit
      <3> QED
        BY <3>1, <3>2
    <2>4. CASE ScanDone(f)
      BY <1>b, <2>4, CheckSleepListType DEF ScanDone
    <2>5. CASE Block(f)
      BY <1>c, <2>5 DEF Block
    <2>6. CASE YieldPop(f)
      BY <1>a, <1>c, <2>6 DEF YieldPop
    <2> QED
      BY <1>2, <2>1, <2>2, <2>3, <2>4, <2>5, <2>6 DEF Step
  <1>3. ASSUME NEW f \in Flow, Calls(f) PROVE Follows(ready_queue', ready_queue)
    BY <1>3, <1>a DEF Calls, CallReady, CallJoin, CallExit, CallYield, CallSleep, Call
  <1>4. CASE Tick
    <2>1. CASE UNCHANGED ready_queue
      BY <1>a, <2>1
    <2>2. ASSUME NEW left, SwitchThread(left) PROVE Follows(ready_queue', ready_queue)
      <3>1. PICK w \in Woken(left) :
              \/ UNCHANGED ready_queue
              \/ ready_queue \o w # <<>> /\ SwitchFromInterrupt(ready_queue \o w)
        BY <2>2 DEF SwitchThread
      <3>2. w \in Seq(Thread)
        BY CheckSleepListType
      <3> QED
        BY <1>0, <1>a, <3>1, <3>2, WakeTakeFollows DEF SwitchFromInterrupt
    <2> QED
      BY <1>4, <2>1, <2>2 DEF Tick
  <1> QED
    BY <1>a, <1>1, <1>2, <1>3, <1>4 DEF Next, TickPending, Halted

\* The ready queue is served first in, first out by every operation of the
\* scheduler, for any number of threads.
THEOREM QueueInOrder == Spec => ServedInOrder
  <1>1. TypeOK /\ [Next]_vars => [Follows(ready_queue', ready_queue)]_vars
    BY NextFollows
  <1> QED
    BY <1>1, TypeCorrect, PTL DEF Spec, ServedInOrder

=============================================================================
