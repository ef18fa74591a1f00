----------------------------- MODULE Scheduler -----------------------------
(***************************************************************************)
(* The thread scheduler of hhuTOSr: thread/scheduler.rs, the start and     *)
(* switch code of thread/thread.rs, and the timer interrupt of             *)
(* device/pit.rs that drives it, on the single CPU the kernel runs on.     *)
(*                                                                         *)
(* A flow is a line of execution with a stack of its own: a thread, or the *)
(* boot code.  One flow is on the CPU.  Its code is cut at every point     *)
(* where the timer interrupt can hit it and see a difference; the handler  *)
(* itself runs with interrupts off and is one action, Tick.                *)
(*                                                                         *)
(* Mutexes are spin locks held for a span of program counters: see         *)
(* StateLocked, TimerRead and TssLocked.  sleep_list and join_map are only *)
(* locked under the state lock, so their own locks decide nothing.         *)
(*                                                                         *)
(* Time is relative: wakeup_time[t] is the distance from the system time   *)
(* to the wakeup time of t's latest sleep, and phase is the system time    *)
(* modulo Quantum.                                                         *)
(***************************************************************************)
EXTENDS Integers, Sequences, FiniteSets

CONSTANTS
    Thread,      \* the threads that are ever created
    Boot,        \* the flow of boot.rs; also stands for Option::None
    Quantum,     \* milliseconds between two preemptions (10)
    Capacity,    \* words of a kernel stack (STACK_SIZE_PAGES * PAGE_SIZE / 8)
    SleepTimes,  \* arguments of sleep()
    MaxPending   \* bound: timer interrupts that can hit one reader of the timer

ASSUME SchedulerAssumption ==
    /\ IsFiniteSet(Thread)
    /\ Boot \notin Thread
    /\ Quantum \in Nat /\ Quantum > 1
    /\ Capacity \in Nat /\ Capacity > 1
    /\ SleepTimes \subseteq Nat
    /\ MaxPending \in Nat

Flow == Thread \cup {Boot}

VARIABLES
    initialized,     \* ReadyState
    current_thread,
    ready_queue,     \* in service order: push_front appends, pop_back takes the head
    sleep_list,      \* threads of the entries, in list order
    wakeup_time,     \* the times of the entries, relative to the system time
    join_map,        \* thread -> threads joining it; no entry before ready, after exit
    phase,           \* system time modulo Quantum
    pending_incs,    \* TimerInterruptHandler
    cpu,             \* the flow whose stack the CPU runs on
    pc,              \* where each flow is
    arg,             \* thread operand of the call a flow is in
    sw,              \* operands of the Thread::switch a flow is in
    old_rsp0,        \* the saved stack pointer of each thread
    tss_rsp0,        \* rsp0 of the TSS: the address a privilege change loads
    fault            \* why the machine has stopped

schedVars == <<initialized, current_thread, ready_queue, sleep_list, join_map>>
timeVars  == <<wakeup_time, phase, pending_incs>>
flowVars  == <<cpu, pc, arg, sw>>
vars      == <<schedVars, timeVars, flowVars, old_rsp0, tss_rsp0, fault>>

-----------------------------------------------------------------------------
(* Program counters. *)

InSection   == {"ready", "join", "exit", "init", "enlist"}
InBlock   == {"pop", "scan"}
InSwitch  == {"yield", "yscan", "ypop"}
Switching == {"fetch", "save", "tss", "load"}
Waiting   == {"block"} \cup InBlock
Pc == {"new", "boot", "kickoff", "ktss", "run", "clock", "sleep", "off", "dead"}
        \cup InSection \cup Waiting \cup InSwitch \cup Switching

\* The state mutex is held, the timer is read-locked, the TSS mutex is held.
StateLocked == \E f \in Flow : pc[f] \in InSection \cup InBlock \cup InSwitch
TimerRead   == \E f \in Flow : pc[f] \in {"clock", "scan", "yscan"}
TssLocked   == \E f \in Flow : pc[f] \in {"tss", "ktss"}

(* A saved stack pointer: on whose stack the registers were pushed and where *)
(* that flow goes on when they are popped.  Stale: the stack has been used   *)
(* again since, the frame is overwritten.                                    *)
Frame == [stack : Flow, at : Pc]
Stale == [stack |-> Boot, at |-> "dead"]
Idle  == [cur |-> Boot, next |-> Boot, rsi |-> Stale]

\* An address by the allocation it is computed from, and its distance from there in
\* words.  kernel_stack_addr: the pointer is to words, so offset() counts the bytes
\* it is given as words.
Address == [stack : Flow, offset : Nat]
kernel_stack_addr(t) == [stack |-> t, offset |-> (Capacity - 1) * 8]

\* prepare_kernel_stack: the first frame returns into kickoff_kernel_thread.
FirstFrame(t) == [stack |-> t, at |-> "kickoff"]

Init ==
    /\ initialized = FALSE
    /\ current_thread = Boot
    /\ ready_queue = <<>>
    /\ sleep_list = <<>>
    /\ wakeup_time = [t \in Thread |-> 0]
    /\ join_map = [t \in {} |-> <<>>]
    /\ phase = 0
    /\ pending_incs = 0
    /\ cpu = Boot
    /\ pc = [f \in Flow |-> IF f = Boot THEN "boot" ELSE "new"]
    /\ arg = [f \in Flow |-> Boot]
    /\ sw = [f \in Flow |-> Idle]
    /\ old_rsp0 = [t \in Thread |-> FirstFrame(t)]
    /\ tss_rsp0 = [stack |-> Boot, offset |-> 0]
    /\ fault = "none"

-----------------------------------------------------------------------------
(* Steps of the flow f that is on the CPU. *)

At(f, p) == fault = "none" /\ cpu = f /\ pc[f] = p
Goto(f, p) == pc' = [pc EXCEPT ![f] = p]
Stop(why) == fault' = why

\* Where block() returns to: the caller of sleep or join; after exit there is none.
AfterBlock(f) == IF f \in DOMAIN join_map THEN "run" ELSE "dead"

(* Loading the frame fr switches to its stack.  That stack is used again     *)
(* from there on, which overwrites every frame below; a flow preempted in    *)
(* the last part of thread_switch has two, the outer one of which survives.  *)
Overwritten(p, fr) ==
    IF p.stack = fr.stack /\ (fr.at = "load" => p.at = "load") THEN Stale ELSE p

Resume(fr, ptrs, pcs) ==
    IF fr.at = "dead"
    THEN /\ Stop("context")
         /\ old_rsp0' = ptrs
         /\ UNCHANGED <<cpu, pc, sw>>
    ELSE /\ cpu' = fr.stack
         /\ pc' = [pcs EXCEPT ![fr.stack] = fr.at]
         /\ old_rsp0' = [t \in Thread |-> Overwritten(ptrs[t], fr)]
         /\ sw' = [f \in Flow |->
                     IF f = fr.stack /\ fr.at \notin Switching
                     THEN Idle
                     ELSE [cur |-> sw[f].cur, next |-> sw[f].next,
                           rsi |-> Overwritten(sw[f].rsi, fr)]]
         /\ UNCHANGED fault

\* Scheduler::start, called once threads are ready: the boot flow is left for good.
Start ==
    /\ At(Boot, "boot")
    /\ ready_queue # <<>>
    /\ LET t == Head(ready_queue) IN
        /\ current_thread' = t
        /\ ready_queue' = Tail(ready_queue)
        /\ Resume(old_rsp0[t], old_rsp0, [pc EXCEPT ![Boot] = "off"])
    /\ UNCHANGED <<initialized, sleep_list, join_map, timeVars, arg, tss_rsp0>>

\* kickoff_kernel_thread: current_thread() and set_init() ...  (Each locks the
\* state; between the two nothing changes that either of them uses.)
Kickoff(f) ==
    /\ At(f, "kickoff")
    /\ ~StateLocked
    /\ Goto(f, "init")
    /\ UNCHANGED <<schedVars, timeVars, cpu, arg, sw, old_rsp0, tss_rsp0, fault>>

\* Mutant: the scheduler is never marked as initialized.
SetInitForgotten(f) ==
    /\ At(f, "init")
    /\ arg' = [arg EXCEPT ![f] = current_thread]
    /\ Goto(f, "ktss")
    /\ UNCHANGED <<schedVars, timeVars, cpu, sw, old_rsp0, tss_rsp0, fault>>

SetInit(f) ==
    /\ At(f, "init")
    /\ arg' = [arg EXCEPT ![f] = current_thread]
    /\ initialized' = TRUE
    /\ Goto(f, "ktss")
    /\ UNCHANGED <<current_thread, ready_queue, sleep_list, join_map, timeVars,
                   cpu, sw, old_rsp0, tss_rsp0, fault>>

\* ... then rsp0 of the TSS, and the thread's own code.
KickoffTss(f) ==
    /\ At(f, "ktss")
    /\ tss_rsp0' = kernel_stack_addr(arg[f])
    /\ Goto(f, "run")
    /\ arg' = [arg EXCEPT ![f] = Boot]
    /\ UNCHANGED <<schedVars, timeVars, cpu, sw, old_rsp0, fault>>

(* The calls that a flow's own code makes.  ready, join and exit lock the    *)
(* state first thing; sleep reads the clock before.                          *)

CallReady(f, t) ==
    /\ At(f, "run") \/ At(f, "boot")
    /\ pc[t] = "new"
    /\ ~StateLocked
    /\ Goto(f, "ready")
    /\ arg' = [arg EXCEPT ![f] = t]
    /\ UNCHANGED <<schedVars, timeVars, cpu, sw, old_rsp0, tss_rsp0, fault>>

CallJoin(f, t) ==
    /\ At(f, "run")
    /\ pc[t] # "new"
    /\ ~StateLocked
    /\ Goto(f, "join")
    /\ arg' = [arg EXCEPT ![f] = t]
    /\ UNCHANGED <<schedVars, timeVars, cpu, sw, old_rsp0, tss_rsp0, fault>>

\* exit(), yield by system call, and the clock read in sleep().
Call(f, from, to) ==
    /\ At(f, from)
    /\ Goto(f, to)
    /\ UNCHANGED <<schedVars, timeVars, cpu, arg, sw, old_rsp0, tss_rsp0, fault>>

CallExit(f)  == ~StateLocked /\ Call(f, "run", "exit")
CallYield(f) == ~StateLocked /\ Call(f, "run", "yield")
CallSleep(f) == Call(f, "run", "clock")

Ready(f) ==
    /\ At(f, "ready")
    /\ LET t == arg[f] IN
        /\ ready_queue' = Append(ready_queue, t)
        /\ join_map' = [u \in DOMAIN join_map \cup {t} |->
                          IF u = t THEN <<>> ELSE join_map[u]]
        /\ pc' = [pc EXCEPT ![f] = IF f = Boot THEN "boot" ELSE "run", ![t] = "off"]
    /\ arg' = [arg EXCEPT ![f] = Boot]
    /\ UNCHANGED <<initialized, current_thread, sleep_list, timeVars,
                   cpu, sw, old_rsp0, tss_rsp0, fault>>

\* join(): the expect() on the map entry panics when the thread has exited.
Join(f) ==
    /\ At(f, "join")
    /\ IF arg[f] \in DOMAIN join_map
       THEN /\ join_map' = [join_map EXCEPT ![arg[f]] = Append(@, current_thread)]
            /\ Goto(f, "block")
            /\ UNCHANGED fault
       ELSE Stop("panic") /\ UNCHANGED <<join_map, pc>>
    /\ UNCHANGED <<initialized, current_thread, ready_queue, sleep_list, timeVars,
                   cpu, arg, sw, old_rsp0, tss_rsp0>>

\* Mutant: exit() drops its join list without making the joiners ready.
ExitDropsJoiners(f) ==
    /\ At(f, "exit")
    /\ current_thread \in DOMAIN join_map
    /\ join_map' = [u \in DOMAIN join_map \ {current_thread} |-> join_map[u]]
    /\ Goto(f, "block")
    /\ UNCHANGED <<initialized, current_thread, ready_queue, sleep_list, timeVars,
                   cpu, arg, sw, old_rsp0, tss_rsp0, fault>>

Exit(f) ==
    /\ At(f, "exit")
    /\ IF current_thread \in DOMAIN join_map
       THEN /\ ready_queue' = ready_queue \o join_map[current_thread]
            /\ join_map' = [u \in DOMAIN join_map \ {current_thread} |-> join_map[u]]
            /\ Goto(f, "block")
            /\ UNCHANGED fault
       ELSE Stop("panic") /\ UNCHANGED <<ready_queue, join_map, pc>>
    /\ UNCHANGED <<initialized, current_thread, sleep_list, timeVars,
                   cpu, arg, sw, old_rsp0, tss_rsp0>>

ReadClock(f, ms) ==
    /\ At(f, "clock")
    /\ wakeup_time' = [wakeup_time EXCEPT ![f] = ms]
    /\ Goto(f, "sleep")
    /\ UNCHANGED <<schedVars, phase, pending_incs, cpu, arg, sw, old_rsp0, tss_rsp0, fault>>

LockSleep(f) == ~StateLocked /\ Call(f, "sleep", "enlist")
LockBlock(f) == ~StateLocked /\ Call(f, "block", "pop")

Enlist(f) ==
    /\ At(f, "enlist")
    /\ sleep_list' = Append(sleep_list, current_thread)
    /\ Goto(f, "block")
    /\ UNCHANGED <<initialized, current_thread, ready_queue, join_map, timeVars,
                   cpu, arg, sw, old_rsp0, tss_rsp0, fault>>

-----------------------------------------------------------------------------
(* check_sleep_list: entries whose time has come move, in list order, to the *)
(* ready queue.                                                              *)

\* Mutant: an entry is taken from the list one millisecond early.
ExpiredEarly(left) == {i \in DOMAIN sleep_list : left[sleep_list[i]] <= 1}

Expired(left) == {i \in DOMAIN sleep_list : left[sleep_list[i]] <= 0}

\* The ascending enumeration of a finite set of indices; there is exactly one.
Ascending(D) ==
    {q \in [1..Cardinality(D) -> D] :
        \A i, j \in 1..Cardinality(D) : i < j => q[i] < q[j]}

\* The elements of s at the indices D, in the order of s: a set of one sequence.
SubseqAt(s, D) == {[i \in 1..Cardinality(D) |-> s[q[i]]] : q \in Ascending(D)}

Woken(left)  == SubseqAt(sleep_list, Expired(left))
Asleep(left) == SubseqAt(sleep_list, DOMAIN sleep_list \ Expired(left))

\* Mutant: block() gives up instead of spinning when nobody is ready.
ScanGivesUp(f) ==
    \/ ready_queue = <<>> /\ Call(f, "pop", AfterBlock(f))
    \/ Call(f, "yield", "yscan")

\* block() and switch_thread() read-lock the timer for the check.
ScanStart(f) ==
    \/ ready_queue = <<>> /\ Call(f, "pop", "scan")
    \/ Call(f, "yield", "yscan")

\* Mutant: the loop of block() looks at the ready queue only.
ScanSkipped(f) ==
    /\ \/ At(f, "scan") /\ Goto(f, "pop")
       \/ At(f, "yscan") /\ Goto(f, "ypop")
    /\ UNCHANGED <<schedVars, timeVars, cpu, arg, sw, old_rsp0, tss_rsp0, fault>>

ScanDone(f) ==
    /\ \/ At(f, "scan") /\ Goto(f, "pop")
       \/ At(f, "yscan") /\ Goto(f, "ypop")
    /\ \E woken \in Woken(wakeup_time) : ready_queue' = ready_queue \o woken
    /\ sleep_list' \in Asleep(wakeup_time)
    /\ UNCHANGED <<initialized, current_thread, join_map, timeVars,
                   cpu, arg, sw, old_rsp0, tss_rsp0, fault>>

\* Both end by unlocking the state and calling Thread::switch(current, next).
Dispatch(f, next) ==
    /\ current_thread' = next
    /\ Goto(f, "fetch")
    /\ sw' = [sw EXCEPT ![f] = [cur |-> current_thread, next |-> next, rsi |-> Stale]]

Block(f) ==
    /\ At(f, "pop")
    /\ ready_queue # <<>>
    /\ ready_queue' = Tail(ready_queue)
    /\ LET next == Head(ready_queue) IN
        IF next = current_thread
        THEN Goto(f, AfterBlock(f)) /\ UNCHANGED <<current_thread, sw>>
        ELSE Dispatch(f, next)
    /\ UNCHANGED <<initialized, sleep_list, join_map, timeVars,
                   cpu, arg, old_rsp0, tss_rsp0, fault>>

YieldPop(f) ==
    /\ At(f, "ypop")
    /\ IF ready_queue = <<>>
       THEN Goto(f, "run") /\ UNCHANGED <<current_thread, ready_queue, sw>>
       ELSE /\ ready_queue' = Append(Tail(ready_queue), current_thread)
            /\ Dispatch(f, Head(ready_queue))
    /\ UNCHANGED <<initialized, sleep_list, join_map, timeVars,
                   cpu, arg, old_rsp0, tss_rsp0, fault>>

-----------------------------------------------------------------------------
(* Thread::switch, with interrupts on: the saved stack pointer of next is    *)
(* read; thread_switch stores the one of current, writes the TSS, loads.     *)

Fetch(f) ==
    /\ At(f, "fetch")
    /\ sw' = [sw EXCEPT ![f] = [cur |-> sw[f].cur, next |-> sw[f].next,
                                rsi |-> old_rsp0[sw[f].next]]]
    /\ Goto(f, "save")
    /\ UNCHANGED <<schedVars, timeVars, cpu, arg, old_rsp0, tss_rsp0, fault>>

Save(f) ==
    /\ At(f, "save")
    /\ ~TssLocked
    /\ old_rsp0' = [old_rsp0 EXCEPT ![sw[f].cur] = [stack |-> f, at |-> AfterBlock(f)]]
    /\ Goto(f, "tss")
    /\ UNCHANGED <<schedVars, timeVars, cpu, arg, sw, tss_rsp0, fault>>

\* Mutant: the TSS gets the stack of the thread that is left.
SetTssCurrent(f) ==
    /\ At(f, "tss")
    /\ tss_rsp0' = kernel_stack_addr(sw[f].cur)
    /\ Goto(f, "load")
    /\ UNCHANGED <<schedVars, timeVars, cpu, arg, sw, old_rsp0, fault>>

SetTss(f) ==
    /\ At(f, "tss")
    /\ tss_rsp0' = kernel_stack_addr(sw[f].next)
    /\ Goto(f, "load")
    /\ UNCHANGED <<schedVars, timeVars, cpu, arg, sw, old_rsp0, fault>>

Load(f) ==
    /\ At(f, "load")
    /\ Resume(sw[f].rsi, old_rsp0, [pc EXCEPT ![f] = "off"])
    /\ UNCHANGED <<schedVars, timeVars, arg, tss_rsp0>>

-----------------------------------------------------------------------------
(* The timer interrupt: TimerInterruptHandler::trigger and, every Quantum    *)
(* milliseconds, Scheduler::switch_thread.                                   *)

\* Mutant: the preempted thread goes to the head of the queue.
PreemptToHead(rq) ==
    LET next == Head(rq) IN
        /\ ready_queue' = <<current_thread>> \o Tail(rq)
        /\ current_thread' = next
        /\ ~TssLocked
        /\ tss_rsp0' = kernel_stack_addr(next)
        /\ Resume(old_rsp0[next],
                  [old_rsp0 EXCEPT ![current_thread] = [stack |-> cpu, at |-> pc[cpu]]], pc)

\* Mutant: current_thread is not updated.
PreemptKeepsCurrent(rq) ==
    LET next == Head(rq) IN
        /\ ready_queue' = Append(Tail(rq), current_thread)
        /\ ~TssLocked
        /\ tss_rsp0' = kernel_stack_addr(next)
        /\ Resume(old_rsp0[next],
                  [old_rsp0 EXCEPT ![current_thread] = [stack |-> cpu, at |-> pc[cpu]]], pc)
        /\ UNCHANGED current_thread

\* The switch on top of the interrupted flow, with interrupts off.
SwitchFromInterrupt(rq) ==
    LET next  == Head(rq)
        saved == [old_rsp0 EXCEPT ![current_thread] = [stack |-> cpu, at |-> pc[cpu]]]
    IN  /\ ready_queue' = Append(Tail(rq), current_thread)
        /\ current_thread' = next
        /\ IF TssLocked
           THEN /\ Stop("hang")
                /\ old_rsp0' = saved
                /\ UNCHANGED <<cpu, pc, sw, tss_rsp0>>
           ELSE /\ tss_rsp0' = kernel_stack_addr(next)
                /\ Resume(old_rsp0[next], saved, pc)

SwitchThread(left) ==
    /\ sleep_list' \in Asleep(left)
    /\ \E woken \in Woken(left) :
        LET rq == ready_queue \o woken IN
        CASE rq = <<>> ->
               UNCHANGED <<current_thread, ready_queue, cpu, pc, sw,
                           old_rsp0, tss_rsp0, fault>>
          [] rq # <<>> /\ current_thread = Boot ->
               /\ Stop("panic")
               /\ UNCHANGED <<current_thread, ready_queue, cpu, pc, sw, old_rsp0, tss_rsp0>>
          [] OTHER -> SwitchFromInterrupt(rq)

Elapse(n) == [t \in Thread |-> IF wakeup_time[t] > n THEN wakeup_time[t] - n ELSE 0]

\* The timer is read-locked: the increment stays pending, nothing else happens.
TickPending ==
    /\ fault = "none"
    /\ TimerRead
    /\ pending_incs < MaxPending
    /\ pending_incs' = pending_incs + 1
    /\ UNCHANGED <<schedVars, wakeup_time, phase, flowVars, old_rsp0, tss_rsp0, fault>>

\* Mutants: the handler ignores the state lock; it ignores initialized.
ReschedulesLocked(p) == p = 0 /\ initialized
ReschedulesEarly(p)  == p = 0 /\ ~StateLocked

Reschedules(p) == p = 0 /\ ~StateLocked /\ initialized

\* Mutant: the increments that are made up for are not counted down.
TickKeepsPending ==
    /\ fault = "none"
    /\ ~TimerRead
    /\ LET n == pending_incs + 1
           p == (phase + n) % Quantum
       IN  /\ pending_incs' = n
           /\ phase' = p
           /\ wakeup_time' = Elapse(n)
           /\ IF Reschedules(p)
              THEN SwitchThread(Elapse(n))
              ELSE UNCHANGED <<current_thread, ready_queue, sleep_list,
                               cpu, pc, sw, old_rsp0, tss_rsp0, fault>>
    /\ UNCHANGED <<initialized, join_map, arg>>

Tick ==
    /\ fault = "none"
    /\ ~TimerRead
    /\ LET n == pending_incs + 1
           p == (phase + n) % Quantum
       IN  /\ pending_incs' = 0
           /\ phase' = p
           /\ wakeup_time' = Elapse(n)
           /\ IF Reschedules(p)
              THEN SwitchThread(Elapse(n))
              ELSE UNCHANGED <<current_thread, ready_queue, sleep_list,
                               cpu, pc, sw, old_rsp0, tss_rsp0, fault>>
    /\ UNCHANGED <<initialized, join_map, arg>>

\* A panic loops, a lost lock is spun on, a lost context runs wild: nothing else happens.
Halted == fault # "none" /\ UNCHANGED vars

-----------------------------------------------------------------------------

\* What f does by itself ...
Step(f) ==
    \/ Kickoff(f) \/ SetInit(f) \/ KickoffTss(f)
    \/ Ready(f) \/ Join(f) \/ Exit(f)
    \/ \E ms \in SleepTimes : ReadClock(f, ms)
    \/ LockSleep(f) \/ Enlist(f)
    \/ LockBlock(f) \/ ScanStart(f) \/ ScanDone(f) \/ Block(f) \/ YieldPop(f)
    \/ Fetch(f) \/ Save(f) \/ SetTss(f) \/ Load(f)

\* ... and what the code of the thread decides to call.
Calls(f) ==
    \/ \E t \in Thread : CallReady(f, t) \/ CallJoin(f, t)
    \/ CallExit(f) \/ CallYield(f) \/ CallSleep(f)

Next ==
    \/ Start
    \/ \E f \in Flow : Step(f) \/ Calls(f)
    \/ TickPending
    \/ Tick
    \/ Halted

Spec == Init /\ [][Next]_vars

(* Fairness.  Code on the CPU makes progress: a flow that gets the CPU again *)
(* and again takes its next step, since Quantum milliseconds execute at      *)
(* least one instruction.  The timer fires again and again, and not only     *)
(* inside the few instructions that read-lock the timer.  Whether a thread   *)
(* ever makes a call is not assumed.                                         *)
Fairness ==
    /\ WF_vars(Start)
    /\ \A f \in Flow : SF_vars(Step(f)) /\ SF_vars(Load(f))
    /\ SF_vars(Tick)

FairSpec == Spec /\ Fairness

-----------------------------------------------------------------------------
(* Safety. *)

SchedType ==
    /\ initialized \in BOOLEAN
    /\ current_thread \in Flow
    /\ ready_queue \in Seq(Thread)
    /\ sleep_list \in Seq(Thread)
    /\ DOMAIN join_map \subseteq Thread
    /\ join_map \in [DOMAIN join_map -> Seq(Thread)]

TimeType ==
    /\ wakeup_time \in [Thread -> Nat]
    /\ phase \in 0..(Quantum - 1)
    /\ pending_incs \in 0..MaxPending

FlowType ==
    /\ cpu \in Flow
    /\ pc \in [Flow -> Pc]
    /\ arg \in [Flow -> Flow]
    /\ sw \in [Flow -> [cur : Flow, next : Flow, rsi : Frame]]
    /\ old_rsp0 \in [Thread -> Frame]
    /\ tss_rsp0 \in Address
    /\ fault \in {"none", "context", "hang", "panic"}

\* Every variable of the scheduler, the timer handler and the switch code has its type.
TypeOK == SchedType /\ TimeType /\ FlowType

\* Where a flow holds the state mutex, a read lock of the timer or the TSS mutex.
Held == InSection \cup InBlock \cup InSwitch \cup {"clock", "tss", "ktss"}

\* No spin lock is held by a flow that waits for the CPU: who holds the state
\* mutex (ready, sleep, join, exit, block, switch_thread), a read lock of the
\* timer or the TSS mutex is on the CPU.  The handler backs off from the first
\* two (try_lock, try_write) instead of switching the holder out; on the third
\* it hangs (NeverHangs).  So no thread ever spins on a lock of another one.
LockHolderRuns == \A f \in Flow : pc[f] \in Held => f = cpu

\* Code outside Thread::switch runs on the stack of current_thread: what join,
\* sleep and exit record under current() is the thread that called them, even
\* after preemptions inside Thread::switch.  The boot flow runs until start().
RunsAsCurrent ==
    fault = "none" =>
        /\ pc[cpu] \notin Switching => cpu = current_thread
        /\ cpu = Boot => ~initialized

\* References that keep a thread schedulable.
Count(t, s) == Cardinality({i \in DOMAIN s : s[i] = t})
Joining(t) == UNION {{u} \X {i \in DOMAIN join_map[u] : join_map[u][i] = t} :
                       u \in DOMAIN join_map}
References(t) ==
    Count(t, ready_queue) + Count(t, sleep_list) + Cardinality(Joining(t))
      + IF current_thread = t THEN 1 ELSE 0

\* No thread is lost and none is scheduled twice: a live thread is in exactly one
\* of ready queue, sleep list, join lists and current_thread.  Between enlisting
\* itself and block() taking its successor it has one more, also when it is
\* preempted there and woken before it has blocked; an exited thread has none,
\* and one until block() has switched it away.
ThreadConserved ==
    \A t \in Thread :
        References(t) = (IF t \in DOMAIN join_map THEN 1 ELSE 0)
                          + (IF pc[t] \in Waiting THEN 1 ELSE 0)

\* sleep() returns only when the system time has reached the wakeup time it
\* computed, whatever preemptions, pending increments or wakeups came between.
SleepsFully == fault = "none" /\ pc[cpu] = "run" => wakeup_time[cpu] = 0

\* join() returns only after the joined thread has left join_map by exit().
JoinWaits ==
    fault = "none" /\ pc[cpu] = "run" => arg[cpu] \notin DOMAIN join_map

\* While a thread runs, the TSS has the address that kernel_stack_addr() computes
\* from its own stack, as far as the switches and preemptions before could leave
\* that of another thread.  (This address is not on the stack: seven stack sizes
\* beyond its end.)
TssFollows ==
    fault = "none" /\ pc[cpu] = "run" => tss_rsp0 = kernel_stack_addr(cpu)

\* The expect() calls on the scheduler's own state never fail; the only panic is
\* that of join() on a thread that has exited.
OnlyJoinPanics == fault = "panic" => pc[cpu] = "join"

\* A queue r follows the queue q: q without its head, or all of it, and more.
Follows(r, q) ==
    \E k \in 0..1 :
        /\ k <= Len(q) /\ Len(q) - k <= Len(r)
        /\ \A i \in 1..(Len(q) - k) : r[i] = q[i + k]

\* The ready queue is first in, first out: whatever a step does, the threads that
\* stay in it keep their order and at most the first one leaves, so nobody is
\* overtaken by a woken sleeper, a released joiner or a preempted thread.
ServedInOrder == [][Follows(ready_queue', ready_queue)]_vars

\* thread_switch, called by block() and sys_thread_switch, loads "registers of
\* next thread".  (Not when it has been preempted before.)
LoadsContext == fault = "context" => pc[cpu] # "load"

\* The timer interrupt never spins on a lock of the interrupted code.  (It does
\* on the TSS mutex.)
NeverHangs == fault # "hang"

(* Liveness, up to the faults the machine stops with. *)

\* A thread in the ready queue gets the CPU: the queue is served in order and
\* preemption cannot be held off by other threads' sleeps, joins and yields.
ReadyRuns == \A t \in Thread :
    (\E i \in DOMAIN ready_queue : ready_queue[i] = t) ~> (cpu = t \/ fault # "none")

\* A sleeping thread gets the CPU, also when every other thread is blocked and
\* block() has to find the expired entry itself, and when ticks are missed.
SleeperWakes == \A t \in Thread :
    (\E i \in DOMAIN sleep_list : sleep_list[i] = t) ~> (cpu = t \/ fault # "none")

-----------------------------------------------------------------------------
(* The inductive strengthening of LockHolderRuns and RunsAsCurrent.  What    *)
(* makes preemption inside Thread::switch keep a thread's identity is that   *)
(* the frame is saved under the name the preempted switch was about to take. *)

\* p may be loaded to run thread t.
LeadsTo(p, t) ==
    /\ p.at # "dead" => p.stack \in Thread
    /\ p.at \notin Held
    /\ p.at \notin Switching \cup {"dead"} => p.stack = t
    /\ p.at \in Switching =>
          p.stack # cpu /\ pc[p.stack] = p.at /\ sw[p.stack].next = t

SwitchInv ==
    /\ \A t \in Thread : LeadsTo(old_rsp0[t], t)
    /\ \A f \in Flow : LeadsTo(sw[f].rsi, sw[f].next)
    /\ \A f \in Flow : pc[f] \in Switching => sw[f].next \in Thread
    /\ \A f \in Flow : pc[f] \in {"fetch", "save"} => sw[f].cur = f
    /\ \A f \in Flow : pc[f] = "ready" => arg[f] \in Thread /\ pc[arg[f]] = "new"
    /\ pc[cpu] \in Switching => sw[cpu].next = current_thread
    /\ pc[Boot] \in {"boot", "ready", "off"}

\* The TSS follows current_thread, except between a dispatch and SetTss and where no
\* thread has set it yet; before start() every frame is a first one.
TssInv == fault = "none" =>
    /\ \A f \in Flow : pc[f] = "ktss" => arg[f] = f
    /\ cpu # Boot /\ pc[cpu] \notin {"kickoff", "init", "ktss", "fetch", "save", "tss"} =>
          tss_rsp0 = kernel_stack_addr(current_thread)
    /\ cpu = Boot => \A t \in Thread : old_rsp0[t] = FirstFrame(t)

Inv ==
    /\ TypeOK
    /\ LockHolderRuns
    /\ RunsAsCurrent
    /\ fault = "none" => SwitchInv

(* The inductive strengthening of ThreadConserved, SleepsFully, JoinWaits    *)
(* and OnlyJoinPanics.  A thread has one place to go on from, and who waits  *)
(* in a list has no reference left with which it could run.                  *)

\* Where only a thread that has not exited can be.
Alive == Pc \ (Waiting \cup Switching \cup {"new", "off", "dead"})

\* p can be loaded: its stack is not in use, unless by the last part of
\* thread_switch, p is where that flow stopped, and a thread that goes on in its
\* own code has not exited.
Sound(p) == p.at # "dead" =>
    /\ p.at # "new"
    /\ p.stack = cpu => pc[cpu] \in {"tss", "load"}
    /\ \/ p.at = pc[p.stack]
       \/ p.at \in {"kickoff", "run"} /\ pc[p.stack] \in {"new", "off", "tss", "load"}
    /\ p.at \in Alive /\ pc[p.stack] # "new" => p.stack \in DOMAIN join_map

FramesInv ==
    /\ \A t \in Thread : Sound(old_rsp0[t])
    /\ \A f \in Flow : /\ Sound(sw[f].rsi)
                       /\ sw[f].rsi.at # "dead" => pc[sw[f].rsi.stack] # "new"

\* Who is waiting, and for what; threads that were never made ready are nowhere.
WaitInv ==
    /\ pc[cpu] # "new"
    /\ cpu \in Thread /\ pc[cpu] \in Alive => cpu \in DOMAIN join_map
    /\ \A t \in Thread : pc[t] = "new" => t \notin DOMAIN join_map
    /\ \A f \in Flow : arg[f] \in Thread /\ pc[arg[f]] = "new" => pc[f] = "ready"
    /\ \A f \in Flow : arg[f] \in DOMAIN join_map /\ pc[f] \notin {"join", "ktss"} =>
          \E i \in DOMAIN join_map[arg[f]] : join_map[arg[f]][i] = f
    /\ \A t \in Thread : wakeup_time[t] # 0 /\ pc[t] \notin {"sleep", "enlist"} =>
          \E i \in DOMAIN sleep_list : sleep_list[i] = t

RefInv ==
    /\ ThreadConserved
    /\ OnlyJoinPanics
    /\ fault = "none" => FramesInv /\ WaitInv
=============================================================================
