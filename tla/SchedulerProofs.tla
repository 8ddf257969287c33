--------------------------- MODULE SchedulerProofs --------------------------
(***************************************************************************)
(* Proofs about the scheduler for every table size, every supply of stacks *)
(* and every choice of who creates tasks.                                  *)
(***************************************************************************)
EXTENDS Scheduler, TLAPS

\* Slot numbers are naturals, and -1 is not one of them.
LEMMA SlotsAreNat == /\ \A s \in Slots : s \in Nat
                     /\ -1 \notin Slots
BY MaxProcessesAssumption DEF Slots

\* The invariant holds before any process is created.
LEMMA InitIInv == Init => IInv
<1> SUFFICES ASSUME Init PROVE IInv
  OBVIOUS
<1>1. \A s \in Slots : g_procs[s] = Unused
  BY DEF Init
<1>2. TypeOK
  <2>1. Unused \in Process
    BY DEF Unused, Process
  <2>2. g_procs \in [Slots -> Process]
    BY <2>1 DEF Init
  <2>3. cpu \in [pid : Int, stack : Stacks \cup {BootStack}]
    BY DEF Init
  <2>4. g_next_pid \in Nat \ {0} /\ g_current = -1
    BY DEF Init
  <2> QED BY <2>2, <2>3, <2>4 DEF Init, TypeOK
<1>3. RunningIsCurrent /\ OnOwnStack /\ ReadyResumable /\ StacksOwned /\ IdleAlone
  BY <1>1 DEF Init, Unused, RunningIsCurrent, OnOwnStack, ReadyResumable, StacksOwned,
              IdleAlone, Used, Ready
<1>4. PidInv /\ ModeInv
  BY <1>1 DEF Init, Unused, PidInv, ModeInv, Used
<1> QED BY <1>2, <1>3, <1>4 DEF IInv

\* process_create keeps the invariant.
LEMMA CreateIInv ==
  ASSUME IInv, Create
  PROVE  IInv'
<1>1. PICK idx \in Slots, stack \in Stacks \ allocated :
        /\ IsFirst(idx, LAMBDA s : ~Used(s))
        /\ g_procs' = Created(g_procs, idx, "task", stack)
        /\ allocated' = allocated \cup {stack}
  BY DEF Create
<1>2. /\ g_next_pid' = g_next_pid + 1 /\ g_next_pid \in Nat \ {0}
      /\ UNCHANGED <<g_current, g_scheduler_started, cpu, begun>>
      /\ CallerMayCreate
  BY DEF Create, IInv, TypeOK
<1> DEFINE new == [pid |-> g_next_pid, state |-> "READY", stack |-> stack,
                   entry |-> "task", rsp |-> stack, rip |-> "wrapper"]
<1>3. /\ ~Used(idx)
      /\ g_procs'[idx] = new
      /\ \A s \in Slots : s # idx => g_procs'[s] = g_procs[s]
  BY <1>1 DEF IsFirst, Created, IInv, TypeOK
<1>4. /\ \A s \in Slots : s # idx => (Used(s)' <=> Used(s)) /\ (Ready(s)' <=> Ready(s))
      /\ Used(idx)' /\ Ready(idx)' /\ ~Ready(idx)
  BY <1>3 DEF Used, Ready
<1>5. TypeOK'
  <2>1. new \in Process
    BY <1>2 DEF Process
  <2> QED BY <1>1, <1>2, <2>1 DEF IInv, TypeOK, Created
<1>6. RunningIsCurrent'
  BY <1>2, <1>3 DEF IInv, RunningIsCurrent, Used
<1>7. OnOwnStack'
  <2>1. cpu.pid > 0 => g_current \in Slots /\ Used(g_current)
    BY DEF IInv, ModeInv, RunningIsCurrent, Used
  <2> QED BY <1>1, <1>2, <1>3, <2>1 DEF IInv, OnOwnStack
<1>8. ReadyResumable'
  <2>1. g_next_pid \notin begun
    BY <1>2 DEF IInv, PidInv
  <2> QED BY <1>2, <1>3, <1>4, <2>1 DEF IInv, ReadyResumable
<1>9. StacksOwned'
  <2>1. \A s \in Slots : Used(s) => g_procs[s].stack \in allocated
    BY DEF IInv, StacksOwned
  <2>2. \A r, s \in Slots :
          Used(r)' /\ Used(s)' /\ r # s => g_procs'[r].stack # g_procs'[s].stack
    BY <1>3, <1>4, <2>1 DEF IInv, StacksOwned
  <2>3. ASSUME NEW x \in allocated'
        PROVE  \E s \in Slots : Used(s)' /\ x = g_procs'[s].stack
    BY <1>1, <1>3, <1>4 DEF IInv, StacksOwned
  <2>4. ASSUME NEW s \in Slots, Used(s)'
        PROVE  g_procs'[s].stack \in allocated'
    BY <1>1, <1>3, <1>4, <2>1, <2>4
  <2> QED BY <2>2, <2>3, <2>4 DEF StacksOwned
<1>10. IdleAlone'
  <2>1. \A r \in Slots : Used(r) => g_procs[r].entry # "idle"
    <3>1. CASE cpu.pid = 0
      BY <3>1 DEF IInv, ModeInv
    <3>2. CASE TaskRuns
      <4>1. g_current \in Slots /\ Used(g_current) /\ g_procs[g_current].entry = "task"
        BY <3>2 DEF TaskRuns, IInv, ModeInv, RunningIsCurrent, Used
      <4> QED BY <4>1 DEF IInv, IdleAlone
    <3> QED BY <1>2, <3>1, <3>2 DEF CallerMayCreate
  <2> QED BY <1>3, <1>4, <2>1 DEF IdleAlone
<1>11. PidInv'
  BY <1>2, <1>3, <1>4 DEF IInv, PidInv
<1>12. ModeInv'
  <2>1. cpu.pid # -1
    BY <1>2 DEF CallerMayCreate, TaskRuns
  <2> QED BY <1>1, <1>2, <1>3, <1>4, <2>1 DEF IInv, ModeInv
<1> QED BY <1>5, <1>6, <1>7, <1>8, <1>9, <1>10, <1>11, <1>12 DEF IInv

\* What process_yield, process_exit and Halt may rely on.
LEMMA TaskFacts ==
  ASSUME IInv, TaskRuns
  PROVE  /\ g_current \in Slots /\ Used(g_current) /\ ~Ready(g_current)
         /\ g_procs[g_current].state = "RUNNING"
         /\ g_procs[g_current].entry = "task"
         /\ g_procs[g_current].pid = cpu.pid /\ cpu.pid \in begun
         /\ g_procs[g_current].stack = cpu.stack
         /\ cpu.stack \in allocated /\ cpu.stack \in Stacks
         /\ g_scheduler_started /\ cpu.pid > 0 /\ cpu.pid \in Nat
         /\ \A s \in Slots : Used(s) => g_procs[s].entry # "idle"
<1>1. cpu.pid > 0 /\ g_scheduler_started /\ cpu.pid \in Nat
  BY DEF TaskRuns, IInv, ModeInv
<1>2. g_current \in Slots /\ g_procs[g_current].state = "RUNNING"
  BY <1>1 DEF IInv, RunningIsCurrent
<1>3. Used(g_current) /\ ~Ready(g_current) /\ g_procs[g_current].entry = "task"
  BY <1>2 DEF Used, Ready, TaskRuns
<1>4. /\ g_procs[g_current].pid = cpu.pid /\ cpu.pid \in begun
      /\ g_procs[g_current].stack = cpu.stack /\ cpu.stack \in allocated
  BY <1>1 DEF IInv, OnOwnStack, PidInv
<1>5. cpu.stack \in Stacks
  BY <1>4 DEF IInv, TypeOK
<1>6. \A s \in Slots : Used(s) => g_procs[s].entry # "idle"
  BY <1>2, <1>3 DEF IInv, IdleAlone
<1> QED BY <1>1, <1>2, <1>3, <1>4, <1>5, <1>6

\* scheduler_start with a ready process keeps the invariant.
LEMMA StartIInv ==
  ASSUME IInv, Start
  PROVE  IInv'
<1>1. PICK first \in Slots :
        /\ Ready(first)
        /\ g_current' = first
        /\ g_procs' = Dispatched(g_procs, first)
        /\ Load(g_procs, first)
  BY DEF Start, IsFirst
<1>2. /\ cpu.pid = 0 /\ ~g_scheduler_started /\ g_scheduler_started' = TRUE
      /\ g_next_pid' = g_next_pid /\ allocated' = allocated
  BY DEF Start
<1>3. /\ g_procs[first] \in Process
      /\ g_procs'[first] = [g_procs[first] EXCEPT !.state = "RUNNING"]
      /\ \A s \in Slots : s # first => g_procs'[s] = g_procs[s]
      /\ \A s \in Slots : g_procs[s].state # "RUNNING"
  BY <1>1, <1>2 DEF Dispatched, IInv, TypeOK, RunningIsCurrent
<1>4. /\ g_procs'[first].state = "RUNNING"
      /\ g_procs'[first].pid = g_procs[first].pid
      /\ g_procs'[first].stack = g_procs[first].stack
      /\ g_procs'[first].entry = g_procs[first].entry
      /\ g_procs'[first] \in Process
  BY <1>3 DEF Process
<1>5. /\ \A s \in Slots : Used(s)' <=> Used(s)
      /\ \A s \in Slots : s # first => (Ready(s)' <=> Ready(s))
      /\ ~Ready(first)' /\ Used(first)
      /\ \A s \in Slots : /\ g_procs'[s].pid = g_procs[s].pid
                          /\ g_procs'[s].stack = g_procs[s].stack
                          /\ g_procs'[s].entry = g_procs[s].entry
  BY <1>1, <1>3, <1>4 DEF Used, Ready
<1>6. /\ cpu'.pid = g_procs[first].pid /\ cpu'.stack = g_procs[first].stack
      /\ g_procs[first].stack \in allocated /\ g_procs[first].stack \in Stacks
      /\ g_procs[first].pid \in 1 .. (g_next_pid - 1)
      /\ begun' = begun \cup {g_procs[first].pid}
      /\ cpu' = [pid |-> g_procs[first].pid, stack |-> g_procs[first].stack]
  <2>1. /\ g_procs[first].rsp = g_procs[first].stack
        /\ g_procs[first].rip = "wrapper" <=> g_procs[first].pid \notin begun
    BY <1>1 DEF IInv, ReadyResumable
  <2>2. cpu' = [pid |-> g_procs[first].pid, stack |-> g_procs[first].stack]
    BY <1>1, <2>1 DEF Load
  <2>3. begun' = begun \cup {g_procs[first].pid}
    BY <1>1, <2>1 DEF Load
  <2>4. g_procs[first].stack \in allocated
    BY <1>5 DEF IInv, StacksOwned
  <2> QED BY <1>5, <2>2, <2>3, <2>4 DEF IInv, PidInv, ModeInv
<1>7. TypeOK'
  <2>1. g_procs' \in [Slots -> Process]
    BY <1>1, <1>4 DEF IInv, TypeOK, Dispatched
  <2>2. begun' \subseteq Nat
    <3>1. g_procs[first].pid \in Nat
      BY <1>3 DEF Process
    <3> QED BY <1>6, <3>1 DEF IInv, TypeOK
  <2>3. cpu' \in [pid : Int, stack : Stacks \cup {BootStack}]
    BY <1>6 DEF IInv, TypeOK
  <2> QED BY <1>1, <1>2, <2>1, <2>2, <2>3 DEF IInv, TypeOK
<1>8. RunningIsCurrent' /\ OnOwnStack'
  BY <1>1, <1>2, <1>3, <1>4, <1>6 DEF RunningIsCurrent, OnOwnStack
<1>9. ReadyResumable'
  <2>1. ASSUME NEW s \in Slots, Ready(s)'
        PROVE  /\ s # first /\ Ready(s) /\ g_procs'[s] = g_procs[s]
               /\ g_procs[s].pid # g_procs[first].pid
    BY <1>3, <1>5, <2>1 DEF IInv, PidInv, Used, Ready
  <2> QED BY <1>6, <2>1 DEF IInv, ReadyResumable
<1>10. StacksOwned' /\ IdleAlone'
  BY <1>2, <1>5 DEF IInv, StacksOwned, IdleAlone
<1>11. PidInv'
  <2>1. begun' \subseteq 1 .. (g_next_pid - 1)
    BY <1>6 DEF IInv, PidInv
  <2>2. cpu'.pid \in begun'
    BY <1>6
  <2> QED BY <1>2, <1>5, <2>1, <2>2 DEF IInv, PidInv
<1>12. ModeInv'
  <2>1. cpu'.pid \in Nat /\ cpu'.pid > 0
    BY <1>6 DEF IInv, TypeOK
  <2>2. \A s \in Slots : Used(s)' => g_procs'[s].stack \in Stacks
    BY <1>5 DEF IInv, ModeInv
  <2> QED BY <1>2, <2>1, <2>2 DEF ModeInv
<1> QED BY <1>7, <1>8, <1>9, <1>10, <1>11, <1>12 DEF IInv

\* Whenever the idle process is created it is alone and runs at once.
LEMMA IdleOnlyIInv ==
  ASSUME IInv, NEW idx \in Slots, NEW stack \in Stacks,
         g_procs' \in [Slots -> Process],
         g_procs'[idx].state = "RUNNING", g_procs'[idx].pid = g_next_pid,
         g_procs'[idx].stack = stack,
         \A s \in Slots : s # idx => g_procs'[s].state = "UNUSED",
         g_current' = idx, g_scheduler_started' = TRUE,
         g_next_pid' = g_next_pid + 1, allocated' = {stack},
         cpu' = [pid |-> g_next_pid, stack |-> stack],
         begun' = begun \cup {g_next_pid}
  PROVE  IInv'
<1>1. /\ \A s \in Slots : Used(s)' <=> s = idx
      /\ \A s \in Slots : ~Ready(s)'
  BY DEF Used, Ready
<1>2. /\ g_next_pid \in Nat /\ g_next_pid > 0
      /\ cpu'.pid = g_next_pid /\ cpu'.stack = stack
  BY DEF IInv, TypeOK
<1>3. TypeOK'
  <2>1. begun' \subseteq Nat /\ g_next_pid' \in Nat \ {0}
    BY <1>2 DEF IInv, TypeOK
  <2>2. cpu' \in [pid : Int, stack : Stacks \cup {BootStack}]
    BY <1>2
  <2> QED BY <2>1, <2>2 DEF TypeOK
<1>4. RunningIsCurrent' /\ OnOwnStack' /\ ReadyResumable' /\ IdleAlone'
  BY <1>1, <1>2 DEF RunningIsCurrent, OnOwnStack, ReadyResumable, IdleAlone
<1>5. StacksOwned'
  BY <1>1 DEF StacksOwned
<1>6. PidInv'
  <2>1. begun' \subseteq 1 .. (g_next_pid' - 1)
    <3>1. \A x \in begun : x \in 1 .. (g_next_pid - 1)
      BY DEF IInv, PidInv
    <3>2. \A x \in begun' : x \in 1 .. g_next_pid
      BY <1>2, <3>1
    <3> QED BY <1>2, <3>2
  <2> QED BY <1>1, <1>2, <2>1 DEF PidInv
<1>7. ModeInv'
  BY <1>1, <1>2 DEF ModeInv
<1> QED BY <1>3, <1>4, <1>5, <1>6, <1>7 DEF IInv

\* scheduler_start that creates the idle process keeps the invariant.
LEMMA StartIdleIInv ==
  ASSUME IInv, StartIdle
  PROVE  IInv'
<1>1. PICK idx \in Slots, stack \in Stacks \ allocated :
        /\ g_current' = idx
        /\ g_procs' = Dispatched(Created(g_procs, idx, "idle", stack), idx)
        /\ allocated' = allocated \cup {stack}
        /\ Load(Created(g_procs, idx, "idle", stack), idx)
  BY DEF StartIdle
<1>2. /\ cpu.pid = 0 /\ ~g_scheduler_started /\ \A s \in Slots : ~Ready(s)
      /\ g_next_pid' = g_next_pid + 1 /\ g_scheduler_started' = TRUE
  BY DEF StartIdle
<1>3. \A s \in Slots : ~Used(s)
  BY <1>2 DEF IInv, TypeOK, Process, RunningIsCurrent, Used, Ready
<1>4. allocated = {}
  BY <1>3 DEF IInv, StacksOwned
<1> DEFINE new == [pid |-> g_next_pid, state |-> "READY", stack |-> stack,
                   entry |-> "idle", rsp |-> stack, rip |-> "wrapper"]
           t == Created(g_procs, idx, "idle", stack)
<1>5. /\ t \in [Slots -> Process] /\ t[idx] = new
      /\ \A s \in Slots : s # idx => t[s] = g_procs[s]
  <2>1. new \in Process
    BY DEF IInv, TypeOK, Process
  <2> QED BY <2>1 DEF Created, IInv, TypeOK
<1>6. /\ t[idx].pid = g_next_pid /\ t[idx].rsp = stack /\ t[idx].rip = "wrapper"
      /\ t[idx].stack = stack /\ t[idx] \in Process
  BY <1>5
<1> HIDE DEF t, new
<1>7. g_procs' = [t EXCEPT ![idx] = [t[idx] EXCEPT !.state = "RUNNING"]]
  BY <1>1 DEF Dispatched, t
<1>8. /\ [t[idx] EXCEPT !.state = "RUNNING"] \in Process
      /\ [t[idx] EXCEPT !.state = "RUNNING"].state = "RUNNING"
      /\ [t[idx] EXCEPT !.state = "RUNNING"].pid = g_next_pid
      /\ [t[idx] EXCEPT !.state = "RUNNING"].stack = stack
  BY <1>6 DEF Process
<1>9. /\ g_procs' \in [Slots -> Process]
      /\ g_procs'[idx].state = "RUNNING" /\ g_procs'[idx].pid = g_next_pid
      /\ g_procs'[idx].stack = stack
      /\ \A s \in Slots : s # idx => g_procs'[s].state = "UNUSED"
  BY <1>3, <1>5, <1>7, <1>8 DEF Used
<1>10. /\ cpu' = [pid |-> g_next_pid, stack |-> stack]
       /\ begun' = begun \cup {g_next_pid}
  BY <1>1, <1>6 DEF Load, t
<1> QED BY <1>1, <1>2, <1>4, <1>9, <1>10, IdleOnlyIInv

\* After the last process has given itself up the table is empty and every
\* stack is back in the heap.
LEMMA LastExitFacts ==
  ASSUME IInv, TaskRuns, \A s \in Slots : ~Other(s)
  PROVE  /\ Cleared(g_procs, g_current) \in [Slots -> Process]
         /\ \A s \in Slots : Cleared(g_procs, g_current)[s].state = "UNUSED"
         /\ allocated \ {g_procs[g_current].stack} = {}
<1>1. g_current \in Slots
  BY TaskFacts
<1>2. \A s \in Slots : s # g_current => g_procs[s].state = "UNUSED"
  BY DEF Other, Ready, IInv, TypeOK, Process
<1> DEFINE gone == [g_procs[g_current] EXCEPT !.state = "UNUSED", !.pid = 0, !.stack = NULL]
<1>3. gone \in Process /\ gone.state = "UNUSED"
  <2>1. g_procs[g_current] \in Process
    BY <1>1 DEF IInv, TypeOK
  <2> QED BY <2>1 DEF Process
<1> HIDE DEF gone
<1>4. Cleared(g_procs, g_current) = [g_procs EXCEPT ![g_current] = gone]
  BY DEF Cleared, gone
<1>5. allocated \ {g_procs[g_current].stack} = {}
  BY <1>1, <1>2 DEF IInv, StacksOwned, Used
<1> QED BY <1>1, <1>2, <1>3, <1>4, <1>5 DEF IInv, TypeOK

\* process_exit that finds no memory for the idle process keeps the
\* invariant.
LEMMA ExitFatalIInv ==
  ASSUME IInv, ExitFatal
  PROVE  IInv'
<1>1. /\ TaskRuns /\ \A s \in Slots : ~Other(s)
      /\ g_procs' = Cleared(g_procs, g_current)
      /\ allocated' = allocated \ {g_procs[g_current].stack}
      /\ g_scheduler_started' = FALSE /\ g_current' = -1
      /\ cpu' = [cpu EXCEPT !.pid = -1]
      /\ g_next_pid' = g_next_pid /\ begun' = begun
  BY DEF ExitFatal, StackFreed
<1>2. /\ g_procs' \in [Slots -> Process] /\ allocated' = {}
      /\ \A s \in Slots : g_procs'[s].state = "UNUSED"
  BY <1>1, LastExitFacts
<1>3. \A s \in Slots : ~Used(s)' /\ ~Ready(s)'
  BY <1>2 DEF Used, Ready
<1>4. cpu' \in [pid : Int, stack : Stacks \cup {BootStack}] /\ cpu'.pid = -1
  BY <1>1 DEF IInv, TypeOK
<1>5. TypeOK'
  BY <1>1, <1>2, <1>4 DEF IInv, TypeOK
<1>6. RunningIsCurrent' /\ OnOwnStack' /\ ReadyResumable' /\ IdleAlone' /\ StacksOwned'
  BY <1>1, <1>2, <1>3, <1>4
     DEF RunningIsCurrent, OnOwnStack, ReadyResumable, IdleAlone, StacksOwned
<1>7. PidInv' /\ ModeInv'
  BY <1>1, <1>3, <1>4 DEF IInv, PidInv, ModeInv
<1> QED BY <1>5, <1>6, <1>7 DEF IInv

\* process_exit of the last process keeps the invariant.
LEMMA ExitToIdleIInv ==
  ASSUME IInv, ExitToIdle
  PROVE  IInv'
<1> DEFINE c == Cleared(g_procs, g_current)
           left == allocated \ {g_procs[g_current].stack}
<1>1. PICK idx \in Slots, stack \in Stacks \ left :
        /\ g_current' = idx
        /\ g_procs' = Dispatched(Created(c, idx, "idle", stack), idx)
        /\ allocated' = left \cup {stack}
        /\ Load(Created(c, idx, "idle", stack), idx)
  BY DEF ExitToIdle, StackFreed
<1>2. /\ TaskRuns /\ \A s \in Slots : ~Other(s)
      /\ g_next_pid' = g_next_pid + 1 /\ g_scheduler_started' = g_scheduler_started
  BY DEF ExitToIdle
<1>3. /\ c \in [Slots -> Process] /\ left = {}
      /\ \A s \in Slots : c[s].state = "UNUSED"
  BY <1>2, LastExitFacts
<1>4. g_scheduler_started' = TRUE
  BY <1>2, TaskFacts DEF IInv, TypeOK
<1> HIDE DEF c, left
<1> DEFINE new == [pid |-> g_next_pid, state |-> "READY", stack |-> stack,
                   entry |-> "idle", rsp |-> stack, rip |-> "wrapper"]
           t == Created(c, idx, "idle", stack)
<1>5. /\ t \in [Slots -> Process] /\ t[idx] = new
      /\ \A s \in Slots : s # idx => t[s] = c[s]
  <2>1. new \in Process
    BY DEF IInv, TypeOK, Process
  <2> QED BY <1>3, <2>1 DEF Created
<1>6. /\ t[idx].pid = g_next_pid /\ t[idx].rsp = stack /\ t[idx].rip = "wrapper"
      /\ t[idx].stack = stack /\ t[idx] \in Process
  BY <1>5
<1> HIDE DEF t, new
<1>7. g_procs' = [t EXCEPT ![idx] = [t[idx] EXCEPT !.state = "RUNNING"]]
  BY <1>1 DEF Dispatched, t
<1>8. /\ [t[idx] EXCEPT !.state = "RUNNING"] \in Process
      /\ [t[idx] EXCEPT !.state = "RUNNING"].state = "RUNNING"
      /\ [t[idx] EXCEPT !.state = "RUNNING"].pid = g_next_pid
      /\ [t[idx] EXCEPT !.state = "RUNNING"].stack = stack
  BY <1>6 DEF Process
<1>9. /\ g_procs' \in [Slots -> Process]
      /\ g_procs'[idx].state = "RUNNING" /\ g_procs'[idx].pid = g_next_pid
      /\ g_procs'[idx].stack = stack
      /\ \A s \in Slots : s # idx => g_procs'[s].state = "UNUSED"
  BY <1>3, <1>5, <1>7, <1>8
<1>10. /\ cpu' = [pid |-> g_next_pid, stack |-> stack]
       /\ begun' = begun \cup {g_next_pid}
  BY <1>1, <1>6 DEF Load, t
<1> QED BY <1>1, <1>2, <1>3, <1>4, <1>9, <1>10, IdleOnlyIInv

\* process_exit that switches to another process keeps the invariant.
LEMMA ExitIInv ==
  ASSUME IInv, Exit
  PROVE  IInv'
<1> DEFINE t == Cleared(g_procs, g_current)
<1>1. PICK nxt \in Slots :
        /\ Other(nxt)
        /\ g_current' = nxt
        /\ g_procs' = Dispatched(t, nxt)
        /\ Load(t, nxt)
  BY DEF Exit, IsFirst
<1>2. /\ TaskRuns /\ allocated' = allocated \ {g_procs[g_current].stack}
      /\ g_next_pid' = g_next_pid /\ g_scheduler_started' = g_scheduler_started
  BY DEF Exit, StackFreed
<1>3. PICK me \in Slots : me = g_current
  BY <1>2, TaskFacts
<1>4. /\ Used(me) /\ ~Ready(me) /\ g_procs[me].pid = cpu.pid /\ g_scheduler_started
      /\ g_procs[me].state = "RUNNING" /\ g_procs[me].stack \in allocated
      /\ \A s \in Slots : Used(s) => g_procs[s].entry # "idle"
  BY <1>2, <1>3, TaskFacts
<1>5. nxt # me /\ Ready(nxt) /\ Used(nxt)
  BY <1>1, <1>3, <1>4 DEF Other, Ready, Used, IInv, RunningIsCurrent
<1> DEFINE gone == [g_procs[me] EXCEPT !.state = "UNUSED", !.pid = 0, !.stack = NULL]
           run == [g_procs[nxt] EXCEPT !.state = "RUNNING"]
<1>6. /\ gone \in Process /\ gone.state = "UNUSED"
      /\ run \in Process /\ run.state = "RUNNING" /\ run.pid = g_procs[nxt].pid
      /\ run.stack = g_procs[nxt].stack /\ run.entry = g_procs[nxt].entry
  <2>1. g_procs[me] \in Process /\ g_procs[nxt] \in Process
    BY DEF IInv, TypeOK
  <2>2. gone \in Process /\ gone.state = "UNUSED"
    BY <2>1 DEF Process
  <2>3. /\ run \in Process /\ run.state = "RUNNING" /\ run.pid = g_procs[nxt].pid
        /\ run.stack = g_procs[nxt].stack /\ run.entry = g_procs[nxt].entry
    BY <2>1 DEF Process
  <2> QED BY <2>2, <2>3
<1> HIDE DEF gone, run
<1>7. /\ t[nxt] = g_procs[nxt]
      /\ t = [g_procs EXCEPT ![me] = gone]
      /\ g_procs' = [t EXCEPT ![nxt] = run]
  <2>1. t = [g_procs EXCEPT ![me] = gone]
    BY <1>3 DEF Cleared, gone
  <2>2. t[nxt] = g_procs[nxt]
    BY <1>5, <2>1 DEF IInv, TypeOK
  <2> HIDE DEF t
  <2>3. g_procs' = [t EXCEPT ![nxt] = [t[nxt] EXCEPT !.state = "RUNNING"]]
    BY <1>1 DEF Dispatched
  <2> QED BY <2>1, <2>2, <2>3 DEF run
<1>8. /\ g_procs' \in [Slots -> Process]
      /\ g_procs'[me] = gone /\ g_procs'[nxt] = run
      /\ \A s \in Slots : s # me /\ s # nxt => g_procs'[s] = g_procs[s]
  BY <1>5, <1>6, <1>7 DEF IInv, TypeOK
<1>9. /\ \A s \in Slots : Used(s)' <=> Used(s) /\ s # me
      /\ \A s \in Slots : Ready(s)' <=> Ready(s) /\ s # nxt
      /\ \A s \in Slots : s # me => /\ g_procs'[s].pid = g_procs[s].pid
                                    /\ g_procs'[s].stack = g_procs[s].stack
                                    /\ g_procs'[s].entry = g_procs[s].entry
  BY <1>4, <1>5, <1>6, <1>8 DEF Used, Ready
<1>10. /\ cpu' = [pid |-> g_procs[nxt].pid, stack |-> g_procs[nxt].stack]
       /\ begun' = begun \cup {g_procs[nxt].pid}
       /\ g_procs[nxt].pid \in 1 .. (g_next_pid - 1) /\ g_procs[nxt].pid \in Nat
       /\ g_procs[nxt].stack \in Stacks
  <2>1. /\ g_procs[nxt].rsp = g_procs[nxt].stack
        /\ g_procs[nxt].rip = "wrapper" <=> g_procs[nxt].pid \notin begun
    BY <1>5 DEF IInv, ReadyResumable
  <2> HIDE DEF t
  <2>2. cpu' = [pid |-> g_procs[nxt].pid, stack |-> g_procs[nxt].stack]
    BY <1>1, <1>7, <2>1 DEF Load
  <2>3. begun' = begun \cup {g_procs[nxt].pid}
    BY <1>1, <1>7, <2>1 DEF Load
  <2>4. g_procs[nxt].pid \in Nat
    BY DEF IInv, TypeOK, Process
  <2> QED BY <1>5, <2>2, <2>3, <2>4 DEF IInv, PidInv, ModeInv
<1>11. /\ cpu'.pid = g_procs[nxt].pid /\ cpu'.stack = g_procs[nxt].stack
       /\ cpu'.pid > 0
  BY <1>10 DEF IInv, TypeOK
<1>12. g_procs[nxt].stack \in allocated' /\ g_procs[nxt].stack # g_procs[me].stack
  BY <1>2, <1>3, <1>4, <1>5 DEF IInv, StacksOwned
<1>13. TypeOK'
  <2>1. cpu' \in [pid : Int, stack : Stacks \cup {BootStack}]
    BY <1>10
  <2> QED BY <1>1, <1>2, <1>8, <1>10, <2>1 DEF IInv, TypeOK
<1>14. RunningIsCurrent' /\ OnOwnStack'
  <2>1. RunningIsCurrent'
    BY <1>1, <1>2, <1>3, <1>4, <1>6, <1>8 DEF IInv, RunningIsCurrent
  <2> QED BY <1>1, <1>6, <1>8, <1>11, <1>12, <2>1 DEF OnOwnStack
<1>15. ReadyResumable'
  <2>1. ASSUME NEW s \in Slots, Ready(s)'
        PROVE  /\ Ready(s) /\ g_procs'[s] = g_procs[s] /\ g_procs[s].pid # g_procs[nxt].pid
    <3>1. Ready(s) /\ s # nxt /\ s # me /\ Used(s)
      BY <1>4, <1>9, <2>1 DEF Ready, Used
    <3> QED BY <1>5, <1>8, <3>1 DEF IInv, PidInv
  <2> QED BY <1>10, <2>1 DEF IInv, ReadyResumable
<1>16. StacksOwned'
  <2>1. ASSUME NEW x \in allocated'
        PROVE  \E s \in Slots : Used(s)' /\ x = g_procs'[s].stack
    <3>1. PICK s \in Slots : Used(s) /\ x = g_procs[s].stack
      BY <1>2 DEF IInv, StacksOwned
    <3>2. s # me
      BY <1>2, <1>3, <3>1
    <3> QED BY <1>9, <3>1, <3>2
  <2>2. ASSUME NEW s \in Slots, Used(s)'
        PROVE  g_procs'[s].stack \in allocated'
    <3>1. Used(s) /\ s # me /\ g_procs'[s].stack = g_procs[s].stack
      BY <1>9, <2>2
    <3>2. g_procs[s].stack # g_procs[me].stack /\ g_procs[s].stack \in allocated
      BY <1>4, <3>1 DEF IInv, StacksOwned
    <3> QED BY <1>2, <1>3, <3>1, <3>2
  <2>3. \A r, s \in Slots :
          Used(r)' /\ Used(s)' /\ r # s => g_procs'[r].stack # g_procs'[s].stack
    BY <1>9 DEF IInv, StacksOwned
  <2> QED BY <2>1, <2>2, <2>3 DEF StacksOwned
<1>17. IdleAlone'
  BY <1>4, <1>9 DEF IdleAlone
<1>18. PidInv'
  <2>1. begun' \subseteq 1 .. (g_next_pid - 1)
    BY <1>10 DEF IInv, PidInv
  <2>2. cpu'.pid \in begun'
    BY <1>10, <1>11
  <2> QED BY <1>2, <1>9, <2>1, <2>2 DEF IInv, PidInv
<1>19. ModeInv'
  <2>1. cpu'.pid \in Nat /\ cpu'.pid > 0
    BY <1>10, <1>11
  <2>2. \A s \in Slots : Used(s)' => g_procs'[s].stack \in Stacks
    BY <1>9 DEF IInv, ModeInv
  <2> QED BY <1>2, <1>4, <2>1, <2>2 DEF ModeInv
<1> QED BY <1>13, <1>14, <1>15, <1>16, <1>17, <1>18, <1>19 DEF IInv

\* process_yield that switches keeps the invariant.
LEMMA YieldIInv ==
  ASSUME IInv, Yield
  PROVE  IInv'
<1> DEFINE t == [g_procs EXCEPT ![g_current] = [@ EXCEPT !.state = "READY"]]
<1>1. PICK nxt \in Slots \ {g_current} :
        /\ Ready(nxt)
        /\ g_current' = nxt
        /\ g_procs' = Saved(Dispatched(t, nxt), g_current)
        /\ Load(g_procs, nxt)
  BY DEF Yield
<1>2. /\ TaskRuns /\ allocated' = allocated
      /\ g_next_pid' = g_next_pid /\ g_scheduler_started' = g_scheduler_started
  BY DEF Yield
<1>3. PICK me \in Slots : me = g_current
  BY <1>2, TaskFacts
<1>4. /\ Used(me) /\ ~Ready(me) /\ g_procs[me].pid = cpu.pid /\ g_scheduler_started
      /\ g_procs[me].state = "RUNNING" /\ g_procs[me].stack = cpu.stack
      /\ cpu.stack \in Stacks /\ cpu.pid \in begun
      /\ \A s \in Slots : Used(s) => g_procs[s].entry # "idle"
  BY <1>2, <1>3, TaskFacts
<1>5. nxt \in Slots /\ nxt # me /\ Used(nxt)
  BY <1>1, <1>3 DEF Ready, Used
<1> DEFINE rdy == [g_procs[me] EXCEPT !.state = "READY"]
           left == [rdy EXCEPT !.rsp = cpu.stack, !.rip = "yield"]
           run == [g_procs[nxt] EXCEPT !.state = "RUNNING"]
<1>6. /\ left \in Process /\ left.state = "READY" /\ left.pid = g_procs[me].pid
      /\ left.stack = g_procs[me].stack /\ left.entry = g_procs[me].entry
      /\ left.rsp = cpu.stack /\ left.rip = "yield"
  <2>1. g_procs[me] \in Process
    BY DEF IInv, TypeOK
  <2> QED BY <1>4, <2>1 DEF Process
<1>7. /\ run \in Process /\ run.state = "RUNNING" /\ run.pid = g_procs[nxt].pid
      /\ run.stack = g_procs[nxt].stack /\ run.entry = g_procs[nxt].entry
  BY <1>5 DEF IInv, TypeOK, Process
<1> HIDE DEF rdy, left, run
<1>8. /\ g_procs' \in [Slots -> Process]
      /\ g_procs'[me] = left /\ g_procs'[nxt] = run
      /\ \A s \in Slots : s # me /\ s # nxt => g_procs'[s] = g_procs[s]
  <2>1. t = [g_procs EXCEPT ![me] = rdy]
    BY <1>3 DEF rdy
  <2>2. t[nxt] = g_procs[nxt] /\ t[me] = rdy /\ DOMAIN t = Slots
    BY <1>5, <2>1 DEF IInv, TypeOK
  <2>3. \A s \in Slots : s # me => t[s] = g_procs[s]
    BY <2>1 DEF IInv, TypeOK
  <2> HIDE DEF t
  <2> DEFINE u == Dispatched(t, nxt)
  <2>4. u = [t EXCEPT ![nxt] = run]
    BY <2>2 DEF Dispatched, run
  <2>5. u[me] = rdy /\ u[nxt] = run /\ DOMAIN u = Slots
    BY <1>5, <2>2, <2>4
  <2>6. \A s \in Slots : s # me /\ s # nxt => u[s] = g_procs[s]
    BY <2>2, <2>3, <2>4
  <2> HIDE DEF u
  <2>7. g_procs' = [u EXCEPT ![me] = left]
    BY <1>1, <1>3, <2>5 DEF Saved, left, u
  <2>8. /\ g_procs'[me] = left /\ g_procs'[nxt] = run /\ DOMAIN g_procs' = Slots
        /\ \A s \in Slots : s # me /\ s # nxt => g_procs'[s] = g_procs[s]
    BY <1>5, <2>5, <2>6, <2>7
  <2>9. g_procs' = [s \in Slots |-> g_procs'[s]]
    BY <2>7, <2>8
  <2>10. \A s \in Slots : g_procs'[s] \in Process
    BY <1>6, <1>7, <2>8 DEF IInv, TypeOK
  <2> QED BY <2>8, <2>9, <2>10
<1>9. /\ \A s \in Slots : Used(s)' <=> Used(s)
      /\ \A s \in Slots : Ready(s)' => s = me \/ (Ready(s) /\ s # nxt)
      /\ \A s \in Slots : /\ g_procs'[s].pid = g_procs[s].pid
                          /\ g_procs'[s].stack = g_procs[s].stack
                          /\ g_procs'[s].entry = g_procs[s].entry
  BY <1>4, <1>5, <1>6, <1>7, <1>8 DEF Used, Ready
<1>10. /\ cpu' = [pid |-> g_procs[nxt].pid, stack |-> g_procs[nxt].stack]
       /\ begun' = begun \cup {g_procs[nxt].pid}
       /\ g_procs[nxt].pid \in 1 .. (g_next_pid - 1) /\ g_procs[nxt].pid \in Nat
       /\ g_procs[nxt].stack \in Stacks
  <2>1. /\ g_procs[nxt].rsp = g_procs[nxt].stack
        /\ g_procs[nxt].rip = "wrapper" <=> g_procs[nxt].pid \notin begun
    BY <1>1, <1>5 DEF IInv, ReadyResumable
  <2>2. cpu' = [pid |-> g_procs[nxt].pid, stack |-> g_procs[nxt].stack]
    BY <1>1, <2>1 DEF Load
  <2>3. begun' = begun \cup {g_procs[nxt].pid}
    BY <1>1, <2>1 DEF Load
  <2>4. g_procs[nxt].pid \in Nat
    BY <1>5 DEF IInv, TypeOK, Process
  <2> QED BY <1>5, <2>2, <2>3, <2>4 DEF IInv, PidInv, ModeInv
<1>11. /\ cpu'.pid = g_procs[nxt].pid /\ cpu'.stack = g_procs[nxt].stack
       /\ cpu'.pid > 0
  BY <1>10 DEF IInv, TypeOK
<1>12. g_procs[nxt].stack \in allocated'
  BY <1>2, <1>5 DEF IInv, StacksOwned
<1>13. TypeOK'
  <2>1. cpu' \in [pid : Int, stack : Stacks \cup {BootStack}]
    BY <1>10
  <2> QED BY <1>1, <1>2, <1>8, <1>10, <2>1 DEF IInv, TypeOK
<1>14. RunningIsCurrent' /\ OnOwnStack'
  <2>1. RunningIsCurrent'
    <3>1. \A s \in Slots : g_procs'[s].state = "RUNNING" <=> s = nxt
      <4>1. \A s \in Slots : g_procs[s].state = "RUNNING" <=> s = me
        BY <1>3, <1>4 DEF IInv, RunningIsCurrent
      <4> QED BY <1>5, <1>6, <1>7, <1>8, <4>1
    <3> QED BY <1>1, <1>2, <1>4, <3>1 DEF RunningIsCurrent
  <2> QED BY <1>1, <1>7, <1>8, <1>11, <1>12, <2>1 DEF OnOwnStack
<1>15. ReadyResumable'
  <2>1. ASSUME NEW s \in Slots, Ready(s)', s # me
        PROVE  /\ Ready(s) /\ g_procs'[s] = g_procs[s] /\ g_procs[s].pid # g_procs[nxt].pid
    <3>1. Ready(s) /\ s # nxt /\ Used(s)
      BY <1>9, <2>1 DEF Ready, Used
    <3> QED BY <1>5, <1>8, <2>1, <3>1 DEF IInv, PidInv
  <2>2. /\ g_procs'[me].rsp = g_procs'[me].stack
        /\ g_procs'[me].rip = "yield" /\ g_procs'[me].pid \in begun'
    BY <1>4, <1>6, <1>8, <1>10
  <2> QED BY <1>10, <2>1, <2>2 DEF IInv, ReadyResumable
<1>16. StacksOwned' /\ IdleAlone'
  BY <1>2, <1>9 DEF IInv, StacksOwned, IdleAlone
<1>17. PidInv'
  <2>1. begun' \subseteq 1 .. (g_next_pid - 1)
    BY <1>10 DEF IInv, PidInv
  <2>2. cpu'.pid \in begun'
    BY <1>10, <1>11
  <2> QED BY <1>2, <1>9, <2>1, <2>2 DEF IInv, PidInv
<1>18. ModeInv'
  <2>1. cpu'.pid \in Nat /\ cpu'.pid > 0
    BY <1>10, <1>11
  <2>2. \A s \in Slots : Used(s)' => g_procs'[s].stack \in Stacks
    BY <1>9 DEF IInv, ModeInv
  <2> QED BY <1>2, <1>4, <2>1, <2>2 DEF ModeInv
<1> QED BY <1>13, <1>14, <1>15, <1>16, <1>17, <1>18 DEF IInv

\* Every scheduler call, and every stuttering step, keeps the invariant.
LEMMA NextIInv == IInv /\ [Next]_vars => IInv'
<1> SUFFICES ASSUME IInv, [Next]_vars
             PROVE  IInv'
  OBVIOUS
<1>1. CASE Create
  BY <1>1, CreateIInv
<1>2. CASE Start
  BY <1>2, StartIInv
<1>3. CASE StartIdle
  BY <1>3, StartIdleIInv
<1>4. CASE Yield
  BY <1>4, YieldIInv
<1>5. CASE Exit
  BY <1>5, ExitIInv
<1>6. CASE ExitToIdle
  BY <1>6, ExitToIdleIInv
<1>7. CASE ExitFatal
  BY <1>7, ExitFatalIInv
<1>8. CASE UNCHANGED vars
  BY <1>8
     DEF vars, IInv, TypeOK, RunningIsCurrent, OnOwnStack, ReadyResumable, StacksOwned,
         IdleAlone, PidInv, ModeInv, Used, Ready
<1> QED BY <1>1, <1>2, <1>3, <1>4, <1>5, <1>6, <1>7, <1>8
        DEF Next, TaskStep, YieldAlone, Halt

\* The inductive invariant holds in every reachable state of the scheduler.
THEOREM SchedulerInvariant == Spec => []IInv
BY InitIInv, NextIInv, PTL DEF Spec

\* The scheduler's variables keep their types.
THEOREM SchedulerTypeOK == Spec => []TypeOK
<1>1. IInv => TypeOK
  BY DEF IInv
<1> QED BY <1>1, SchedulerInvariant, PTL

\* Exactly the process in slot g_current is RUNNING (process_yield,
\* process_exit, scheduler_start).
THEOREM SchedulerRunningIsCurrent == Spec => []RunningIsCurrent
<1>1. IInv => RunningIsCurrent
  BY DEF IInv
<1> QED BY <1>1, SchedulerInvariant, PTL

\* Processes run on their own, still allocated, stacks (context_switch_asm).
THEOREM SchedulerOnOwnStack == Spec => []OnOwnStack
<1>1. IInv => OnOwnStack
  BY DEF IInv
<1> QED BY <1>1, SchedulerInvariant, PTL

\* No stack leaks and none is shared (process_create, process_exit).
THEOREM SchedulerStacksOwned == Spec => []StacksOwned
<1>1. IInv => StacksOwned
  BY DEF IInv
<1> QED BY <1>1, SchedulerInvariant, PTL

\* A ready process resumes on its own stack, at its entry point exactly when
\* it has never run.
THEOREM SchedulerReadyResumable == Spec => []ReadyResumable
<1>1. IInv => ReadyResumable
  BY DEF IInv
<1> QED BY <1>1, SchedulerInvariant, PTL

\* The idle process never shares the table with another process.
THEOREM SchedulerIdleAlone == Spec => []IdleAlone
<1>1. IInv => IdleAlone
  BY DEF IInv
<1> QED BY <1>1, SchedulerInvariant, PTL
=============================================================================
