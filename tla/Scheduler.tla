------------------------------ MODULE Scheduler -----------------------------
(***************************************************************************)
(* The cooperative scheduler of src/src/kernel/scheduler.c with the        *)
(* register switch of src/src/kernel/context_switch.asm.                   *)
(*                                                                         *)
(* g_procs is the process table.  Of a process_context_t the model keeps   *)
(* entry (the rbx that process_create plants for process_wrapper), rsp (in *)
(* which stack the saved stack pointer lies) and rip (whether the context  *)
(* starts at process_wrapper or resumes after a process_yield); module     *)
(* SchedStack models the stack pointer itself.                             *)
(*                                                                         *)
(* Nothing preempts a process: scheduler_tick returns at once and the      *)
(* interrupt handlers never call the scheduler, so each call below is one  *)
(* step.  malloc(STACK_SIZE) returns some stack that is not in use, or     *)
(* fails at any time: the rest of the kernel shares the heap.              *)
(***************************************************************************)
EXTENDS Integers

CONSTANTS
  MAX_PROCESSES,
  Stacks,      \* the blocks malloc(STACK_SIZE) may return
  NULL,        \* "no stack"
  BootStack,   \* the stack kernel_init runs on
  Creators,    \* who calls process_create for a task: "boot", "task"
  MaxPid       \* bound on g_next_pid when a task is created

ASSUME MaxProcessesAssumption == MAX_PROCESSES \in Nat \ {0}

ASSUME StacksAssumption == NULL \notin Stacks /\ BootStack \notin Stacks

ASSUME MaxPidAssumption == MaxPid \in Nat

VARIABLES
  g_procs,
  g_current,             \* slot of the running process, or -1
  g_next_pid,
  g_scheduler_started,
  allocated,             \* the stacks malloc has handed out and not got back
  cpu,                   \* what the processor executes: the process id whose
                         \* code runs (0: kernel_init, -1: nothing defined)
                         \* and the stack it runs on
  begun                  \* history: the processes whose entry has been called

vars == <<g_procs, g_current, g_next_pid, g_scheduler_started, allocated, cpu, begun>>

Slots == 0 .. (MAX_PROCESSES - 1)

Unused == [pid |-> 0, state |-> "UNUSED", stack |-> NULL,
           entry |-> "none", rsp |-> NULL, rip |-> "none"]

Used(s) == g_procs[s].state # "UNUSED"

Ready(s) == g_procs[s].state = "READY"

\* The loops "for (i = 0; i < MAX_PROCESSES; ++i)" that stop at a hit.
IsFirst(s, P(_)) == P(s) /\ \A r \in Slots : r < s => ~P(r)

Init ==
  /\ g_procs = [s \in Slots |-> Unused]
  /\ g_current = -1
  /\ g_next_pid = 1
  /\ g_scheduler_started = FALSE
  /\ allocated = {}
  /\ cpu = [pid |-> 0, stack |-> BootStack]
  /\ begun = {}

-----------------------------------------------------------------------------
(***************************************************************************)
(* Building blocks: the updates of the process table.                      *)
(***************************************************************************)

\* process_create fills slot idx of table t.
Created(t, idx, entry, stack) ==
  [t EXCEPT ![idx] = [pid |-> g_next_pid, state |-> "READY", stack |-> stack,
                      entry |-> entry, rsp |-> stack, rip |-> "wrapper"]]

\* process_exit clears the slot; the context stays as it was.
Cleared(t, s) ==
  [t EXCEPT ![s] = [@ EXCEPT !.state = "UNUSED", !.pid = 0, !.stack = NULL]]

\* The stacks left allocated by free(proc->stack) in process_exit, and a
\* mutant that forgets the call.
StackLeaked == allocated

StackFreed == allocated \ {g_procs[g_current].stack}

\* Mutant of Dispatched: the state of the next process is not updated.
StateKept(t, s) == t

Dispatched(t, s) == [t EXCEPT ![s] = [@ EXCEPT !.state = "RUNNING"]]

\* Mutant of Saved: the old context is not written.
SavedNothing(t, s) == t

\* context_switch_asm with a non-NULL old context: it saves the stack the
\* processor is on and the return address of the call.
Saved(t, s) == [t EXCEPT ![s] = [@ EXCEPT !.rsp = cpu.stack, !.rip = "yield"]]

\* Mutant of Load: rsp is not loaded.
LoadWithoutStack(t, s) ==
  /\ cpu' = [pid |-> t[s].pid, stack |-> cpu.stack]
  /\ begun' = IF t[s].rip = "wrapper" THEN begun \cup {t[s].pid} ELSE begun

\* The second half of context_switch_asm: load slot s of table t.
Load(t, s) ==
  /\ cpu' = [pid |-> t[s].pid, stack |-> t[s].rsp]
  /\ begun' = IF t[s].rip = "wrapper" THEN begun \cup {t[s].pid} ELSE begun

-----------------------------------------------------------------------------
\* The task code that runs: an idle process only executes hlt.
TaskRuns == cpu.pid > 0 /\ g_procs[g_current].entry = "task"

CallerMayCreate ==
  \/ cpu.pid = 0 /\ "boot" \in Creators
  \/ TaskRuns /\ "task" \in Creators

\* process_create(entry, arg) for a task.  With no free slot or no memory it
\* returns -1 and nothing changes.
Create ==
  /\ CallerMayCreate
  /\ g_next_pid <= MaxPid
  /\ \E idx \in Slots, stack \in Stacks \ allocated :
       /\ IsFirst(idx, LAMBDA s : ~Used(s))
       /\ g_procs' = Created(g_procs, idx, "task", stack)
       /\ allocated' = allocated \cup {stack}
  /\ g_next_pid' = g_next_pid + 1
  /\ UNCHANGED <<g_current, g_scheduler_started, cpu, begun>>

\* scheduler_start, called by kernel_init, with a process to run.
Start ==
  /\ cpu.pid = 0
  /\ ~g_scheduler_started
  /\ \E first \in Slots :
       /\ IsFirst(first, Ready)
       /\ g_current' = first
       /\ g_procs' = Dispatched(g_procs, first)
       /\ Load(g_procs, first)
  /\ g_scheduler_started' = TRUE
  /\ UNCHANGED <<g_next_pid, allocated>>

\* scheduler_start with no process: it creates the idle one.  If that fails
\* scheduler_start returns to kernel_init and nothing has changed.
StartIdle ==
  /\ cpu.pid = 0
  /\ ~g_scheduler_started
  /\ \A s \in Slots : ~Ready(s)
  /\ \E idx \in Slots, stack \in Stacks \ allocated :
       LET t == Created(g_procs, idx, "idle", stack)
       IN  /\ IsFirst(idx, LAMBDA s : ~Used(s))
           /\ g_current' = idx
           /\ g_procs' = Dispatched(t, idx)
           /\ allocated' = allocated \cup {stack}
           /\ Load(t, idx)
  /\ g_next_pid' = g_next_pid + 1
  /\ g_scheduler_started' = TRUE

\* Mutant of Distance: the scan always starts at slot 0.
FromSlotZero(s) == s

\* Slot s comes before slot r in the scan that starts behind g_current and
\* ends with g_current itself.
Distance(s) == (s - g_current - 1 + MAX_PROCESSES) % MAX_PROCESSES

\* process_yield with another process to switch to.  While the scan runs,
\* the caller is READY itself, as the last candidate.
Yield ==
  /\ TaskRuns
  /\ g_scheduler_started
  /\ \E next \in Slots \ {g_current} :
       /\ Ready(next)
       /\ \A s \in Slots \ {g_current} : Ready(s) => Distance(next) <= Distance(s)
       /\ g_current' = next
       /\ g_procs' = Saved(Dispatched([g_procs EXCEPT ![g_current] =
                                         [@ EXCEPT !.state = "READY"]], next),
                           g_current)
       /\ Load(g_procs, next)
  /\ UNCHANGED <<g_next_pid, g_scheduler_started, allocated>>

\* process_yield when the caller is the only candidate: it just returns.
YieldAlone ==
  /\ TaskRuns
  /\ g_scheduler_started
  /\ \A s \in Slots \ {g_current} : ~Ready(s)
  /\ UNCHANGED vars

\* Mutant of Other: READY processes are overlooked.
OnlyRunning(s) == s # g_current /\ g_procs[s].state = "RUNNING"

Other(s) == s # g_current /\ (Ready(s) \/ g_procs[s].state = "RUNNING")

\* process_exit with another process in the table.
Exit ==
  /\ TaskRuns
  /\ \E next \in Slots :
       LET t == Cleared(g_procs, g_current)
       IN  /\ IsFirst(next, Other)
           /\ g_current' = next
           /\ g_procs' = Dispatched(t, next)
           /\ Load(t, next)
  /\ allocated' = StackFreed
  /\ UNCHANGED <<g_next_pid, g_scheduler_started>>

\* process_exit of the last process: it creates the idle process, whose
\* stack may be the one just freed.
ExitToIdle ==
  /\ TaskRuns
  /\ \A s \in Slots : ~Other(s)
  /\ LET t == Cleared(g_procs, g_current)
     IN  \E idx \in Slots, stack \in Stacks \ StackFreed :
           LET u == Created(t, idx, "idle", stack)
           IN  /\ IsFirst(idx, LAMBDA s : t[s].state = "UNUSED")
               /\ g_current' = idx
               /\ g_procs' = Dispatched(u, idx)
               /\ allocated' = StackFreed \cup {stack}
               /\ Load(u, idx)
  /\ g_next_pid' = g_next_pid + 1
  /\ UNCHANGED g_scheduler_started

\* Mutant of ExitFatal: g_current still names the freed slot.
FatalKeepsCurrent ==
  /\ TaskRuns
  /\ \A s \in Slots : ~Other(s)
  /\ g_procs' = Cleared(g_procs, g_current)
  /\ allocated' = StackFreed
  /\ g_scheduler_started' = FALSE
  /\ cpu' = [cpu EXCEPT !.pid = -1]
  /\ UNCHANGED <<g_current, g_next_pid, begun>>

\* process_exit of the last process when the idle process cannot be
\* created: process_exit returns into code on a stack it has freed, where
\* nothing is defined any more.
ExitFatal ==
  /\ TaskRuns
  /\ \A s \in Slots : ~Other(s)
  /\ g_procs' = Cleared(g_procs, g_current)
  /\ allocated' = StackFreed
  /\ g_scheduler_started' = FALSE
  /\ g_current' = -1
  /\ cpu' = [cpu EXCEPT !.pid = -1]
  /\ UNCHANGED <<g_next_pid, begun>>

\* hlt in the idle process, or the undefined end of ExitFatal.
Halt ==
  /\ cpu.pid # 0
  /\ ~TaskRuns
  /\ UNCHANGED vars

TaskStep == Yield \/ YieldAlone \/ Exit \/ ExitToIdle \/ ExitFatal

Next == Create \/ Start \/ StartIdle \/ TaskStep \/ Halt

Spec == Init /\ [][Next]_vars

\* Tasks are cooperative: the one that runs eventually yields or exits, as
\* process_A, process_B and process_infinite of kernel.c do.
FairSpec == Spec /\ WF_vars(Yield \/ Exit \/ ExitToIdle \/ ExitFatal)

-----------------------------------------------------------------------------
(***************************************************************************)
(* Properties                                                              *)
(***************************************************************************)
Process == [pid : Nat, state : {"UNUSED", "READY", "RUNNING"},
            stack : Stacks \cup {NULL}, entry : {"none", "task", "idle"},
            rsp : Stacks \cup {NULL}, rip : {"none", "wrapper", "yield"}]

TypeOK ==
  /\ g_procs \in [Slots -> Process]
  /\ g_current \in Slots \cup {-1}
  /\ g_next_pid \in Nat \ {0}
  /\ g_scheduler_started \in BOOLEAN
  /\ allocated \subseteq Stacks
  /\ cpu \in [pid : Int, stack : Stacks \cup {BootStack}]
  /\ begun \subseteq Nat

\* Once the scheduler runs, exactly the process in slot g_current is
\* RUNNING; before it starts, and after a fatal exit, none is.
RunningIsCurrent ==
  /\ g_scheduler_started => g_current \in Slots
  /\ \A s \in Slots :
       g_procs[s].state = "RUNNING" <=> (g_scheduler_started /\ s = g_current)

\* A process always executes on its own stack, and that stack is still
\* allocated: switches restore what they saved, and exiting processes do
\* not leave anyone on a freed stack.
OnOwnStack ==
  cpu.pid > 0 => /\ g_procs[g_current].pid = cpu.pid
                 /\ g_procs[g_current].stack = cpu.stack
                 /\ cpu.stack \in allocated

\* A READY process will resume on its own stack, and starts at its entry
\* point exactly when it has never run: slots are reused without a trace of
\* the previous process.
ReadyResumable ==
  \A s \in Slots : Ready(s) =>
    /\ g_procs[s].rsp = g_procs[s].stack
    /\ g_procs[s].rip = "wrapper" <=> g_procs[s].pid \notin begun

\* No stack is leaked or shared: the allocated stacks are exactly those of
\* the processes in the table, one each.
StacksOwned ==
  /\ allocated = {g_procs[s].stack : s \in {r \in Slots : Used(r)}}
  /\ \A r, s \in Slots :
       Used(r) /\ Used(s) /\ r # s => g_procs[r].stack # g_procs[s].stack

\* The idle process, which never yields, exists only when there is no other
\* process it could keep from running.
IdleAlone ==
  \A r, s \in Slots : Used(r) /\ g_procs[r].entry = "idle" /\ Used(s) => s = r

\* A process id names one process, in the table or already begun.
PidInv ==
  /\ \A s \in Slots : Used(s) => g_procs[s].pid \in 1 .. (g_next_pid - 1)
  /\ \A r, s \in Slots : Used(r) /\ Used(s) /\ r # s => g_procs[r].pid # g_procs[s].pid
  /\ begun \subseteq 1 .. (g_next_pid - 1)
  /\ cpu.pid > 0 => cpu.pid \in begun

\* kernel_init runs until the scheduler starts; it creates tasks only.
ModeInv ==
  /\ cpu.pid \in Nat \cup {-1}
  /\ cpu.pid > 0 <=> g_scheduler_started
  /\ cpu.pid = 0 => /\ g_current = -1
                    /\ \A s \in Slots : Used(s) => g_procs[s].entry = "task"
  /\ cpu.pid = -1 => g_current = -1 /\ \A s \in Slots : ~Used(s)
  /\ \A s \in Slots : Used(s) => g_procs[s].stack \in Stacks

\* The inductive invariant behind the theorems of SchedulerProofs.
IInv ==
  /\ TypeOK
  /\ RunningIsCurrent
  /\ OnOwnStack
  /\ ReadyResumable
  /\ StacksOwned
  /\ IdleAlone
  /\ PidInv
  /\ ModeInv

\* Every process that is ready gets to run, unless new ones are created for
\* ever: the scan of process_yield and the choice of process_exit starve
\* nobody.
NoStarvation ==
  \A s \in Slots : (g_scheduler_started /\ Ready(s)) ~> ~Ready(s)
=============================================================================
