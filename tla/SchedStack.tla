----------------------------- MODULE SchedStack -----------------------------
(***************************************************************************)
(* The words on a process's stack while its code runs in entry(), on top   *)
(* of the scheduler.  process_wrapper calls entry, which leaves a return   *)
(* address to process_wrapper on the stack, and entry's prologue reserves  *)
(* some words for itself; entry's epilogue drops that many and returns     *)
(* through the word below.                                                 *)
(*                                                                         *)
(* The call of process_yield pushes its return address.  process_yield     *)
(* ends in a jump to context_switch_asm (a tail call at the -O2 of the     *)
(* Makefile), which saves rsp with that address still on the stack; the    *)
(* switch back loads rsp and jumps to rip, so no ret ever removes it.      *)
(***************************************************************************)
EXTENDS Scheduler, Sequences

CONSTANTS
  FrameWords,   \* the number of words entry's prologue reserves
  StackWords    \* bound on the words on a stack

VARIABLES
  words,        \* the words on the stack in each slot, the top one last
  strayed       \* whether an entry returned to something else than its caller

stackVars == <<vars, words, strayed>>

EntryFrame == <<"to_wrapper">> \o [i \in 1 .. FrameWords |-> "frame"]

StackInit ==
  /\ Init
  /\ words = [s \in Slots |-> <<>>]
  /\ strayed = FALSE

\* The stack of the slot that a switch loads from table t, given what is on
\* all stacks: a new process runs process_wrapper, which calls entry.
Resumed(w, t, s) == IF t[s].rip = "wrapper" THEN [w EXCEPT ![s] = EntryFrame] ELSE w

\* What a step that loads the slot named by g_current' does to the stacks w.
Switch(w) == words' = Resumed(w, g_procs', g_current')

StackCreate == Create /\ UNCHANGED <<words, strayed>>

StackStart == (Start \/ StartIdle) /\ Switch(words) /\ UNCHANGED strayed

StackYield ==
  /\ Yield
  /\ Len(words[g_current]) < StackWords
  /\ Switch([words EXCEPT ![g_current] = Append(@, "to_entry")])
  /\ UNCHANGED strayed

\* Nothing to switch to: process_yield returns with ret.
StackYieldAlone == YieldAlone /\ UNCHANGED <<words, strayed>>

\* entry calls process_exit itself, as process_A and process_B do.
StackExit == (Exit \/ ExitToIdle) /\ Switch(words) /\ UNCHANGED strayed

StackExitFatal == ExitFatal /\ UNCHANGED <<words, strayed>>

\* The word through which entry returns.
ReturnWord == LET w == words[g_current] IN w[Len(w) - FrameWords]

\* entry returns to process_wrapper, which calls process_exit.
EntryReturns == TaskRuns /\ ReturnWord = "to_wrapper" /\ (StackExit \/ StackExitFatal)

\* entry returns through a word that is not its return address.
EntryStrays ==
  /\ TaskRuns
  /\ ReturnWord # "to_wrapper"
  /\ strayed' = TRUE
  /\ UNCHANGED <<vars, words>>

StackHalt == Halt /\ UNCHANGED <<words, strayed>>

StackNext ==
  \/ StackCreate \/ StackStart \/ StackYield \/ StackYieldAlone
  \/ StackExit \/ StackExitFatal \/ EntryReturns \/ EntryStrays \/ StackHalt

StackSpec == StackInit /\ [][StackNext]_stackVars

-----------------------------------------------------------------------------
\* When the entry of a process returns, process_wrapper goes on behind the
\* call: a switch away and back leaves the stack of a process as it was.
WrapperResumes == ~strayed
=============================================================================
