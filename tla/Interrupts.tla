----------------------------- MODULE Interrupts -----------------------------
(***************************************************************************)
(* Interrupt set-up and delivery: the order of kernel_init (kernel.c), the *)
(* two interrupt descriptor tables of interrupts.c and interrupt.c, the    *)
(* PIC programming, and the timer and keyboard handlers (kmain64.asm,      *)
(* timer.c, keyboard.c).                                                   *)
(*                                                                         *)
(* The processor, the 8259 PIC and the keyboard controller are external    *)
(* and modelled from how the code uses them: edge-triggered request lines  *)
(* latched in irr, in-service bits in isr that the handler's EOI clears,   *)
(* and a keyboard line that is high while the controller holds a scancode. *)
(* An interrupt gate clears if_on, the IF flag; iretq sets it again.       *)
(***************************************************************************)
EXTENDS Integers

CONSTANTS
  Lines,      \* the request lines in use: 0 timer, 1 keyboard, and others
  Faults,     \* the CPU exceptions that kernel code may raise
  MaxKeys,    \* bound on the scancodes sent in a behaviour
  TickModulus \* g_ticks is counted modulo this (2^64 in the code)

ASSUME LinesAssumption == {0, 1} \subseteq Lines /\ Lines \subseteq 0 .. 7

ASSUME BoundsAssumption ==
  Faults \subseteq 0 .. 31 /\ MaxKeys \in Nat /\ TickModulus \in Nat \ {0}

VARIABLES
  pc,          \* the call kernel_init makes next
  gates,       \* the present gates of both tables: vector -> handler
  idtr,        \* the table the processor uses
  if_on,          \* the interrupt flag
  remapped,    \* whether the PIC delivers at vector 32 instead of 8
  mask, irr, isr,        \* the registers of the PIC, as sets of lines
  handler,     \* the interrupt handler that runs
  buffer,      \* scancodes in the keyboard controller
  typed,       \* scancodes sent so far
  g_ticks,
  outcome,     \* "running", "panic" (isr_handler halted) or "reset"
  fault        \* whether an exception was raised

cpuVars == <<idtr, if_on, handler>>

picVars == <<remapped, mask, irr, isr>>

vars == <<pc, gates, cpuVars, picVars, buffer, typed, g_ticks, outcome, fault>>

NoGates == [v \in {} |-> "isr"]

Init ==
  /\ pc = "idt_init"
  /\ gates = [t \in {"interrupts.c", "interrupt.c"} |-> NoGates]
  /\ idtr = "none"
  /\ if_on = FALSE
  /\ remapped = FALSE
  /\ mask = {}
  /\ irr = {}
  /\ isr = {}
  /\ handler = "none"
  /\ buffer = 0
  /\ typed = 0
  /\ g_ticks = 0
  /\ outcome = "running"
  /\ fault = FALSE

-----------------------------------------------------------------------------
(***************************************************************************)
(* kernel_init, one action per call that touches interrupt state.          *)
(***************************************************************************)
Call(this, following) ==
  /\ outcome = "running"
  /\ handler = "none"
  /\ pc = this
  /\ pc' = following
  /\ UNCHANGED <<handler, typed, outcome, fault>>

\* idt_init of interrupts.c: the exception gates.
IdtInit ==
  /\ Call("idt_init", "interrupt_init")
  /\ gates' = [gates EXCEPT !["interrupts.c"] = [v \in 0 .. 31 |-> "isr"]]
  /\ idtr' = "interrupts.c"
  /\ UNCHANGED <<if_on, picVars, buffer, g_ticks>>

\* The static idt_init of interrupt.c: its own table, two gates.
IrqGates == [v \in {32, 33} |-> IF v = 32 THEN "timer" ELSE "keyboard"]

InterruptInit ==
  /\ Call("interrupt_init", "pic_init")
  /\ gates' = [gates EXCEPT !["interrupt.c"] = IrqGates]
  /\ idtr' = "interrupt.c"
  /\ UNCHANGED <<if_on, picVars, buffer, g_ticks>>

\* Mutant of Unmasked: every line is let through.
AllUnmasked == Lines

\* OCW1: the mask 0xFC.
Unmasked == {0, 1}

\* ICW1 also forgets the latched requests.
PicInit ==
  /\ Call("pic_init", "keyboard_init")
  /\ remapped' = TRUE
  /\ mask' = Lines \ Unmasked
  /\ irr' = {}
  /\ isr' = {}
  /\ UNCHANGED <<gates, idtr, if_on, buffer, g_ticks>>

\* Mutant of kbd_flush: the controller's buffer is left alone.
NoFlush == UNCHANGED buffer

kbd_flush == buffer' = 0

KeyboardInit ==
  /\ Call("keyboard_init", "timer_init")
  /\ kbd_flush
  /\ UNCHANGED <<gates, idtr, if_on, picVars, g_ticks>>

TimerInit ==
  /\ Call("timer_init", "init_memory")
  /\ g_ticks' = 0
  /\ UNCHANGED <<gates, idtr, if_on, picVars, buffer>>

\* init_memory, and shell_init after sti, touch no interrupt state.
InitMemory ==
  /\ Call("init_memory", "sti")
  /\ UNCHANGED <<gates, idtr, if_on, picVars, buffer, g_ticks>>

Sti ==
  /\ Call("sti", "shell_init")
  /\ if_on' = TRUE
  /\ UNCHANGED <<gates, idtr, picVars, buffer, g_ticks>>

ShellInit ==
  /\ Call("shell_init", "hlt")
  /\ UNCHANGED <<gates, idtr, if_on, picVars, buffer, g_ticks>>

Boot == \/ IdtInit \/ InterruptInit \/ PicInit \/ KeyboardInit
        \/ TimerInit \/ InitMemory \/ Sti \/ ShellInit

-----------------------------------------------------------------------------
(***************************************************************************)
(* The hardware.                                                           *)
(***************************************************************************)
\* The timer's period, 10 ms, is longer than its handler: no tick is raised
\* while the handler of the one before runs.
Raise ==
  /\ outcome = "running"
  /\ \E irq \in Lines \ {1} : /\ irq = 0 => handler # "timer"
                              /\ irr' = irr \cup {irq}
  /\ UNCHANGED <<pc, gates, cpuVars, remapped, mask, isr, buffer, typed,
                 g_ticks, outcome, fault>>

\* Only the first scancode in the buffer makes an edge on the line.
KeyPress ==
  /\ outcome = "running"
  /\ typed < MaxKeys
  /\ typed' = typed + 1
  /\ buffer' = buffer + 1
  /\ irr' = IF buffer = 0 THEN irr \cup {1} ELSE irr
  /\ UNCHANGED <<pc, gates, cpuVars, remapped, mask, isr, g_ticks, outcome, fault>>

Vector(irq) == (IF remapped THEN 32 ELSE 8) + irq

Present(v) == idtr # "none" /\ v \in DOMAIN gates[idtr]

\* Without a gate the processor faults again until it resets.
Deliver(irq) ==
  /\ outcome = "running"
  /\ if_on
  /\ irq \in irr \ mask
  /\ \A j \in (irr \ mask) \cup isr : j <= irq => j = irq /\ j \notin isr
  /\ irr' = irr \ {irq}
  /\ isr' = isr \cup {irq}
  /\ if_on' = FALSE
  /\ IF Present(Vector(irq))
     THEN handler' = gates[idtr][Vector(irq)] /\ UNCHANGED outcome
     ELSE outcome' = "reset" /\ UNCHANGED handler
  /\ UNCHANGED <<pc, gates, idtr, remapped, mask, buffer, typed, g_ticks, fault>>

\* The stubs of isr.asm and isr_common lead from an exception gate to
\* isr_handler.
ReachesIsrHandler(v) == Present(v) /\ gates[idtr][v] = "isr"

\* An exception in kernel code.  isr_handler draws the panic screen and halts
\* with interrupts off.
Fault ==
  /\ outcome = "running"
  /\ idtr # "none"
  /\ \E v \in Faults :
       outcome' = IF ReachesIsrHandler(v) THEN "panic" ELSE "reset"
  /\ fault' = TRUE
  /\ if_on' = FALSE
  /\ UNCHANGED <<pc, gates, idtr, handler, picVars, buffer, typed, g_ticks>>

-----------------------------------------------------------------------------
(***************************************************************************)
(* The handlers.                                                           *)
(***************************************************************************)

\* Mutant of EndOfInterrupt: the handler returns without an EOI.
NoEoi == UNCHANGED isr

\* outb(0x20, 0x20): the highest-priority line leaves the in-service set.
EndOfInterrupt ==
  isr' = isr \ {irq \in isr : \A j \in isr : irq <= j}

Iretq == handler' = "none" /\ if_on' = TRUE

\* scheduler_tick, called from here, returns at once.
TimerHandler ==
  /\ outcome = "running"
  /\ handler = "timer"
  /\ g_ticks' = (g_ticks + 1) % TickModulus
  /\ EndOfInterrupt
  /\ Iretq
  /\ UNCHANGED <<pc, gates, idtr, remapped, mask, irr, buffer, typed, outcome, fault>>

\* Mutant of KeyboardRead: the data port is read without asking the status.
ReadUnchecked ==
  /\ outcome = "running"
  /\ handler = "keyboard"
  /\ buffer' = buffer - 1
  /\ UNCHANGED <<pc, gates, cpuVars, picVars, typed, g_ticks, outcome, fault>>

\* One iteration of the loop that drains the controller: the next scancode
\* in the buffer makes a new edge.
KeyboardRead ==
  /\ outcome = "running"
  /\ handler = "keyboard"
  /\ buffer > 0
  /\ buffer' = buffer - 1
  /\ irr' = IF buffer > 1 THEN irr \cup {1} ELSE irr
  /\ UNCHANGED <<pc, gates, cpuVars, remapped, mask, isr, typed, g_ticks, outcome, fault>>

\* The last status test; a key may still be pressed before the EOI.
KeyboardDrained ==
  /\ outcome = "running"
  /\ handler = "keyboard"
  /\ buffer = 0
  /\ handler' = "keyboard_eoi"
  /\ UNCHANGED <<pc, gates, idtr, if_on, picVars, buffer, typed, g_ticks, outcome, fault>>

KeyboardEoi ==
  /\ outcome = "running"
  /\ handler = "keyboard_eoi"
  /\ EndOfInterrupt
  /\ Iretq
  /\ UNCHANGED <<pc, gates, idtr, remapped, mask, irr, buffer, typed, g_ticks,
                 outcome, fault>>

Handlers == TimerHandler \/ KeyboardRead \/ KeyboardDrained \/ KeyboardEoi

\* The machine after a panic, or after the reset that restarts it.
Down == outcome # "running" /\ UNCHANGED vars

Next == \/ Boot \/ Raise \/ KeyPress \/ (\E irq \in Lines : Deliver(irq))
        \/ Handlers \/ Fault \/ Down

Spec == Init /\ [][Next]_vars

\* The processor executes what it can and takes a pending interrupt.  After
\* each tick it has time left for the keyboard line, of lower priority, before
\* the next one (see Raise): that is the strong fairness.
FairSpec == /\ Spec
            /\ WF_vars(Boot)
            /\ WF_vars(Handlers)
            /\ WF_vars(Deliver(0))
            /\ SF_vars(Deliver(1))

-----------------------------------------------------------------------------
(***************************************************************************)
(* Properties                                                              *)
(***************************************************************************)
HandlerNames == {"none", "timer", "keyboard", "keyboard_eoi", "isr"}

TypeOK ==
  /\ pc \in {"idt_init", "interrupt_init", "pic_init", "keyboard_init",
             "timer_init", "init_memory", "sti", "shell_init", "hlt"}
  /\ idtr \in {"none"} \cup DOMAIN gates
  /\ \A t \in DOMAIN gates : DOMAIN gates[t] \subseteq 0 .. 255
  /\ if_on \in BOOLEAN /\ remapped \in BOOLEAN /\ fault \in BOOLEAN
  /\ mask \subseteq Lines /\ irr \subseteq Lines /\ isr \subseteq Lines
  /\ handler \in HandlerNames
  /\ buffer \in 0 .. MaxKeys /\ typed \in 0 .. MaxKeys
  /\ g_ticks \in 0 .. (TickModulus - 1)
  /\ outcome \in {"running", "panic", "reset"}

\* No hardware interrupt ever finds its gate missing: by the time sti runs
\* the PIC is remapped, the table in use has a gate for every line that is
\* let through, and everything else is masked.
IrqsHandled == outcome = "reset" => fault

\* A handler runs exactly while its line is in service, with interrupts off:
\* handlers do not nest and each sends its EOI once.
ServiceMatches ==
  outcome = "running" => /\ (isr = {}) <=> (handler = "none")
                         /\ if_on => handler = "none"

\* A scancode that waits is read, whenever it arrives: before the PIC is
\* programmed, while interrupts are off, between the last status test of
\* the keyboard handler and its EOI.
KeysRead == (buffer > 0) ~> (buffer = 0 \/ outcome # "running")

\* A timer request is served, whatever the keyboard does.
TimerServed == (0 \in irr) ~> (0 \notin irr \/ outcome # "running")

\* A CPU exception after idt_init brings up the panic screen.
FaultPanics == fault => outcome = "panic"
=============================================================================
