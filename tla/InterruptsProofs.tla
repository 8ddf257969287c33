--------------------------- MODULE InterruptsProofs -------------------------
(***************************************************************************)
(* Proofs about interrupt set-up and delivery for every set of request     *)
(* lines, every set of exceptions, any number of keys and any width of the *)
(* tick counter.                                                           *)
(***************************************************************************)
EXTENDS Interrupts, TLAPS

\* interrupt_init is over: the processor uses the table with the two gates.
Gated == pc \notin {"idt_init", "interrupt_init"}

\* pic_init is over as well.
PicReady == Gated /\ pc # "pic_init"

\* sti is over as well.
Enabled == pc \in {"shell_init", "hlt"}

\* What kernel_init has set up so far.
SetUpInv ==
  /\ DOMAIN gates = {"interrupts.c", "interrupt.c"}
  /\ Gated => idtr = "interrupt.c" /\ gates["interrupt.c"] = IrqGates
  /\ PicReady => remapped /\ mask = Lines \ {0, 1}
  /\ if_on \/ handler # "none" => Enabled

\* The handler that runs is the one of the line in service.
ServiceInv ==
  outcome = "running" =>
    \/ handler = "none" /\ isr = {}
    \/ handler = "timer" /\ isr = {0} /\ ~if_on
    \/ handler \in {"keyboard", "keyboard_eoi"} /\ isr = {1} /\ ~if_on

\* The inductive invariant.
IInv == /\ TypeOK
        /\ buffer <= typed
        /\ SetUpInv
        /\ ServiceInv
        /\ IrqsHandled

-----------------------------------------------------------------------------

\* The invariant holds when kernel_init starts.
LEMMA InitIInv == Init => IInv
<1> SUFFICES ASSUME Init PROVE IInv
  OBVIOUS
<1>1. \A t \in DOMAIN gates : DOMAIN gates[t] = {}
  BY DEF Init, NoGates
<1>2. TypeOK
  <2>1. if_on \in BOOLEAN /\ remapped \in BOOLEAN /\ fault \in BOOLEAN
    BY DEF Init
  <2>2. 0 \in 0 .. MaxKeys /\ 0 \in 0 .. (TickModulus - 1)
    BY BoundsAssumption
  <2> QED BY <1>1, <2>1, <2>2 DEF Init, TypeOK, HandlerNames
<1>3. SetUpInv
  BY DEF Init, SetUpInv, Gated, PicReady
<1> QED BY <1>2, <1>3 DEF Init, IInv, ServiceInv, IrqsHandled

\* Filling one of the two tables with gates below 256 keeps the tables typed.
LEMMA GatesTyped ==
  ASSUME IInv,
         NEW t \in {"interrupts.c", "interrupt.c"}, NEW g, DOMAIN g \subseteq 0 .. 255,
         gates' = [gates EXCEPT ![t] = g]
  PROVE  /\ DOMAIN gates' = {"interrupts.c", "interrupt.c"}
         /\ gates'[t] = g
         /\ \A u \in DOMAIN gates' : DOMAIN gates'[u] \subseteq 0 .. 255
<1>1. DOMAIN gates = {"interrupts.c", "interrupt.c"}
  BY DEF IInv, SetUpInv
<1>2. \A u \in DOMAIN gates : u # t => gates'[u] = gates[u]
  BY <1>1
<1>3. DOMAIN gates' = DOMAIN gates /\ gates'[t] = g
  BY <1>1
<1> QED BY <1>1, <1>2, <1>3 DEF IInv, TypeOK

\* Every call of kernel_init keeps the invariant.
LEMMA BootIInv ==
  ASSUME IInv, Boot
  PROVE  IInv'
<1>0. /\ outcome = "running" /\ handler = "none" /\ isr = {}
      /\ UNCHANGED <<handler, typed, outcome, fault>>
  BY DEF Boot, IdtInit, InterruptInit, PicInit, KeyboardInit, TimerInit, InitMemory,
         Sti, ShellInit, Call, IInv, ServiceInv
<1>1. CASE IdtInit
  <2>1. DOMAIN [v \in 0 .. 31 |-> "isr"] \subseteq 0 .. 255
    OBVIOUS
  <2>2. pc' = "interrupt_init" /\ ~if_on
    BY <1>1 DEF IdtInit, Call, IInv, SetUpInv, Enabled
  <2>3. TypeOK' /\ SetUpInv'
    BY <1>0, <1>1, <2>1, <2>2, GatesTyped
       DEF IdtInit, picVars, IInv, TypeOK, SetUpInv, Gated, PicReady, Enabled
  <2> QED BY <1>0, <1>1, <2>3 DEF IdtInit, picVars, IInv, ServiceInv, IrqsHandled
<1>2. CASE InterruptInit
  <2>1. DOMAIN IrqGates \subseteq 0 .. 255
    BY DEF IrqGates
  <2>2. pc' = "pic_init" /\ ~if_on
    BY <1>2 DEF InterruptInit, Call, IInv, SetUpInv, Enabled
  <2>3. TypeOK' /\ SetUpInv'
    BY <1>0, <1>2, <2>1, <2>2, GatesTyped
       DEF InterruptInit, picVars, IInv, TypeOK, SetUpInv, Gated, PicReady, Enabled
  <2> QED BY <1>0, <1>2, <2>3 DEF InterruptInit, picVars, IInv, ServiceInv, IrqsHandled
<1>3. CASE PicInit
  BY <1>0, <1>3
     DEF PicInit, Call, Unmasked, IInv, TypeOK, SetUpInv, Gated, PicReady, Enabled,
         ServiceInv, IrqsHandled
<1>4. CASE KeyboardInit
  BY <1>0, <1>4, BoundsAssumption
     DEF KeyboardInit, Call, kbd_flush, picVars, IInv, TypeOK, SetUpInv, Gated, PicReady,
         Enabled, ServiceInv, IrqsHandled
<1>5. CASE TimerInit
  BY <1>0, <1>5, BoundsAssumption
     DEF TimerInit, Call, picVars, IInv, TypeOK, SetUpInv, Gated, PicReady, Enabled,
         ServiceInv, IrqsHandled
<1>6. CASE InitMemory \/ ShellInit
  BY <1>0, <1>6
     DEF InitMemory, ShellInit, Call, picVars, IInv, TypeOK, SetUpInv, Gated, PicReady,
         Enabled, ServiceInv, IrqsHandled
<1>7. CASE Sti
  <2>1. if_on' \in BOOLEAN /\ pc' = "shell_init" /\ Gated /\ PicReady
    BY <1>7 DEF Sti, Call, Gated, PicReady
  <2>2. SetUpInv'
    BY <1>7, <2>1 DEF Sti, picVars, IInv, SetUpInv, Gated, PicReady, Enabled
  <2>3. TypeOK'
    BY <1>0, <1>7, <2>1 DEF Sti, picVars, IInv, TypeOK
  <2> QED BY <1>0, <1>7, <2>2, <2>3 DEF Sti, picVars, IInv, ServiceInv, IrqsHandled
<1> QED BY <1>1, <1>2, <1>3, <1>4, <1>5, <1>6, <1>7 DEF Boot

\* A device's request and a key press keep the invariant.
LEMMA DeviceIInv ==
  ASSUME IInv, Raise \/ KeyPress
  PROVE  IInv'
<1>1. CASE Raise
  BY <1>1 DEF Raise, cpuVars, IInv, TypeOK, SetUpInv, Gated, PicReady, Enabled, ServiceInv,
              IrqsHandled
<1>2. CASE KeyPress
  BY <1>2, LinesAssumption, BoundsAssumption
     DEF KeyPress, cpuVars, IInv, TypeOK, SetUpInv, Gated, PicReady, Enabled, ServiceInv,
         IrqsHandled
<1> QED BY <1>1, <1>2

\* A line that is let through finds the gate of its own handler.
LEMMA GateFound ==
  ASSUME IInv, NEW irq \in Lines, Deliver(irq)
  PROVE  /\ irq \in {0, 1} /\ Present(Vector(irq))
         /\ irq = 0 => gates[idtr][Vector(irq)] = "timer"
         /\ irq = 1 => gates[idtr][Vector(irq)] = "keyboard"
<1>1. Enabled
  BY DEF Deliver, IInv, SetUpInv
<1>2. /\ remapped /\ mask = Lines \ {0, 1}
      /\ idtr = "interrupt.c" /\ gates[idtr] = IrqGates
  BY <1>1 DEF Enabled, IInv, SetUpInv, Gated, PicReady
<1>3. irq \in {0, 1}
  BY <1>2 DEF Deliver
<1>4. Vector(irq) = 32 + irq
  BY <1>2 DEF Vector
<1> QED BY <1>2, <1>3, <1>4 DEF Present, IrqGates

\* Taking a hardware interrupt keeps the invariant.
LEMMA DeliverIInv ==
  ASSUME IInv, NEW irq \in Lines, Deliver(irq)
  PROVE  IInv'
<1>1. /\ outcome' = outcome /\ ~if_on'
      /\ irq \in {0, 1} /\ handler' = IF irq = 0 THEN "timer" ELSE "keyboard"
  BY GateFound DEF Deliver
<1>2. handler = "none" /\ isr = {} /\ Enabled
  BY DEF Deliver, IInv, ServiceInv, SetUpInv
<1>3. isr' = {irq}
  BY <1>2 DEF Deliver
<1>4. TypeOK'
  BY <1>1, <1>3 DEF Deliver, IInv, TypeOK, HandlerNames
<1>5. SetUpInv'
  BY <1>2 DEF Deliver, IInv, SetUpInv, Gated, PicReady, Enabled
<1> QED BY <1>1, <1>3, <1>4, <1>5 DEF Deliver, IInv, ServiceInv, IrqsHandled

\* A handler that sends its EOI while one line is in service leaves none.
LEMMA EoiEmpties ==
  ASSUME NEW irq \in Int, isr = {irq}, EndOfInterrupt
  PROVE  isr' = {}
BY DEF EndOfInterrupt

\* Every step of a handler keeps the invariant.
LEMMA HandlersIInv ==
  ASSUME IInv, Handlers
  PROVE  IInv'
<1>1. CASE TimerHandler
  <2>1. isr' = {} /\ Enabled
    BY <1>1, EoiEmpties DEF TimerHandler, IInv, ServiceInv, SetUpInv
  <2>2. g_ticks' \in 0 .. (TickModulus - 1)
    BY <1>1, BoundsAssumption DEF TimerHandler, IInv, TypeOK
  <2> QED BY <1>1, <2>1, <2>2
         DEF TimerHandler, Iretq, IInv, TypeOK, HandlerNames, SetUpInv, Gated, PicReady,
             Enabled, ServiceInv, IrqsHandled
<1>2. CASE KeyboardRead
  BY <1>2, LinesAssumption, BoundsAssumption
     DEF KeyboardRead, cpuVars, IInv, TypeOK, SetUpInv, Gated, PicReady, Enabled,
         ServiceInv, IrqsHandled
<1>3. CASE KeyboardDrained
  BY <1>3 DEF KeyboardDrained, picVars, IInv, TypeOK, HandlerNames, SetUpInv, Gated,
              PicReady, Enabled, ServiceInv, IrqsHandled
<1>4. CASE KeyboardEoi
  <2>1. isr' = {} /\ Enabled
    BY <1>4, EoiEmpties DEF KeyboardEoi, IInv, ServiceInv, SetUpInv
  <2> QED BY <1>4, <2>1
         DEF KeyboardEoi, Iretq, IInv, TypeOK, HandlerNames, SetUpInv, Gated, PicReady,
             Enabled, ServiceInv, IrqsHandled
<1> QED BY <1>1, <1>2, <1>3, <1>4 DEF Handlers

\* An exception ends the behaviour and keeps the invariant.
LEMMA FaultIInv ==
  ASSUME IInv, Fault
  PROVE  IInv'
BY DEF Fault, picVars, IInv, TypeOK, SetUpInv, Gated, PicReady, Enabled, ServiceInv,
       IrqsHandled

\* Every step keeps the invariant.
LEMMA NextIInv == IInv /\ [Next]_vars => IInv'
<1> SUFFICES ASSUME IInv, [Next]_vars PROVE IInv'
  OBVIOUS
<1>1. CASE UNCHANGED vars
  BY <1>1 DEF vars, cpuVars, picVars, IInv, TypeOK, SetUpInv, Gated, PicReady, Enabled,
              ServiceInv, IrqsHandled
<1> QED BY <1>1, BootIInv, DeviceIInv, DeliverIInv, HandlersIInv, FaultIInv
       DEF Next, Down

\* The inductive invariant holds throughout.
LEMMA SpecIInv == Spec => []IInv
BY InitIInv, NextIInv, PTL DEF Spec

-----------------------------------------------------------------------------

\* Every register of the PIC holds lines that exist, the keyboard controller
\* never holds more than was typed, the tick counter wraps at its width.
THEOREM InterruptsTypeOK == Spec => []TypeOK
<1>1. IInv => TypeOK
  BY DEF IInv
<1> QED BY SpecIInv, <1>1, PTL

\* No hardware interrupt, from any line and at any point of kernel_init,
\* finds its gate missing: a reset is the work of an exception.
THEOREM InterruptsIrqsHandled == Spec => []IrqsHandled
<1>1. IInv => IrqsHandled
  BY DEF IInv
<1> QED BY SpecIInv, <1>1, PTL

\* A handler runs exactly while a line is in service, with interrupts off:
\* the EOI of kmain64.asm and keyboard.c comes once for each delivery.
THEOREM InterruptsServiceMatches == Spec => []ServiceMatches
<1>1. IInv => ServiceMatches
  BY DEF IInv, ServiceInv, ServiceMatches
<1> QED BY SpecIInv, <1>1, PTL
=============================================================================
