-------------------------------- MODULE Boot --------------------------------
(***************************************************************************)
(* The kernel's start() (main.rs) from interrupt::init to its main loop,   *)
(* with the device interrupts that arrive meanwhile: the drivers are set   *)
(* up one by one with interrupts on, and each handler relies on what       *)
(* start() has set up before.  The serial port is the module Serial; the   *)
(* scheduler is reduced to its choice of a task at the end of a trap or    *)
(* system call, which the module Scheduler details.                        *)
(*                                                                         *)
(* A section that holds a WithSpinLock runs with interrupts off.  It is    *)
(* one step unless a device acts in between (console output, NIC setup).   *)
(* The kernel's heap has a plain mutex, which leaves interrupts on.        *)
(***************************************************************************)
EXTENDS Serial, FiniteSets

CONSTANT
  HeapSize   \* Allocations of the NIC's handler that fit in the mapped heap.

ASSUME BootAssumption == HeapSize \in Nat

VARIABLES
  pc,        \* Where start() is.
  tpc,       \* Where some_task is: "absent" before it is created.
  cur,       \* The task that runs, "boot" or "task".
  intr,      \* The interrupt flag.
  trap,      \* Where the handler on top of the running task is.
  service,   \* The vector the local APIC has in service, or "none".
  pend,      \* Vectors that wait in the local APIC.
  gates,     \* Vectors with a gate in the IDT.
  routed,    \* I/O APIC entries that are set up and not masked.
  lapic,     \* LOCAL_APIC holds the mapped address.
  handlers,  \* Vectors with a function in IRQ_HANDLERS.
  heapLock,  \* The heap's mutex is held.
  heap,      \* Allocations the NIC's handler has made; none is ever freed.
  hpet,      \* The HPET's timer is enabled.
  nic,       \* The NIC is enabled (its receiver and IMR).
  isr,       \* The NIC's interrupt status is not zero.
  tlb,       \* A writable translation of a user page may be cached.
  stale      \* fork write-protected such a page.

cpuVars == <<cur, intr, trap, service>>
setupVars == <<gates, routed, lapic, handlers, hpet, nic>>
heapVars == <<heapLock, heap>>
forkVars == <<tlb, stale>>
vars == <<serialVars, pc, tpc, cpuVars, pend, setupVars, heapVars, isr, forkVars>>

Message == <<"c", "n">>

(* Vectors by device: 0x21, 0x24, 0x20 and 0x26.  All are of one priority  *)
(* class, so one in service keeps the others back.                         *)
Vectors == {"kbd", "com", "hpet", "nic"}

(* Traps that never return: `hlt` in the general protection fault's entry, *)
(* a page fault that recurs for ever on an address that is not mapped.     *)
Stuck == trap \in {"halt", "no_lapic", "no_handler", "no_heap"}

-----------------------------------------------------------------------------
(* start().                                                                *)

(* Faulty variants: the serial port, or the NIC, is set up too early; the  *)
(* tasks are created after the main loop's first round.                    *)
OrderSerialFirst ==
  <<"idt", "com_new", "esc", "com_set", "remap", "statics", "say", "mcfg", "mcfg_drop",
    "hpet", "nic_on", "nic_route", "say", "new_task", "main_say", "main_sleep", "main_touch",
    "main_yield">>

OrderNicFirst ==
  <<"idt", "remap", "statics", "com_new", "esc", "com_set", "say",
    "hpet", "nic_on", "nic_route", "mcfg", "mcfg_drop", "say", "new_task", "main_say",
    "main_sleep", "main_touch", "main_yield">>

OrderTouchFirst ==
  <<"idt", "remap", "statics", "com_new", "esc", "com_set", "say", "mcfg", "mcfg_drop",
    "hpet", "nic_on", "nic_route", "say", "main_touch", "new_task", "main_say", "main_sleep",
    "main_yield">>

(* The steps of start(); the last four are the body of its loop.           *)
Order ==
  <<"idt", "remap", "statics", "com_new", "esc", "com_set", "say", "mcfg", "mcfg_drop",
    "hpet", "nic_on", "nic_route", "say", "new_task", "main_say", "main_sleep", "main_touch",
    "main_yield">>

Step(i) == Order[i]
After(i) == IF i = Len(Order) THEN CHOOSE j \in DOMAIN Order : Order[j] = "main_say" ELSE i + 1

(* start() has the processor and is at the step named s.                   *)
BootAt(s) == trap = "none" /\ cur = "boot" /\ Step(pc) = s
Proceed == pc' = After(pc)

(* IOAPIC::remap with a vector that is not masked; mask_line(false, ..).   *)
Remap(v) == routed' = routed \cup {v}
Unmask(v) == routed' = routed \cup {v}

(* interrupt::init: the gates.  IRQ 1 of the keyboard gets none.           *)
InitIdt ==
  /\ BootAt("idt") /\ Proceed
  /\ gates' = {"com", "hpet", "nic"}
  /\ UNCHANGED <<serialVars, tpc, cpuVars, routed, lapic, handlers, hpet, nic, heapVars, isr, forkVars>>

(* remap_all: the keyboard's and the serial port's entries are unmasked    *)
(* and interrupts enabled.                                                 *)
RemapAll ==
  /\ BootAt("remap") /\ Proceed
  /\ routed' = {"kbd", "com"}
  /\ intr' = TRUE
  /\ UNCHANGED <<serialVars, tpc, cur, trap, service, gates, lapic, handlers, hpet, nic, heapVars,
                 isr, forkVars>>

(* Only now do IOAPIC and LOCAL_APIC get their addresses.                  *)
SetStatics ==
  /\ BootAt("statics") /\ Proceed
  /\ lapic' = TRUE
  /\ UNCHANGED <<serialVars, tpc, cpuVars, gates, routed, handlers, hpet, nic, heapVars, isr, forkVars>>

(* serial::init: Com::new, the escape sequence, COM1.                      *)
SerialNew ==
  /\ BootAt("com_new") /\ Proceed
  /\ ComNew
  /\ UNCHANGED <<tpc, cpuVars, setupVars, heapVars, isr, forkVars>>

SerialEscape ==
  /\ BootAt("esc")
  /\ (WriteByte /\ UNCHANGED pc) \/ (EscapeEnds /\ Proceed)
  /\ UNCHANGED <<tpc, cpuVars, setupVars, heapVars, isr, forkVars>>

SerialSet ==
  /\ BootAt("com_set") /\ Proceed
  /\ ComSet
  /\ UNCHANGED <<tpc, cpuVars, setupVars, heapVars, isr, forkVars>>

(* parse_mcfg collects its entries in a vector: the heap's mutex is taken  *)
(* with interrupts on.                                                     *)
ParseMcfg ==
  /\ BootAt("mcfg") /\ ~heapLock /\ Proceed
  /\ heapLock' = TRUE
  /\ UNCHANGED <<serialVars, tpc, cpuVars, setupVars, heap, isr, forkVars>>

ParseMcfgDrop ==
  /\ BootAt("mcfg_drop") /\ Proceed
  /\ heapLock' = FALSE
  /\ UNCHANGED <<serialVars, tpc, cpuVars, setupVars, heap, isr, forkVars>>

(* hpet::init: the timer is started and its entry unmasked.                *)
HpetInit ==
  /\ BootAt("hpet") /\ Proceed
  /\ hpet' = TRUE
  /\ Unmask("hpet")
  /\ UNCHANGED <<serialVars, tpc, cpuVars, gates, lapic, handlers, nic, heapVars, isr, forkVars>>

(* rtl8139::init under the locks PCI and NICS.  RTL8139::init enables the  *)
(* receiver and the NIC's interrupts; after it the handler is registered,  *)
(* the entry is routed and the bottom half's task is created, which forks  *)
(* the address space.                                                      *)
NicOn ==
  /\ BootAt("nic_on") /\ Proceed
  /\ nic' = TRUE
  /\ intr' = FALSE
  /\ UNCHANGED <<serialVars, tpc, cur, trap, service, gates, routed, lapic, handlers, hpet, heapVars,
                 isr, forkVars>>

NicRoute ==
  /\ BootAt("nic_route") /\ Proceed
  /\ handlers' = handlers \cup {"nic"}
  /\ Remap("nic")
  /\ intr' = TRUE
  /\ stale' = (stale \/ tlb)
  /\ UNCHANGED <<serialVars, tpc, cur, trap, service, gates, lapic, hpet, nic, heapVars, isr, tlb>>

(* new_task for net::run and some_task.                                    *)
NewTasks ==
  /\ BootAt("new_task") /\ Proceed
  /\ tpc' = "say"
  /\ stale' = (stale \/ tlb)
  /\ UNCHANGED <<serialVars, cpuVars, setupVars, heapVars, isr, tlb>>

(* The busy wait sleep(1000) of the main loop is over.                     *)
MainSleep ==
  /\ BootAt("main_sleep") /\ Proceed
  /\ UNCHANGED <<serialVars, tpc, cpuVars, setupVars, heapVars, isr, forkVars>>

(* The main loop writes to its user pages.                                 *)
MainTouch ==
  /\ BootAt("main_touch") /\ Proceed
  /\ tlb' = TRUE
  /\ UNCHANGED <<serialVars, tpc, cpuVars, setupVars, heapVars, isr, stale>>

-----------------------------------------------------------------------------
(* Console output, system calls and task switches.                         *)

(* The running task takes COM1's lock and writes its message: the calls of *)
(* tmp_write_com1 and writeln!(Handle::new(), ..) of start() and some_task.*)
Says == IF cur = "boot" THEN Step(pc) \in {"say", "main_say"} ELSE tpc = "say"

Say ==
  /\ trap = "none" /\ Says /\ com1
  /\ LockCom1(cur, Message)
  /\ intr' = FALSE
  /\ UNCHANGED <<uartVars, com1, pc, tpc, cur, trap, service, setupVars, heapVars, isr, forkVars>>

(* write_all under the lock.                                               *)
Write ==
  /\ who # "none"
  /\ WriteByte \/ WriteSecond
  /\ UNCHANGED <<pc, tpc, cpuVars, setupVars, heapVars, isr, forkVars>>

Said ==
  /\ trap = "none"
  /\ UnlockCom1(cur)
  /\ intr' = TRUE
  /\ IF cur = "boot" THEN Proceed /\ UNCHANGED tpc ELSE tpc' = "nap" /\ UNCHANGED pc
  /\ UNCHANGED <<uartVars, com1, cur, trap, service, setupVars, heapVars, isr, forkVars>>

(* The scheduler picks a task that exists; another address space empties   *)
(* the TLB.                                                                *)
SwitchTo(t) ==
  /\ t = "task" => tpc' # "absent"
  /\ cur' = t
  /\ tlb' = (tlb /\ t = cur)
  /\ UNCHANGED stale

(* int 0x80, SCHED_YIELD: syscall_handler begins with an end of interrupt, *)
(* though a system call is none for the local APIC.                        *)
MainYield ==
  /\ BootAt("main_yield") /\ Proceed
  /\ service' = "none"
  /\ UNCHANGED tpc
  /\ \E t \in {"boot", "task"} : SwitchTo(t)
  /\ UNCHANGED <<serialVars, intr, trap, setupVars, heapVars, isr>>

(* int 0x80, NANOSLEEP, in some_task: until it is woken start() runs.      *)
TaskNap ==
  /\ trap = "none" /\ cur = "task" /\ tpc = "nap"
  /\ tpc' = "say"
  /\ service' = "none"
  /\ SwitchTo("boot")
  /\ UNCHANGED <<serialVars, pc, intr, trap, setupVars, heapVars, isr>>

-----------------------------------------------------------------------------
(* Interrupts.                                                             *)

(* The processor takes an interrupt; one without a gate ends in the        *)
(* general protection fault's entry, which halts.                          *)
Deliver(v) ==
  /\ trap = "none" /\ intr /\ v \in pend /\ service = "none"
  /\ intr' = FALSE
  /\ service' = v
  /\ trap' = IF v \in gates THEN v ELSE "halt"
  /\ UNCHANGED <<serialVars, pc, tpc, cur, setupVars, heapVars, isr, forkVars>>

(* read_com1: what is there is read and echoed, if COM1 is set.            *)
Com0Handler ==
  /\ trap = "com" /\ who = "none"
  /\ IF com1
       THEN LockCom1("trap", rx) /\ ReadAll /\ trap' = "com_out"
       ELSE trap' = "ack" /\ UNCHANGED <<rx, lockVars>>
  /\ UNCHANGED <<ier, tx, thri, com1, pc, tpc, cur, intr, service, setupVars, heapVars, isr, forkVars>>

(* hpet_tick: see the module Clock.                                        *)
HpetHandler ==
  /\ trap = "hpet"
  /\ trap' = "ack"
  /\ UNCHANGED <<serialVars, pc, tpc, cur, intr, service, setupVars, heapVars, isr, forkVars>>

(* alloc: the bump allocator moves its head on under its mutex; dealloc    *)
(* does nothing.  Past the part of the heap that is mapped the page fault  *)
(* handler's alloc_page_at refuses the address, which is not aligned.      *)
Alloc == ~heapLock /\ heap < HeapSize /\ heap' = heap + 1
AllocFaults == ~heapLock /\ heap = HeapSize /\ UNCHANGED heap

(* rtl8139_handler, if device_handler finds it, collects the NICs in a     *)
(* vector, an allocation, with NICS locked.                                *)
NicCollect ==
  /\ trap = "nic"
  /\ \/ "nic" \notin handlers /\ trap' = "no_handler" /\ UNCHANGED heap
     \/ "nic" \in handlers /\ AllocFaults /\ trap' = "no_heap"
     \/ "nic" \in handlers /\ Alloc /\ trap' = "nic_say"
  /\ UNCHANGED <<serialVars, pc, tpc, cur, intr, service, setupVars, heapLock, isr, forkVars>>

(* It writes the status to the console, then clears it (see Network).      *)
NicSay ==
  /\ trap = "nic_say"
  /\ LockCom1("trap", Message)
  /\ trap' = "nic_out"
  /\ UNCHANGED <<uartVars, com1, pc, tpc, cur, intr, service, setupVars, heapVars, isr, forkVars>>

HandlerSaid ==
  /\ trap \in {"com_out", "nic_out"}
  /\ UnlockCom1("trap")
  /\ trap' = "ack"
  /\ isr' = (isr /\ trap # "nic_out")
  /\ UNCHANGED <<uartVars, com1, pc, tpc, cur, intr, service, setupVars, heapVars, forkVars>>

(* Faulty variant: the handler leaves without an end of interrupt.         *)
AcknowledgeNever ==
  /\ trap = "ack" /\ trap' = "exit"
  /\ UNCHANGED <<serialVars, pc, tpc, cur, intr, service, setupVars, heapVars, isr, forkVars>>

(* End of interrupt through LOCAL_APIC.                                    *)
Acknowledge ==
  /\ trap = "ack"
  /\ IF lapic THEN service' = "none" /\ trap' = "exit" ELSE trap' = "no_lapic" /\ UNCHANGED service
  /\ UNCHANGED <<serialVars, pc, tpc, cur, intr, setupVars, heapVars, isr, forkVars>>

(* isr_exit: check_runtime may switch to another task; iretq.              *)
IsrExit ==
  /\ trap = "exit"
  /\ trap' = "none"
  /\ intr' = TRUE
  /\ UNCHANGED tpc
  /\ \E t \in {"boot", "task"} : SwitchTo(t)
  /\ UNCHANGED <<serialVars, pc, service, setupVars, heapVars, isr>>

-----------------------------------------------------------------------------
(* Devices and interrupt controllers.                                      *)

Uart ==
  /\ Transmit \/ \E b \in Bytes : Receive(b)
  /\ UNCHANGED <<pc, tpc, cpuVars, setupVars, heapVars, isr, forkVars>>

(* A frame has come in.                                                    *)
Frame ==
  /\ nic /\ ~isr
  /\ isr' = TRUE
  /\ UNCHANGED <<serialVars, pc, tpc, cpuVars, setupVars, heapVars, forkVars>>

(* A key is pressed; nobody reads the controller, so its line stays up.    *)
Key ==
  /\ "kbd" \in routed /\ "kbd" \notin pend
  /\ pend' = pend \cup {"kbd"}
  /\ UNCHANGED <<serialVars, pc, tpc, cpuVars, setupVars, heapVars, isr, forkVars>>

(* A period of the HPET is over.                                           *)
Tick ==
  /\ hpet /\ "hpet" \in routed /\ "hpet" \notin pend
  /\ pend' = pend \cup {"hpet"}
  /\ UNCHANGED <<serialVars, pc, tpc, cpuVars, setupVars, heapVars, isr, forkVars>>

(* The entries are edge-triggered: a line that rises while its entry is    *)
(* unmasked leaves its vector in the local APIC, from where the processor  *)
(* takes it.                                                               *)
Rises ==
  {v \in {"com"} : ~ComLine /\ ComLine'} \cup {v \in {"nic"} : ~isr /\ isr'}
Taken == {v \in Vectors : service # v /\ service' = v}
IoApic == pend' = (pend \ Taken) \cup (Rises \cap routed)

-----------------------------------------------------------------------------
Init ==
  /\ SerialInit
  /\ pc = 1 /\ tpc = "absent"
  /\ cur = "boot" /\ intr = FALSE /\ trap = "none" /\ service = "none"
  /\ pend = {}
  /\ gates = {} /\ routed = {} /\ lapic = FALSE /\ handlers = {} /\ hpet = FALSE /\ nic = FALSE
  /\ heapLock = FALSE /\ heap = 0
  /\ isr = FALSE
  /\ tlb = FALSE /\ stale = FALSE

BootStep ==
  \/ InitIdt \/ RemapAll \/ SetStatics \/ SerialNew \/ SerialEscape \/ SerialSet
  \/ ParseMcfg \/ ParseMcfgDrop \/ HpetInit \/ NicOn \/ NicRoute \/ NewTasks
  \/ MainSleep \/ MainTouch \/ MainYield

ConsoleStep == Say \/ Write \/ Said

TrapStep == Com0Handler \/ HpetHandler \/ NicCollect \/ NicSay \/ HandlerSaid \/ Acknowledge \/ IsrExit

Next ==
  \/ (BootStep \/ ConsoleStep \/ TaskNap \/ TrapStep \/ Uart \/ Frame) /\ IoApic
  \/ (\E v \in Vectors : Deliver(v)) /\ IoApic
  \/ Key \/ Tick

Spec == Init /\ [][Next]_vars

(* The processor goes on executing a handler or a section with interrupts  *)
(* off, and the UART goes on sending.                                      *)
FairSpec ==
  /\ Spec
  /\ WF_vars((TrapStep \/ (~intr /\ ConsoleStep)) /\ IoApic)
  /\ WF_vars(Uart /\ Transmit /\ IoApic)

-----------------------------------------------------------------------------
(* Properties.                                                             *)

(* Whatever interrupt arrives while start() sets the drivers up, its gate, *)
(* its entry in IRQ_HANDLERS and the local APIC's address are there, with  *)
(* one exception: the keyboard's line is unmasked by remap_all although    *)
(* its vector has no gate, and a key halts the machine.                    *)
HandlersReady ==
  /\ trap \notin {"no_lapic", "no_handler"}
  /\ trap = "halt" => service = "kbd"

(* No handler waits for a lock that the code it interrupted holds, which   *)
(* on one processor would be for ever: COM1's lock keeps interrupts off,   *)
(* and the heap's mutex, which does not, is taken with interrupts on only  *)
(* by parse_mcfg, before the NIC's handler, which allocates, can run.      *)
NoHandlerSpins ==
  /\ trap \in {"com", "nic_say"} => who = "none"
  /\ trap = "nic" => ~heapLock

(* fork write-protects the pages of the task that calls new_task and does  *)
(* not flush the TLB.  No translation of such a page is cached when        *)
(* start() creates its tasks: it writes to user memory only afterwards.    *)
ForksFlushed == ~stale

(* Every handler returns and its interrupt is acknowledged, however slow   *)
(* the console is, unless the mapped part of the heap is used up: the      *)
(* vector each NIC interrupt collects is never freed.                      *)
HandlersReturn == service # "none" ~> service = "none" \/ Stuck

=============================================================================
