------------------------------- MODULE Sched -------------------------------
(***************************************************************************)
(* The scheduler: kernel/multitasking/sched.c on the lists of              *)
(* kernel/lib/list/list.h, with the timer interrupt that calls it          *)
(* (interrupt_handler), the idle loop of the boot process (schleeeeep),    *)
(* process_switch, and the signals sched_switch delivers (signal.c).       *)
(*                                                                         *)
(* There is one processor.  cpu is the process whose kernel stack it is    *)
(* on; calls are the activations of sched_switch on that stack, innermost  *)
(* first.  The idle loop calls sched_switch with interrupts on, so a timer *)
(* interrupt can start a second walk of the list inside the first one.     *)
(*                                                                         *)
(* sched_add, sched_rmv and signal_send are called by the boot process     *)
(* before its idle loop, and by kernel code that runs for a process.       *)
(***************************************************************************)
EXTENDS Naturals, Sequences

CONSTANTS Procs,    \* the processes process_create makes
          boot,     \* the process of process_init
          head,     \* scheduled_procs, the list head that belongs to no process
          null,
          Sends,    \* the signal numbers that are sent
          Garbage,  \* what masked_signals and pending_signals of a new process
                    \* may hold: process_create does not assign them
          MaxSends  \* bound on calls of signal_send

VARIABLES next, prev,      \* the links of sched_list
          state,           \* process->state
          headState,       \* the word in front of scheduled_procs, read as a state
          pending, masked, \* the signal bits of a process
          fresh,           \* processes whose context is the one of process_arch_init
          added,           \* processes given to sched_add so far
          cpu, calls,
          idle,            \* where the boot process is in kmain and schleeeeep
          armed, inService,\* the timer of the local APIC
          status, sent,
          torn             \* history: a list_del that was interrupted with the links
                           \* of a neighbour in hand lost that neighbour to the
                           \* handler, or was left for good behind its first write

links == <<next, prev>>
signals == <<pending, masked, sent>>
timer == <<armed, inService>>
vars == <<links, state, headState, signals, fresh, added, cpu, calls, idle, timer, status, torn>>

PROCESS_NSIG == 64
SIGSTOP == 2
SIGCONT == 3
States == {"running", "ready", "stopped", "zombie"}
Nodes == Procs \cup {boot, head}

ASSUME DistinctNodes == /\ boot \notin Procs /\ head \notin Procs /\ null \notin Procs
                        /\ boot # head /\ boot # null /\ head # null
ASSUME SignalNumbers == Sends \subseteq 0 .. PROCESS_NSIG - 1

-----------------------------------------------------------------------------
(* list.h *)

\* __list_add writes next->prev first: a NULL next is a page fault.
list_add(el, hd) ==
    /\ next' = [next EXCEPT ![el] = next[hd], ![hd] = el]
    /\ prev' = [prev EXCEPT ![next[hd]] = el, ![el] = hd]

-----------------------------------------------------------------------------
(* signal.c.  1 << n is an int: n counts modulo 32, and bit 31 is extended. *)

SignalBits_65(n) == IF n % 32 = 31 THEN 31 .. 64 ELSE {n % 32}

SignalBits(n) == IF n % 32 = 31 THEN 31 .. 63 ELSE {n % 32}

SIGNAL_IS_SET(bm, n) == SignalBits(n) \cap bm # {}

FirstSignal(bm) == CHOOSE n \in 0 .. PROCESS_NSIG - 1 :
                      /\ SIGNAL_IS_SET(bm, n)
                      /\ \A m \in 0 .. n - 1 : ~SIGNAL_IS_SET(bm, m)

\* No handler is ever installed, so the default action is taken.
DefaultAction(n, s) == CASE n = SIGSTOP -> "stopped"
                         [] n = SIGCONT /\ s = "stopped" -> "ready"
                         [] OTHER -> s

signal_deliver(p) ==
    IF pending[p] = {} THEN UNCHANGED <<pending, state>>
    ELSE LET n == FirstSignal(pending[p]) IN
         /\ pending' = [pending EXCEPT ![p] = @ \ SignalBits(n)]
         /\ state' = [state EXCEPT ![p] = DefaultAction(n, @)]

-----------------------------------------------------------------------------
(* process_switch(running, p).  running stays the boot process: sched_init   *)
(* assigns it and sched_switch does not.  The registers are saved in the     *)
(* context of running, which no switch loads (cur == next returns early), so *)
(* a context that is loaded is the one process_arch_init built, and it is    *)
(* good once: the kernel stack it lies on is reused as soon as p runs.       *)

running == boot

process_switch(p) ==
    /\ calls' = <<>>
    /\ IF p \in fresh
       THEN cpu' = p /\ fresh' = fresh \ {p} /\ status' = status
       ELSE status' = "wild" /\ UNCHANGED <<cpu, fresh>>

-----------------------------------------------------------------------------
(* sched_switch.  An activation holds the cursors of list_for_each_safe, the *)
(* links that list_del has read, and the place it has got to; a timer        *)
(* interrupt can come between any two steps of the idle loop's activation.   *)

Activation(irq) == [pos |-> running, n |-> next[running], at |-> "step", irq |-> irq,
                    prev |-> null, next |-> null]

sched_switch(irq) == calls' = <<Activation(irq)>> \o calls

\* The head of the list is visited like a process: what lies in front of it
\* is read as its state.
StateOf(node) == IF node = head THEN headState ELSE state[node]

At(place) == status = "ok" /\ calls # <<>> /\ Head(calls).at = place
pos == Head(calls).pos
Looking == At("look") /\ pos # running
Becomes(activation) == calls' = <<activation>> \o Tail(calls)
GoTo(place) == Becomes([Head(calls) EXCEPT !.at = place])
Fault == status' = "fault" /\ UNCHANGED <<links, calls>>

\* Reading and writing the lists is all a step does.
OnlyLinks == UNCHANGED <<state, headState, signals, fresh, added, cpu, idle, timer>>

Following_Twice(n) == next[n]

\* The entry that pos gets from n.
Following(n) == n

\* pos = n, n = pos->next: a NULL is read through, a page fault.
StepOn ==
    /\ At("step")
    /\ LET p == Following(Head(calls).n)
       IN IF p = null THEN Fault /\ UNCHANGED torn
          ELSE /\ Becomes([Head(calls) EXCEPT !.pos = p, !.n = next[p], !.at = "look"])
               /\ UNCHANGED <<links, status, torn>>
    /\ OnlyLinks

SkipOther ==
    /\ Looking /\ StateOf(pos) \notin {"ready", "zombie"}
    /\ GoTo("step")
    /\ UNCHANGED <<links, status, torn>> /\ OnlyLinks

DeliverToReady ==
    /\ Looking /\ pos # head /\ StateOf(pos) = "ready"
    /\ signal_deliver(pos)
    /\ GoTo("switch")
    /\ UNCHANGED <<links, headState, masked, sent, fresh, added, cpu, idle, timer, status, torn>>

\* The activation that was interrupted never goes on.
LeavesUnfinished == Len(calls) > 1 /\ calls[2].at \in {"prev->next", "next = NULL", "prev = NULL"}

SwitchToReady ==
    /\ At("switch")
    /\ process_switch(pos)
    /\ torn' = (torn \/ LeavesUnfinished)
    /\ UNCHANGED <<links, state, headState, signals, added, idle, timer>>

\* signal_deliver and process_switch on memory that is no process
SwitchToHead ==
    /\ Looking /\ pos = head /\ headState = "ready"
    /\ status' = "stray"
    /\ UNCHANGED <<links, calls, torn>> /\ OnlyLinks

ReapZombie ==
    /\ Looking /\ StateOf(pos) = "zombie"
    /\ GoTo("read")
    /\ UNCHANGED <<links, status, torn>> /\ OnlyLinks

\* The arguments of __list_del, in either order.
ReadLinks ==
    /\ \/ At("read") /\ Becomes([Head(calls) EXCEPT !.prev = prev[pos], !.at = "read next"])
       \/ At("read") /\ Becomes([Head(calls) EXCEPT !.next = next[pos], !.at = "read prev"])
       \/ At("read prev") /\ Becomes([Head(calls) EXCEPT !.prev = prev[pos], !.at = "next->prev"])
       \/ At("read next") /\ Becomes([Head(calls) EXCEPT !.next = next[pos], !.at = "next->prev"])
    /\ UNCHANGED <<links, status, torn>> /\ OnlyLinks

\* The interrupted list_del holds the entry that is deleted now as a neighbour.
TakesNeighbour ==
    /\ Len(calls) > 1 /\ calls[2].at \in {"next->prev", "prev->next"}
    /\ pos \in {calls[2].prev, calls[2].next}

\* next->prev = prev
UnlinkBackward(p, n) == [prev EXCEPT ![n] = p]

UnlinkForward_Not(p, n) == next

UnlinkForward_Self(p, n) == [next EXCEPT ![p] = p]

\* prev->next = next
UnlinkForward(p, n) == [next EXCEPT ![p] = n]

\* The four writes of __list_del and list_del; those through NULL are page faults.
list_del ==
    /\ LET p == Head(calls).prev
           n == Head(calls).next
       IN \/ /\ At("next->prev")
             /\ IF n = null THEN Fault /\ UNCHANGED torn
                ELSE /\ prev' = UnlinkBackward(p, n) /\ GoTo("prev->next")
                     /\ torn' = (torn \/ TakesNeighbour)
                     /\ UNCHANGED <<next, status>>
          \/ /\ At("prev->next") /\ UNCHANGED torn
             /\ IF p = null THEN Fault
                ELSE next' = UnlinkForward(p, n) /\ GoTo("next = NULL") /\ UNCHANGED <<prev, status>>
          \/ /\ At("next = NULL") /\ next' = [next EXCEPT ![pos] = null]
             /\ GoTo("prev = NULL") /\ UNCHANGED <<prev, status, torn>>
          \/ /\ At("prev = NULL") /\ prev' = [prev EXCEPT ![pos] = null]
             /\ GoTo("step") /\ UNCHANGED <<next, status, torn>>
    /\ OnlyLinks

AfterSwitch_NoEoi ==
    /\ inService' = inService
    /\ idle' = IF Head(calls).irq THEN IF cpu = boot /\ idle = "hlt" THEN "loop" ELSE idle
                                  ELSE "halting"

\* The walk is over: process_switch(running, sched_schleeper) returns at once.
\* An interrupt handler goes on to local_apic_eoi and back to where the
\* processor was, past its hlt if it was in it; the idle loop goes on to its hlt.
AfterSwitch ==
    IF Head(calls).irq
    THEN inService' = FALSE /\ idle' = IF cpu = boot /\ idle = "hlt" THEN "loop" ELSE idle
    ELSE inService' = inService /\ idle' = "halting"

EndOfWalk ==
    /\ At("look") /\ pos = running
    /\ calls' = Tail(calls)
    /\ AfterSwitch
    /\ UNCHANGED <<links, state, headState, signals, fresh, added, cpu, armed, status, torn>>

SchedStep == \/ StepOn \/ SkipOther \/ DeliverToReady \/ SwitchToReady \/ SwitchToHead
             \/ ReapZombie \/ ReadLinks \/ list_del \/ EndOfWalk

-----------------------------------------------------------------------------
(* kmain, schleeeeep and the timer *)

sched_start ==
    /\ status = "ok" /\ idle = "boot"
    /\ armed' = TRUE /\ idle' = "loop"
    /\ UNCHANGED <<links, state, headState, signals, fresh, added, cpu, calls, inService, status, torn>>

schleeeeep ==
    /\ status = "ok" /\ cpu = boot /\ idle = "loop" /\ calls = <<>>
    /\ sched_switch(FALSE)
    /\ UNCHANGED <<links, state, headState, signals, fresh, added, cpu, idle, timer, status, torn>>

cpu_halt ==
    /\ status = "ok" /\ cpu = boot /\ idle = "halting" /\ calls = <<>>
    /\ idle' = "hlt"
    /\ UNCHANGED <<links, state, headState, signals, fresh, added, cpu, calls, timer, status, torn>>

\* IDT_GATE is an interrupt gate: the handler runs with interrupts off.
InterruptsOn == calls # <<>> => ~Head(calls).irq

interrupt_handler ==
    /\ status = "ok" /\ armed /\ ~inService /\ InterruptsOn
    /\ inService' = TRUE
    /\ sched_switch(TRUE)
    /\ UNCHANGED <<links, state, headState, signals, fresh, added, cpu, idle, armed, status, torn>>

-----------------------------------------------------------------------------
(* The calls of other kernel code: the boot process before the timer runs, or *)
(* code that was entered through an interrupt gate.  No tick comes in between. *)

Caller == status = "ok" /\ calls = <<>> /\ (cpu \in Procs \/ idle = "boot")

sched_add(p) ==
    /\ Caller /\ p \notin added
    /\ IF next[head] # null
       THEN list_add(p, head) /\ added' = added \cup {p} /\ status' = status
       ELSE status' = "fault" /\ UNCHANGED <<links, added>>
    /\ UNCHANGED <<state, headState, signals, fresh, cpu, calls, idle, timer, torn>>

sched_rmv(p) ==
    /\ Caller /\ p \in added
    /\ state' = [state EXCEPT ![p] = "zombie"]
    /\ UNCHANGED <<links, headState, signals, fresh, added, cpu, calls, idle, timer, status, torn>>

signal_send(p, signum) ==
    /\ Caller /\ p \in added /\ sent < MaxSends
    /\ pending' = IF SIGNAL_IS_SET(masked[p], signum) THEN pending
                  ELSE [pending EXCEPT ![p] = @ \cup SignalBits(signum)]
    /\ sent' = sent + 1
    /\ UNCHANGED <<links, state, headState, masked, fresh, added, cpu, calls, idle, timer, status, torn>>

-----------------------------------------------------------------------------
\* After sched_init: the boot process is on the list.  The processes to come
\* are as process_create leaves them.
Init ==
    /\ next = [x \in Nodes |-> CASE x = head -> boot [] x = boot -> head [] OTHER -> x]
    /\ prev = next
    /\ state = [p \in Procs \cup {boot} |-> IF p = boot THEN "running" ELSE "ready"]
    /\ headState \in States
    /\ pending \in [Procs -> Garbage] /\ masked \in [Procs -> Garbage]
    /\ fresh = Procs /\ added = {}
    /\ cpu = boot /\ calls = <<>> /\ idle = "boot"
    /\ armed = FALSE /\ inService = FALSE /\ status = "ok" /\ sent = 0 /\ torn = FALSE

Next == \/ SchedStep \/ sched_start \/ schleeeeep \/ cpu_halt \/ interrupt_handler
        \/ \E p \in Procs : sched_add(p) \/ sched_rmv(p) \/ \E s \in Sends : signal_send(p, s)

\* The processor goes on with what it runs, and the timer is periodic.  A
\* handler takes less than the ten milliseconds to the next tick, so what was
\* interrupted goes on too.
Spec == /\ Init /\ [][Next]_vars
        /\ WF_vars(SchedStep) /\ SF_vars(SchedStep /\ ~Head(calls).irq)
        /\ WF_vars(schleeeeep) /\ WF_vars(cpu_halt) /\ WF_vars(interrupt_handler)

-----------------------------------------------------------------------------
(* Properties *)

Places == {"step", "look", "switch", "read", "read prev", "read next",
           "next->prev", "prev->next", "next = NULL", "prev = NULL"}

TypeOK ==
    /\ next \in [Nodes -> Nodes \cup {null}] /\ prev \in [Nodes -> Nodes \cup {null}]
    /\ state \in [Procs \cup {boot} -> States] /\ headState \in States
    /\ \A p \in Procs : pending[p] \subseteq 0 .. 63 /\ masked[p] \subseteq 0 .. 63
    /\ fresh \subseteq Procs /\ added \subseteq Procs /\ cpu \in Procs \cup {boot}
    /\ calls \in Seq([pos : Nodes, n : Nodes \cup {null}, at : Places, irq : BOOLEAN,
                      prev : Nodes \cup {null}, next : Nodes \cup {null}])
    /\ torn \in BOOLEAN
    /\ idle \in {"boot", "loop", "halting", "hlt"} /\ armed \in BOOLEAN /\ inService \in BOOLEAN
    /\ status \in {"ok", "wild", "stray", "fault"} /\ sent \in 0 .. MaxSends

\* What a walk from the boot process meets.
Ring == {x \in Nodes : \A S \in SUBSET Nodes :
            boot \in S /\ (\A y \in S : next[y] # null => next[y] \in S) => x \in S}

Unlinking == \E i \in DOMAIN calls : calls[i].at = "prev->next"

\* Between two deletes the list is one ring, closed in both directions, that
\* has every process that was added and not removed, and the head unless it
\* looks like a zombie; also where a handler deletes entries in the middle of
\* the walk of the idle loop (sched_switch, list_for_each_safe).  One thing
\* breaks it: a handler that meets a list_del with the links read and not yet
\* all written, and deletes the neighbour or switches away.
RingSound ==
    status \in {"ok", "wild"} /\ ~torn /\ ~Unlinking =>
        /\ \A x \in Ring : next[x] # null /\ prev[next[x]] = x
        /\ {p \in added : state[p] # "zombie"} \subseteq Ring
        /\ headState # "zombie" => head \in Ring

\* A call of sched_switch that comes back to its caller left no READY process
\* behind, whatever an inner call did to the list during its walk.
NoReadyMissed == [][EndOfWalk => \A p \in added : state[p] # "ready"]_vars

\* A delete of what is already off the list, a page fault, happens in the walk
\* that was interrupted, never in an interrupt handler (sched_switch,
\* list_for_each_safe), as long as no list_del was torn.
HandlersDoNotFault ==
    [][SchedStep /\ status' = "fault" => torn \/ ~Head(calls).irq]_vars

\* While the boot process has the processor and no handler runs, the timer
\* can interrupt it: every handler that comes back has sent its EOI.
BootStaysPreemptible == cpu = boot /\ InterruptsOn => ~inService

\* Every walk of sched_switch ends, by a switch, back in its caller or in a
\* fault: it goes on until it meets the running process again, and no delete
\* under its cursors, nor any link written late, leads it past that for ever.
WalksEnd == calls # <<>> ~> (calls = <<>> \/ status # "ok")

\* sched.c:48: "if nothing is ready to be ran, run the schleeper".
NothingReadyRunsSchleeper == [][EndOfWalk => cpu' = boot]_vars

\* idt.c:28 calls the timer interrupt "preempt": a process in user space can
\* be interrupted by it.
UserIsPreemptible == status = "ok" /\ cpu \in Procs /\ calls = <<>> => ~inService
=============================================================================
