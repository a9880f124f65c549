------------------------------- MODULE Process -------------------------------
(***************************************************************************)
(* Processes, kernel/multitasking/process.c with the x86_64 part: what     *)
(* process_create takes from the heap, the object allocator and the pid    *)
(* bitmap and gives back when a step fails, the family links it sets, and  *)
(* the first switch to a process and its interrupts on the stack it built. *)
(*                                                                         *)
(* kmalloc and kfree are what Kheap shows them to be: memory of its own    *)
(* for every caller, or NULL.  A call may add a container to the heap or   *)
(* give one back, which takes a region of kspace from the object allocator *)
(* or returns it.  The page tables of the new space are in Vmm.            *)
(***************************************************************************)
EXTENDS Objects, TrapFrames

CONSTANTS
    Procs,   \* the processes that are created, in this order
    boot,    \* the process of process_init
    null,
    wild,    \* a pointer that is whatever the memory held
    U16_MAX, \* length of the pid bitmap, and largest u16
    Vectors, \* interrupts that meet user code
    MAX_USES \* bound: how often the heap grows or shrinks

ASSUME ProcessAssumption ==
    /\ Procs \subseteq Nat /\ U16_MAX \in Nat \ {0} /\ MAX_USES \in Nat
    /\ boot \notin Procs /\ null \notin Procs /\ wild \notin Procs
    /\ {"region", "space"} = Types
    /\ Vectors \subseteq (0 .. 255) \ {21, 29} \* come with features that are off

VARIABLES
    pc,         \* where kmain or the process_create it runs is
    call,       \* proc and parent of process_create, and the regions left to copy
    heap,       \* what kmalloc has handed out
    containers, \* the regions of the heap's containers
    kregions,   \* the other objects of kspace
    spaces,     \* process -> the objects of its space
    created,    \* processes process_create has returned
    pids, pid,  \* the bits of pid_bitmap that are 1, and process->pid
    parent, child, next, prev, \* the family; next and prev are siblings_list
    stack,      \* process -> its kernel stack
    cpu,        \* the process the processor runs, the code it is at, its rsp
    regs,       \* the registers
    user,       \* history: the registers user code left or is to start with
    ran,        \* history: the processes that were switched to
    again,      \* history: one of them was switched to a second time
    uses        \* bound

family == <<parent, child, next, prev>>
machine == <<stack, cpu, regs, user, ran, again>>
process == <<spaces, created, pids, pid, family>>

TIMER == 60
SPURIOUS == 255
UENTRY == 4096
USTACK == 65535

\* Other places the processor may be at, and what user and kernel code leave in
\* a register.
KMAIN == 1
USER == 2
INTERRUPT_HANDLER == 3
UserValue(r) == 1000 + CHOOSE k \in DOMAIN trap_frame : trap_frame[k] = r
KERNEL_VALUE == 3000
At(where) == status = "run" /\ pc = where
Nowhere == [proc |-> null, parent |-> null, left |-> 0]

ProcessInit ==
    /\ ObjectsInit
    /\ call = Nowhere
    /\ heap = {} /\ containers = {} /\ kregions = {}
    /\ spaces = [p \in Procs |-> {}]
    /\ created = {}
    /\ pids = {} /\ pid = [p \in Procs |-> 0]
    /\ parent = [p \in Procs |-> null]
    /\ child = [p \in Procs \cup {boot} |-> null]
    /\ next = [p \in Procs |-> p] /\ prev = [p \in Procs |-> p]
    /\ stack = [p \in Procs |-> [a \in 0 .. STACK - 1 |-> 0]]
    /\ cpu = [on |-> boot, rip |-> KMAIN, sp |-> 0, vector |-> 0, error |-> 0, served |-> FALSE]
    /\ regs = [r \in Registers |-> KERNEL_VALUE] /\ user = regs
    /\ ran = {} /\ again = FALSE
    /\ uses = 0

-----------------------------------------------------------------------------
(* The heap, as its callers see it.                                        *)

Grow ==
    /\ uses < MAX_USES /\ uses' = uses + 1
    /\ \E o \in Slots("region") : block_alloc("region", o) /\ containers' = containers \cup {o}

Shrink ==
    /\ uses < MAX_USES /\ uses' = uses + 1
    /\ \E o \in containers : block_free("region", o) /\ containers' = containers \ {o}

\* kmalloc gives x, from what the heap has or from a new container.
kmalloc(x) ==
    /\ heap' = heap \cup {x}
    /\ Grow \/ UNCHANGED <<objects, status, containers, uses>>

\* kfree takes x back; the container it was in may have become empty.
kfree(x) ==
    /\ heap' = heap \ {x}
    /\ Shrink \/ UNCHANGED <<objects, status, containers, uses>>

\* Other kernel code uses the heap.
UseHeap ==
    /\ At("idle") /\ cpu.on = boot
    /\ Grow \/ Shrink
    /\ UNCHANGED <<pc, call, heap, kregions, process, machine>>

-----------------------------------------------------------------------------
(* process_create.  A kmalloc that returns NULL for the process itself     *)
(* leaves everything as it is and is no step.                              *)

process_create(from) ==
    LET p == Least(Procs \ created)
    IN  /\ At("idle") /\ cpu.on = boot /\ Procs # created
        /\ kmalloc(<<p, "process">>)
        /\ call' = [proc |-> p, parent |-> from, left |-> 0]
        /\ pc' = "kstack"
        /\ UNCHANGED <<kregions, process, machine>>

AllocKstack ==
    /\ At("kstack")
    /\ kmalloc(<<call.proc, "kstack">>)
    /\ pc' = "space"
    /\ UNCHANGED <<call, kregions, process, machine>>

\* Mutant: the process is not given back.
fail_kstack_Keep ==
    /\ At("kstack")
    /\ pc' = "idle" /\ call' = Nowhere
    /\ UNCHANGED <<heap, objects, status, containers, kregions, process, machine, uses>>

\* The second kmalloc returned NULL.
fail_kstack ==
    /\ At("kstack")
    /\ kfree(<<call.proc, "process">>)
    /\ pc' = "idle" /\ call' = Nowhere
    /\ UNCHANGED <<kregions, process, machine>>

\* An object of type t for the space of the process; what is left to do is
\* that many regions to copy.
TakeObject(t, left, then) ==
    /\ \E o \in Slots(t) :
        /\ block_alloc(t, o)
        /\ spaces' = [spaces EXCEPT ![call.proc] = @ \cup {o}]
    /\ call' = [call EXCEPT !.left = left]
    /\ pc' = then
    /\ UNCHANGED <<heap, containers, kregions, created, pids, pid, family, machine, uses>>

KspaceRegions == {o \in kregions \cup containers : blocks[o[1]].type = "region"}

\* vmm_create_space never returns NULL, so the label fail_vmm is not reached.
vmm_create_space ==
    At("space") /\ TakeObject("space", Cardinality(KspaceRegions), "copy")

\* One turn of the loop of vmm_copy_regions.
vmm_copy_regions ==
    At("copy") /\ TakeObject("region", call.left - 1, IF call.left = 1 THEN "ustack" ELSE "copy")

\* vmm_alloc_at for the user stack; it panics where it could return NULL, and
\* the label fail_ustack is not reached.
vmm_alloc_at == At("ustack") /\ TakeObject("region", 0, "fill")

\* The bitmap gave the index i.
process_get_unused_pid(p, i) ==
    /\ pid' = [pid EXCEPT ![p] = i % (U16_MAX + 1)]
    /\ pids' = Taken(pids)

\* Mutant: a new sibling is linked in one direction.
JoinFamily_OneWay(p, q) ==
    /\ parent' = [parent EXCEPT ![p] = q]
    /\ IF child[q] # null
       THEN next' = [next EXCEPT ![p] = next[child[q]], ![child[q]] = p] /\ UNCHANGED <<prev, child>>
       ELSE child' = [child EXCEPT ![q] = p] /\ UNCHANGED <<next, prev>>

\* list_add behind the first child, or the process becomes the first child.
JoinFamily(p, q) ==
    /\ parent' = [parent EXCEPT ![p] = q]
    /\ IF child[q] # null
       THEN /\ next' = [next EXCEPT ![p] = next[child[q]], ![child[q]] = p]
            /\ prev' = [prev EXCEPT ![next[child[q]]] = p, ![p] = child[q]]
            /\ UNCHANGED child
       ELSE child' = [child EXCEPT ![q] = p] /\ UNCHANGED <<next, prev>>

\* bitmap_init_static takes the first word of fdbitmap.bitmap for the pointer of
\* a struct bitmap, and nobody assigned that word: it fills 40 bytes at an address
\* that is not mapped, that belongs to somebody, or that nobody uses.
bitmap_init_static == {"page fault", "wild write", "run"}

\* The rest of process_create.  The bits of the pids are read through NULL when
\* process_init got no memory for them.  The writes to parent are made through NULL when
\* there is no parent, and through what boot->child happens to hold when the
\* parent is the boot process, whose child nobody set.
FillProcess ==
    LET p == call.proc
        q == call.parent
    IN  /\ At("fill")
        /\ stack' = [stack EXCEPT ![p] = process_arch_init(@, UENTRY, USTACK)]
        /\ \E i \in Found(pids, U16_MAX), fds \in bitmap_init_static :
            /\ process_get_unused_pid(p, i)
            /\ status' = IF <<boot, "pids">> \notin heap THEN "page fault"
                         ELSE IF pid'[p] = U16_MAX THEN "no pid"
                         ELSE IF fds # "run" THEN fds
                         ELSE IF q = null THEN "page fault"
                         ELSE IF child[q] = wild THEN "wild write" ELSE status
        /\ IF status' = "run"
           THEN JoinFamily(p, q) /\ created' = created \cup {p} /\ pc' = "idle" /\ call' = Nowhere
           ELSE UNCHANGED <<family, created, pc, call>>
        /\ UNCHANGED <<objects, heap, containers, kregions, spaces, cpu, regs, user, ran, again, uses>>

-----------------------------------------------------------------------------
(* The processor on the stack of a process.  The boot process is left for  *)
(* good (Sched), so its own stack is not kept.                             *)

Runs(label) == status = "run" /\ cpu.rip = label
Sp == cpu.sp
Stk == stack[cpu.on]

\* process_switch_asm: the registers of the context of p and its ret, on the
\* stacks stk.  timer: it was called by the handler of a timer interrupt, which
\* is in service from then on.
process_switch_asm(p, stk, timer) ==
    LET n == Len(SwitchPops)
    IN  /\ regs' = Popped(stk[p], ContextOf, SwitchPops, regs)
        /\ cpu' = [cpu EXCEPT !.on = p, !.rip = stk[p][ContextOf + n], !.sp = ContextOf + n + 1,
                              !.served = timer]

\* process_switch to p.  process->context is the one of process_arch_init for
\* good, since a switch saves into the context of the boot process.
process_switch(p, stk, timer) ==
    /\ process_switch_asm(p, stk, timer)
    /\ stack' = stk
    /\ user' = [r \in Registers |-> IF r \in CpuFrame THEN UserFrame(UENTRY, USTACK)[r] ELSE 0]
    /\ ran' = ran \cup {p} /\ again' = (again \/ p \in ran)
    /\ UNCHANGED status

\* From the boot process, by its idle loop or by a tick that meets it.
LeaveBoot(p) ==
    /\ At("idle") /\ cpu.on = boot /\ p \in created
    /\ \E timer \in BOOLEAN : process_switch(p, stack, timer)

\* It returns: the word on the stack is where to.
process_first_run ==
    /\ Runs(process_first_run_addr)
    /\ cpu' = [cpu EXCEPT !.rip = Stk[Sp], !.sp = Sp + 1]
    /\ UNCHANGED <<stack, regs, user, ran, again, status>>

trap_ret ==
    /\ Runs(trap_ret_addr)
    /\ regs' = TrapRet(Stk, Sp, regs)
    /\ cpu' = [cpu EXCEPT !.rip = USER]
    /\ UNCHANGED <<stack, user, ran, again, status>>

\* User code has put a value of its own into every register it can write.
UserRuns ==
    /\ Runs(USER) /\ user["rax"] = 0
    /\ regs' = [r \in Registers |-> IF r \in {"cs", "ss"} THEN regs[r] ELSE UserValue(r)]
    /\ user' = regs'
    /\ UNCHANGED <<stack, cpu, ran, again, status>>

\* The local APIC holds a tick back while another is in service.
Interrupt(vector, error) ==
    LET words == EntryWords(regs, vector, error)
    IN  /\ Runs(USER) /\ (vector = TIMER => ~cpu.served)
        /\ stack' = [stack EXCEPT ![cpu.on] = Pushed(@, Rsp0, words)]
        /\ cpu' = [cpu EXCEPT !.rip = INTERRUPT_HANDLER, !.sp = Rsp0 - Len(words),
                              !.vector = vector, !.error = error,
                              !.served = @ \/ vector = TIMER]
        /\ UNCHANGED <<regs, user, ran, again, status>>

\* The C code below the frame at sp has written to the stack.
Overwritten == [stack EXCEPT ![cpu.on] = [a \in DOMAIN @ |-> IF a < Sp THEN KERNEL_VALUE ELSE @[a]]]

\* local_apic_eoi, and back to the frame with registers that C code has used.
HandlerReturns ==
    /\ stack' = Overwritten
    /\ regs' = [r \in Registers |-> KERNEL_VALUE]
    /\ cpu' = [cpu EXCEPT !.rip = trap_ret_addr, !.served = FALSE]
    /\ UNCHANGED <<user, ran, again, status>>

\* The timer calls sched_switch, which switches to the first process that is
\* READY, often the one that was interrupted, or returns when none is (Sched).
\* A spurious interrupt does nothing, and every other vector that comes from
\* user code is a panic.
interrupt_handler ==
    LET vector == Member(Stk, Sp, trap_frame, "vector_number")
    IN  /\ Runs(INTERRUPT_HANDLER)
        /\ \/ vector = TIMER /\ \E p \in created : process_switch(p, Overwritten, TRUE)
           \/ vector \in {TIMER, SPURIOUS} /\ HandlerReturns
           \/ vector \notin {TIMER, SPURIOUS} /\ status' = "panic" /\ UNCHANGED machine

Machine ==
    \/ \E p \in Procs : LeaveBoot(p)
    \/ process_first_run
    \/ trap_ret
    \/ UserRuns
    \/ \E vector \in Vectors, error \in {0, 2} : Interrupt(vector, error)
    \/ interrupt_handler

ProcessNext ==
    \/ UseHeap
    \/ \E from \in created \cup {boot, null} : process_create(from)
    \/ AllocKstack
    \/ fail_kstack
    \/ vmm_create_space
    \/ vmm_copy_regions
    \/ vmm_alloc_at
    \/ FillProcess
    \/ Machine /\ UNCHANGED <<pc, call, heap, containers, kregions, process, objects, uses>>

-----------------------------------------------------------------------------
(* Correctness.                                                            *)

ProcessTypeOK ==
    /\ ObjectsTypeOK
    /\ call.left \in 0 .. Cardinality(held)
    /\ created \subseteq Procs
    /\ pids \subseteq Indices(U16_MAX) /\ pid \in [Procs -> 0 .. U16_MAX]
    /\ parent \in [Procs -> Procs \cup {boot, null}]
    /\ child \in [Procs \cup {boot} -> Procs \cup {null, wild}]
    /\ next \in [Procs -> Procs] /\ prev \in [Procs -> Procs]
    /\ cpu.on \in Procs \cup {boot} /\ cpu.sp \in 0 .. STACK
    /\ DOMAIN regs = Registers /\ DOMAIN user = Registers

\* A process_create that returns NULL has given back all it took, and one that
\* succeeds has taken a stack, a space and nothing twice: between two calls the
\* heap and the object allocator hold exactly what the boot process, kspace and
\* the processes that exist own.
NothingLeaks ==
    status = "run" /\ pc = "idle" =>
        /\ heap \ {<<boot, "pids">>} = {<<boot, "process">>} \cup (created \X {"process", "kstack"})
        /\ held = kregions \cup containers \cup UNION {spaces[p] : p \in Procs}
        /\ \A p \in Procs : p \notin created => spaces[p] = {}
        /\ \A p, q \in created : p # q => spaces[p] \cap spaces[q] = {}

Siblings(p) ==
    LET at[n \in 1 .. Cardinality(Procs)] == IF n = 1 THEN p ELSE next[at[n - 1]]
    IN {at[n] : n \in 1 .. Cardinality(Procs)}

\* The family process_create builds, as long as its wild pointers hit nothing:
\* the siblings_list of the first child of a process is a ring of exactly its
\* children, with prev the reverse of next; no two created processes have the
\* same pid, and a lack of pids is found before any reuse and not before all
\* are in use.
FamilySound ==
    /\ \A q \in created \cup {boot} :
        LET children == {p \in created : parent[p] = q}
        IN IF children = {} THEN child[q] \in {null, wild}
           ELSE child[q] \in children /\ Siblings(child[q]) = children
    /\ \A p \in created : prev[next[p]] = p
    /\ \A p, q \in created : pid[p] = pid[q] => p = q
    /\ status = "no pid" => {pid[p] : p \in created} = 0 .. U16_MAX - 1

\* The frames fit the code that reads them: a new process, whether the idle
\* loop or a tick in another process switches to it, starts in user mode with the
\* registers of process_arch_init, the handler finds every register, the vector
\* and the error code where struct trap_frame has them, and after the return user
\* code has the registers it was interrupted with.  This ends with the first
\* switch to a process that has run: the interrupt frame lies over its context.
FramesFaithful ==
    ~again =>
    /\ cpu.rip \in {KMAIN, process_first_run_addr, trap_ret_addr, USER, INTERRUPT_HANDLER}
    /\ cpu.rip = USER => regs = user
    /\ cpu.rip = INTERRUPT_HANDLER =>
        /\ \A r \in Registers : Member(Stk, Sp, trap_frame, r) = user[r]
        /\ Member(Stk, Sp, trap_frame, "vector_number") = cpu.vector
        /\ Member(Stk, Sp, trap_frame, "error_code") =
              IF cpu.vector \in CpuErrorVectors THEN cpu.error ELSE 0
=============================================================================
