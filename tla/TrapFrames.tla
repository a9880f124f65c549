----------------------------- MODULE TrapFrames -----------------------------
(***************************************************************************)
(* What lies on a kernel stack and in which order it is read back: the     *)
(* frames process_arch_init builds for a process that has not run yet,     *)
(* process_switch_asm (switch.asm), and the entry to and the return from   *)
(* an interrupt (idt.asm).  The layouts are the structs of cpu.h, which    *)
(* the C code indexes by name and the assembly by the order of its pushes. *)
(*                                                                         *)
(* A stack is an array of words, word 0 the lowest; sp is the index of the *)
(* word rsp points at.  kmalloc aligns the stack to 16 bytes.              *)
(***************************************************************************)
EXTENDS Integers, Sequences, SequencesExt

CONSTANT STACK \* words of a kernel stack, PROCESS_KERNEL_STACK_SIZE / 8

\* Addresses of code.
process_first_run_addr == 2001
trap_ret_addr == 2002

trap_frame ==
    <<"r15", "r14", "r13", "r12", "r11", "r10", "r9", "r8", "rbp", "rdi", "rsi",
      "rdx", "rcx", "rbx", "rax", "vector_number", "error_code",
      "rip", "cs", "rflags", "rsp", "ss">>

context == <<"r12", "r13", "r14", "r15", "rbp", "rbx", "rip">>

ASSUME StackAssumption ==
    STACK \in Nat /\ STACK % 2 = 0 /\ STACK > Len(trap_frame) + Len(context) + 2

\* The registers the processor itself pushes on an interrupt, and what is left.
CpuFrame == {"rip", "cs", "rflags", "rsp", "ss"}
Registers == ToSet(trap_frame) \ {"vector_number", "error_code"}

\* The word of a struct that starts at word base.
Member(stack, base, struct, name) ==
    stack[base + CHOOSE k \in 0 .. Len(struct) - 1 : struct[k + 1] = name]

\* The stack after the words are pushed in their order.
Pushed(stack, sp, words) ==
    [a \in DOMAIN stack |->
        IF a \in sp - Len(words) .. sp - 1 THEN words[sp - a] ELSE stack[a]]

\* The registers after the named ones are popped in their order.
Popped(stack, sp, names, regs) ==
    [r \in DOMAIN regs |->
        IF r \in ToSet(names) THEN Member(stack, sp, names, r) ELSE regs[r]]

-----------------------------------------------------------------------------

Selector(index) == index * 8 + 3 \* GDT index, DPL_USER
UserFrame(uentry, ustack) ==
    [rip |-> uentry, cs |-> Selector(3), rflags |-> 514, rsp |-> ustack, ss |-> Selector(4)]

TrapFrameOf == STACK - Len(trap_frame)
ContextOf == TrapFrameOf - 1 - Len(context)

\* process_arch_init: from the top a trap_frame for user mode, the address of
\* trap_ret, and the context process_switch_asm loads.
process_arch_init(stack, uentry, ustack) ==
    [a \in DOMAIN stack |->
        IF a >= TrapFrameOf
        THEN LET f == trap_frame[a - TrapFrameOf + 1]
             IN IF f \in CpuFrame THEN UserFrame(uentry, ustack)[f] ELSE 0
        ELSE IF a = TrapFrameOf - 1 THEN trap_ret_addr
        ELSE IF a >= ContextOf
        THEN IF context[a - ContextOf + 1] = "rip" THEN process_first_run_addr ELSE 0
        ELSE stack[a]]

\* The pops of process_switch_asm; ret takes the word behind them.
SwitchPops == <<"r12", "r13", "r14", "r15", "rbp", "rbx">>

\* gdt_set_tss_rsp gets the address of the last byte of the stack, and the
\* processor clears its low four bits before it pushes.
Rsp0 == ((8 * STACK - 1) \div 16) * 2

\* Vectors for which the processor pushes an error code, and the ones whose stub
\* leaves its place to the processor.
CpuErrorVectors == {8, 10, 11, 12, 13, 14, 17, 21, 29, 30}
INTERRUPT_WITH_ERROR == {8, 10, 11, 12, 13, 14, 17, 30}

StubWords(vector) == IF vector \in INTERRUPT_WITH_ERROR THEN <<vector>> ELSE <<0, vector>>

\* Mutant: two registers change places.
GeneralPushes_Swapped ==
    <<"rax", "rcx", "rbx", "rdx", "rsi", "rdi", "rbp", "r8", "r9", "r10", "r11", "r12", "r13", "r14", "r15">>

\* The pushes of _general_handler_asm and the pops of trap_ret.
GeneralPushes ==
    <<"rax", "rbx", "rcx", "rdx", "rsi", "rdi", "rbp", "r8", "r9", "r10", "r11",
      "r12", "r13", "r14", "r15">>
TrapRetPops ==
    <<"r15", "r14", "r13", "r12", "r11", "r10", "r9", "r8", "rbp", "rdi", "rsi",
      "rdx", "rcx", "rbx", "rax">>

\* What an interrupt from user mode with registers regs pushes, up to the call
\* of interrupt_handler: the processor, the stub, the general handler.
EntryWords(regs, vector, error) ==
    <<regs["ss"], regs["rsp"], regs["rflags"], regs["cs"], regs["rip"]>>
    \o (IF vector \in CpuErrorVectors THEN <<error>> ELSE <<>>)
    \o StubWords(vector)
    \o [k \in 1 .. Len(GeneralPushes) |-> regs[GeneralPushes[k]]]

\* The registers after trap_ret from sp: its pops, two words skipped, iretq.
TrapRet(stack, sp, regs) ==
    LET top == sp + Len(TrapRetPops) + 2
    IN Popped(stack, top, <<"rip", "cs", "rflags", "rsp", "ss">>,
              Popped(stack, sp, TrapRetPops, regs))
=============================================================================
