--------------------------- MODULE InterruptStub ----------------------------
(***************************************************************************)
(* The assembly of interrupts/definitions.rs between the processor and     *)
(* interrupt_entry(): the entry points vec_interrupt_*, enter_rust, and    *)
(* AllRegs, as programs that run on registers and a stack. Addresses count *)
(* in units of 8 bytes. A register starts out with a value of its own, so  *)
(* that every value tells where it comes from.                             *)
(***************************************************************************)
EXTENDS Integers, Sequences, TLC

Seqs == INSTANCE SequencesExt

Xmm == <<"xmm0", "xmm1", "xmm2", "xmm3", "xmm4", "xmm5", "xmm6", "xmm7",
         "xmm8", "xmm9", "xmm10", "xmm11", "xmm12", "xmm13", "xmm14", "xmm15">>
General == <<"rax", "rbx", "rcx", "rdx", "rsi", "rdi", "rbp", "r8",
             "r9", "r10", "r11", "r12", "r13", "r14", "r15">>
Wide == {Xmm[i] : i \in DOMAIN Xmm}
Registers == Wide \cup {General[i] : i \in DOMAIN General}

\* AllRegs: the offset of a field.
AllRegs == [r \in Registers |->
    IF r \in Wide THEN 2 * (16 - CHOOSE i \in DOMAIN Xmm : Xmm[i] = r)
    ELSE 32 + 15 - CHOOSE i \in DOMAIN General : General[i] = r]

-----------------------------------------------------------------------------
(* The instructions in use, on [reg, rsp, mem] *)

Num(n) == <<"num", n>>

\* An operand is a register, or a place in what r15 points to.
Snapshot == [rdx_ |-> 0, rsi_ |-> 1, rdi_ |-> 2, r15_ |-> 3]
Saved == DOMAIN Snapshot
At(cpu, o) == cpu.reg["r15"][2] + Snapshot[o]
Value(cpu, o) ==
    IF o = "rsp" THEN Num(cpu.rsp) ELSE IF o \in Saved THEN cpu.mem[At(cpu, o)] ELSE cpu.reg[o]

\* Pushes or pops of the same width, one after the other; a value is at its
\* lowest address.
Width(ops) == IF ops[1] \in Wide THEN 2 ELSE 1
PushAll(cpu, ops) ==
    LET place == [k \in DOMAIN ops |-> cpu.rsp - k * Width(ops)] IN
    [cpu EXCEPT !.rsp = @ - Len(ops) * Width(ops),
                !.mem = [a \in {place[k] : k \in DOMAIN ops} |->
                            Value(cpu, ops[(cpu.rsp - a) \div Width(ops)])] @@ @]
PopAll(cpu, ops) ==
    LET index == [o \in {ops[k] : k \in DOMAIN ops} |-> CHOOSE k \in DOMAIN ops : ops[k] = o]
        Popped(o) == cpu.mem[cpu.rsp + (index[o] - 1) * Width(ops)]
        saved == DOMAIN index \cap Saved
    IN  [cpu EXCEPT !.rsp = @ + Len(ops) * Width(ops),
                    !.reg = [r \in DOMAIN index \ Saved |-> Popped(r)] @@ @,
                    !.mem = [a \in {At(cpu, o) : o \in saved} |->
                                Popped(CHOOSE o \in saved : At(cpu, o) = a)] @@ @]

Step(cpu, i) ==
    CASE i[1] = "push" -> PushAll(cpu, i[2])
      [] i[1] = "pop" -> PopAll(cpu, i[2])
      [] i[1] = "mov" -> [cpu EXCEPT !.reg[i[2]] = Value(cpu, i[3])]
      [] i[1] = "set" -> [cpu EXCEPT !.reg[i[2]] = Num(i[3])]
      [] i[1] = "lea" -> [cpu EXCEPT !.reg[i[2]] = Num(cpu.rsp + i[3])]
      [] i[1] = "load" -> [cpu EXCEPT !.reg[i[2]] = cpu.mem[cpu.rsp + i[3]]]
      [] i[1] = "sub" -> [cpu EXCEPT !.rsp = @ - i[2]]
      [] i[1] = "align" -> [cpu EXCEPT !.rsp = @ - (@ % 2)]
      [] i[1] = "unwind" -> [cpu EXCEPT !.rsp = cpu.reg["rbp"][2]]
      [] i[1] = "call" -> [cpu EXCEPT !.rsp = @ - 1, !.mem = (cpu.rsp - 1 :> Num(0)) @@ @]
Exec(cpu, program) == Seqs!FoldLeft(Step, cpu, program)

-----------------------------------------------------------------------------
(* The program *)

\* enter_rust, up to the call of interrupt_entry().
EnterRust ==
    <<<<"push", <<"rax", "rbx", "rcx", "rdx_", "rsi_", "rdi_", "rbp",
                  "r8", "r9", "r10", "r11", "r12", "r13", "r14", "r15_">>>>,
      <<"push", Xmm>>,
      <<"mov", "rcx", "rsp">>, <<"mov", "rbp", "rsp">>, <<"sub", 4>>, <<"align">>>>

\* Behind the call. The `ret' is a step over the return address.
LeaveRustSwapped ==     \* Mutant: rsi and rdi are restored in the order of the pushes
    <<<<"unwind">>, <<"pop", Seqs!Reverse(Xmm)>>,
      <<"pop", <<"r15_", "r14", "r13", "r12", "r11", "r10", "r9", "r8",
                 "rbp", "rsi_", "rdi_", "rdx_", "rcx", "rbx", "rax">>>>,
      <<"sub", -1>>>>
LeaveRust ==
    <<<<"unwind">>, <<"pop", Seqs!Reverse(Xmm)>>,
      <<"pop", <<"r15_", "r14", "r13", "r12", "r11", "r10", "r9", "r8",
                 "rbp", "rdi_", "rsi_", "rdx_", "rcx", "rbx", "rax">>>>,
      <<"sub", -1>>>>

\* The vectors that are defined with an error code.
HasErrorCode(id) == id \in {8, 10, 11, 12, 13, 14, 17}

\* vec_interrupt_*, up to the call of enter_rust, and behind it up to iretq.
EnterVector(id) ==
    <<<<"push", <<"r15", "rdi", "rsi", "rdx">>>>, <<"mov", "r15", "rsp">>, <<"set", "rdi", id>>>>
    \o (IF HasErrorCode(id) THEN <<<<"lea", "rsi", 5>>, <<"load", "rdx", 4>>, <<"sub", 1>>>>
        ELSE <<<<"lea", "rsi", 4>>, <<"set", "rdx", 0>>>>)
    \o <<<<"call">>>>
LeaveVector(id) ==
    LET skip == IF HasErrorCode(id) THEN 1 ELSE 0 IN
    <<<<"sub", -skip>>, <<"pop", <<"rdx", "rsi", "rdi", "r15">>>>, <<"sub", -skip>>>>

-----------------------------------------------------------------------------
(* External: the processor, and what a function of the sysv64 ABI may do *)

\* The vectors for which an error code is pushed, behind the frame.
PushesErrorCode(id) == id \in {8, 10, 11, 12, 13, 14, 17}
Frame == <<"ss", "rsp", "rflags", "cs", "rip">>
Deliver(sp, id) ==
    LET pushed == IF PushesErrorCode(id) THEN Append(Frame, "error") ELSE Frame
        top == sp - (sp % 2)
    IN  [reg |-> [r \in Registers |-> <<"was", r>>], rsp |-> top - Len(pushed),
         mem |-> [a \in top - Len(pushed) .. top - 1 |-> <<"frame", pushed[top - a]>>]]

\* interrupt_entry() returns: its stack is gone, and of the registers it keeps
\* those that a callee has to.
Preserved == {"rbx", "rbp", "r12", "r13", "r14", "r15"}
Returned(cpu) == [cpu EXCEPT !.reg = [r \in Registers \ Preserved |-> <<"junk", r>>] @@ @]

-----------------------------------------------------------------------------
(* Properties, for all vectors and both alignments of the stack *)

AtCall(sp, id) == Exec(Exec(Deliver(sp, id), EnterVector(id)), EnterRust)
AtIretq(sp, id) == Exec(Exec(Returned(AtCall(sp, id)), LeaveRust), LeaveVector(id))
Vectors == 0 .. 33
Stacks == {100, 101}

\* interrupt_entry() is called with the vector, with the address of the frame,
\* with the error code if there is one, with an AllRegs in which every register
\* is what it was in the code that was interrupted, and on an aligned stack.
ArgumentsRight ==
    \A sp \in Stacks, id \in Vectors :
        LET cpu == AtCall(sp, id)
            frame == cpu.reg["rsi"][2]
            regs == cpu.reg["rcx"][2]
        IN  /\ cpu.reg["rdi"] = Num(id) /\ cpu.rsp % 2 = 0
            /\ \A i \in DOMAIN Frame : cpu.mem[frame + 5 - i] = <<"frame", Frame[i]>>
            /\ cpu.reg["rdx"] = IF PushesErrorCode(id) THEN <<"frame", "error">> ELSE Num(0)
            /\ \A r \in Registers : cpu.mem[regs + AllRegs[r]] = <<"was", r>>

\* The code that was interrupted does not notice: iretq finds its frame, and
\* all registers are what they were.
RegistersKept ==
    \A sp \in Stacks, id \in Vectors :
        LET cpu == AtIretq(sp, id) IN
        /\ cpu.rsp + 5 = sp - (sp % 2) /\ cpu.mem[cpu.rsp] = <<"frame", "rip">>
        /\ \A r \in Registers : cpu.reg[r] = <<"was", r>>
=============================================================================
