--------------------------- MODULE VirtualMachine ---------------------------
(***************************************************************************)
(* The machine that executes the smart contract a message carries          *)
(* (iotchain/src/VM/MCLVirtualMachine.cpp, run by sunum_peer::process_msg  *)
(* of iotchain_tests/sunum.cpp).                                           *)
(*                                                                         *)
(* Bytecode is a map from offsets to decoded instructions; sizes, and so   *)
(* offsets, return addresses and relative targets, are those of the byte   *)
(* encoding.  Words, addresses and the C++ int wrap at their own spans,    *)
(* smaller than those of the code in the runs.  The code checks no access  *)
(* to bytecode_ or stack_: one outside them is undefined, and the          *)
(* behaviour ends in the mode "stray".  So does one inside an instruction, *)
(* or across two cells, which the decoded form cannot follow.              *)
(***************************************************************************)
EXTENDS Integers, Sequences

CONSTANTS
    WordSpan,   \* values of a uint64_t: 2^64 in the code
    AddrSpan,   \* values of a uint32_t: 2^32 in the code
    IntSpan,    \* values of an int: 2^32 in the code
    StackSize,  \* sizeof(stack_), 16 MB in the code
    Programs,   \* bytecode that messages carry
    Fresh,      \* values of a stack_ nobody initialised
    RP3         \* BUILD_RP3 is defined: there are ports

Word == 0 .. WordSpan - 1
Cells == {8 * k : k \in 0 .. (StackSize \div 8) - 1}

ASSUME SpanAssumption ==
    /\ WordSpan \in Nat /\ AddrSpan \in Nat /\ IntSpan \in Nat
    /\ 16 <= AddrSpan /\ 8 * AddrSpan <= WordSpan
    /\ 4 <= IntSpan /\ IntSpan <= WordSpan
ASSUME StackAssumption == StackSize \in Nat /\ StackSize % 8 = 0
                          /\ StackSize < AddrSpan
ASSUME FreshAssumption == Fresh # {} /\ Fresh \subseteq Word

General == {"R0", "R1", "R2", "R3", "R4", "R5", "R6", "R7", "R8", "R9"}
Register == General \cup {"IP", "SP", "BP"}

VARIABLES
    code,    \* bytecode_: offset -> instruction
    regs,    \* registers_
    stack,   \* stack_: cell -> word
    mode,    \* "running", "stopped", "stray", or "killed" by a division
    frames,  \* history: the calls in progress, oldest first
    tidy     \* history: the program has kept to its own part of the stack

vars == <<code, regs, stack, mode, frames, tidy>>

----------------------------------------------------------------------------
(* Arithmetic.                                                             *)

\* The value of a word, or of a bit pattern of n values, read as signed.
Signed(v, n) == IF v >= n \div 2 THEN v - n ELSE v

Abs(x) == IF x < 0 THEN -x ELSE x

\* Division of C++: towards zero, the remainder has the dividend's sign.
Quotient(x, y) == IF (x < 0) = (y < 0) THEN Abs(x) \div Abs(y)
                  ELSE -(Abs(x) \div Abs(y))
Remainder(x, y) == x - y * Quotient(x, y)

\* Mutant of ExpStep: the odd factor is left out.
ExpStep_NoOdd(v1, e, n) ==
    IF n = 0 THEN 1
    ELSE LET temp == Signed(e[n \div 2] % IntSpan, IntSpan)
         IN  (temp * temp) % WordSpan

\* Exp of exponent n, given the results e of smaller ones.  temp is an int: it
\* keeps the low bits of the recursive result, and the product temp * temp,
\* when there is no v1 before it, is an int too.
ExpStep(v1, e, n) ==
    IF n = 0 THEN 1
    ELSE LET temp == Signed(e[n \div 2] % IntSpan, IntSpan)
         IN  IF n % 2 = 0
             THEN Signed((temp * temp) % IntSpan, IntSpan) % WordSpan
             ELSE (((v1 * temp) % WordSpan) * temp) % WordSpan

Exp(v1, v2) == LET e[n \in 0 .. v2] == ExpStep(v1, e, n) IN e[v2]

Binary(op, v1, v2) ==
    LET s1 == Signed(v1, WordSpan)
        s2 == Signed(v2, WordSpan)
    IN  CASE op = "ADD"  -> (v1 + v2) % WordSpan
          [] op = "SUB"  -> (v1 - v2) % WordSpan
          [] op = "MUL"  -> (v1 * v2) % WordSpan
          [] op = "SMUL" -> (s1 * s2) % WordSpan
          [] op = "DIV"  -> v1 \div v2
          [] op = "SDIV" -> Quotient(s1, s2) % WordSpan
          [] op = "MOD"  -> v1 % v2
          [] op = "SMOD" -> Remainder(s1, s2) % WordSpan
          [] op = "EXP"  -> Exp(v1, v2)

\* Mutant of Unary: the result stays a signed number.
Unary_Signed(op, v1) ==
    CASE op = "NEG" -> -Signed(v1, WordSpan)
      [] op = "NOT" -> WordSpan - 1 - v1

Unary(op, v1) ==
    CASE op = "NEG" -> (-Signed(v1, WordSpan)) % WordSpan
      [] op = "NOT" -> WordSpan - 1 - v1

Holds(op, v1, v2) ==
    CASE op = "LT" -> v1 < v2
      [] op = "LE" -> v1 <= v2
      [] op = "GT" -> v1 > v2
      [] op = "GE" -> v1 >= v2
      [] op = "EQ" -> v1 = v2

BinaryOps == {"ADD", "SUB", "MUL", "SMUL", "DIV", "SDIV", "MOD", "SMOD", "EXP"}
Divisions == {"DIV", "SDIV", "MOD", "SMOD"}
UnaryOps == {"NEG", "NOT"}
BranchOps == {"LT", "LE", "GT", "GE", "EQ"}

\* The smallest signed word divided by -1.
Overflows(op, v1, v2) ==
    op \in {"SDIV", "SMOD"} /\ v1 = WordSpan \div 2 /\ v2 = WordSpan - 1

----------------------------------------------------------------------------
(* Instructions.  An operand is a constant or a register; an address       *)
(* operand is encoded in 3 bytes where a constant takes 8.                 *)

ConstSize(o) == IF o.const THEN 8 ELSE 1
AddrSize(o) == IF o.const THEN 3 ELSE 1

\* Bytes that an instruction takes.
Size(i) ==
    CASE i.op \in BinaryOps     -> 2 + ConstSize(i.a) + ConstSize(i.b)
      [] i.op \in UnaryOps      -> 2 + ConstSize(i.a)
      [] i.op \in BranchOps     -> 4 + ConstSize(i.a) + ConstSize(i.b)
      [] i.op \in {"STORE", "LOAD"} -> 2 + AddrSize(i.b)
      [] i.op = "JMP"           -> 1 + AddrSize(i.a)
      [] i.op = "CALL"          -> 9 + AddrSize(i.a)
      [] i.op = "PUSH"          -> 1 + ConstSize(i.a)
      [] i.op = "POP"           -> 2
      [] i.op = "MOV"           -> 2 + ConstSize(i.b)
      [] OTHER                  -> 1

\* What an instruction reads; the code would read IP in the middle of a fetch,
\* and no program that names it as a source is considered.
Source == Register \ {"IP"}
Operand(o) == /\ o.const \in BOOLEAN
              /\ o.x \in IF o.const THEN Word ELSE Source

WellFormed(i) ==
    /\ i.op \in BinaryOps \cup UnaryOps \cup BranchOps \cup {"JMP", "CALL", "PUSH"}
         => Operand(i.a)
    /\ i.op \in BinaryOps \cup BranchOps \cup {"STORE", "LOAD", "MOV"} => Operand(i.b)
    /\ i.op \in BinaryOps \cup UnaryOps \cup {"LOAD", "POP", "MOV"} => i.dst \in Register
    /\ i.op = "STORE" => i.src \in Source
    /\ i.op \in BranchOps => i.to \in 0 .. AddrSpan - 1
    /\ i.op = "CALL" => i.size \in Word

\* Bytecode comes in the body of a message, of at most 10240 bytes: its
\* offsets are far below what an address can hold.
ASSUME ProgramAssumption ==
    \A c \in Programs : \A o \in DOMAIN c :
        o \in Nat /\ o + Size(c[o]) < AddrSpan /\ WellFormed(c[o])

\* The instruction about to be executed, where it ends, an operand's value.
This == code[regs["IP"]]
After == regs["IP"] + Size(This)
Value(o) == IF o.const THEN o.x ELSE regs[o.x]
Address(o) == Value(o) % AddrSpan

\* The target of JMP and CALL, whose address operand ends at offset e: a
\* relative one counts from the operand's last byte.
Target(e) == IF This.relative
             THEN (Address(This.a) + (e - 1)) % AddrSpan
             ELSE Address(This.a)

\* Words that Stout pops: R1 characters, eight to a word.
StoutWords == (((regs["R1"] - 1) % WordSpan) \div 8 + 1) % AddrSpan

\* Cells that the instruction reads or writes.
Accessed ==
    LET sp == regs["SP"]
        Stout == This.op = "SYSCALL" /\ regs["R0"] = 3
    IN  CASE This.op = "PUSH"  -> {(sp - 8) % WordSpan}
          [] This.op = "POP"   -> {sp}
          [] This.op = "CALL"  -> {(sp - 8) % WordSpan, (sp - 16) % WordSpan}
          [] This.op = "RET"   -> {sp, sp + 8}
          [] This.op \in {"STORE", "LOAD"} -> {Address(This.b)}
          [] Stout             -> {sp + 8 * k : k \in 0 .. StoutWords - 1}
          [] OTHER             -> {}

Running == mode = "running" /\ regs["IP"] \in DOMAIN code

\* The next instruction is one of ops and stays within the stack.
Does(ops) == Running /\ This.op \in ops /\ Accessed \subseteq Cells

----------------------------------------------------------------------------
(* The history of calls.  A frame has the address of its return address,   *)
(* which lies below its argument size.                                     *)

FrameCells == UNION {{f.sp, f.sp + 8} : f \in {frames[k] : k \in 1 .. Len(frames)}}

\* The stack above which belongs to the calls in progress.
Floor(fs) == IF fs = <<>> THEN StackSize ELSE fs[Len(fs)].sp

\* An instruction that neither calls nor returns; ok, if it writes to no frame.
Keeps(ok) ==
    /\ frames' = frames
    /\ tidy' = (tidy /\ ok /\ regs'["SP"] <= Floor(frames))

----------------------------------------------------------------------------
(* One iteration of the loop of Execute.                                   *)

\* Arithmetic with two operands, and its result in a register.
Compute ==
    /\ Does(BinaryOps)
    /\ This.op \in Divisions => Value(This.b) # 0
    /\ regs' = [regs EXCEPT !["IP"] = After,
                   ![This.dst] = Binary(This.op, Value(This.a), Value(This.b))]
    /\ UNCHANGED <<code, stack, mode>>
    /\ Keeps(TRUE)

\* A division by zero kills the process; one that overflows does on x86.
Trap ==
    /\ Does(Divisions)
    /\ \/ Value(This.b) = 0
       \/ Overflows(This.op, Value(This.a), Value(This.b))
    /\ mode' = "killed"
    /\ UNCHANGED <<code, regs, stack, frames, tidy>>

Invert ==
    /\ Does(UnaryOps)
    /\ regs' = [regs EXCEPT !["IP"] = After,
                            ![This.dst] = Unary(This.op, Value(This.a))]
    /\ UNCHANGED <<code, stack, mode>>
    /\ Keeps(TRUE)

Branch ==
    /\ Does(BranchOps)
    /\ regs' = [regs EXCEPT !["IP"] =
                   IF Holds(This.op, Value(This.a), Value(This.b)) THEN This.to
                   ELSE After]
    /\ UNCHANGED <<code, stack, mode>>
    /\ Keeps(TRUE)

Store ==
    /\ Does({"STORE"})
    /\ stack' = [stack EXCEPT ![Address(This.b)] = regs[This.src]]
    /\ regs' = [regs EXCEPT !["IP"] = After]
    /\ UNCHANGED <<code, mode>>
    /\ Keeps(Address(This.b) \notin FrameCells)

Load ==
    /\ Does({"LOAD"})
    /\ regs' = [regs EXCEPT !["IP"] = After, ![This.dst] = stack[Address(This.b)]]
    /\ UNCHANGED <<code, stack, mode>>
    /\ Keeps(TRUE)

Jump ==
    /\ Does({"JMP"})
    /\ regs' = [regs EXCEPT !["IP"] = Target(After)]
    /\ UNCHANGED <<code, stack, mode>>
    /\ Keeps(TRUE)

\* Mutant of CallWords: the return address is pushed first.
CallWords_Swapped == <<After, This.size>>

\* Mutant of CallWords: the return address is the call's own.
CallWords_Here == <<This.size, regs["IP"]>>

\* What CALL pushes: the size of the arguments, then the return address.
CallWords == <<This.size, After>>

\* The target is relative to the address operand, which precedes the size.
Call ==
    /\ Does({"CALL"})
    /\ LET sp == regs["SP"] - 16
       IN  /\ stack' = [stack EXCEPT ![sp + 8] = CallWords[1], ![sp] = CallWords[2]]
           /\ regs' = [regs EXCEPT !["SP"] = sp, !["IP"] = Target(After - 8)]
           /\ frames' = Append(frames, [sp |-> sp, ret |-> After, size |-> This.size])
    /\ UNCHANGED <<code, mode, tidy>>

\* RET pops both and drops the arguments.
Ret ==
    /\ Does({"RET"})
    /\ LET sp == regs["SP"]
           up == (sp + 16 + (stack[sp + 8] % AddrSpan)) % WordSpan
           outer == SubSeq(frames, 1, Len(frames) - 1)
       IN  /\ regs' = [regs EXCEPT !["SP"] = up, !["IP"] = stack[sp] % AddrSpan]
           /\ frames' = outer
           /\ tidy' = (tidy /\ frames # <<>> /\ sp = Floor(frames) /\ up <= Floor(outer))
    /\ UNCHANGED <<code, stack, mode>>

Push ==
    /\ Does({"PUSH"})
    /\ LET sp == regs["SP"] - 8
       IN  /\ stack' = [stack EXCEPT ![sp] = Value(This.a)]
           /\ regs' = [regs EXCEPT !["IP"] = After, !["SP"] = sp]
    /\ UNCHANGED <<code, mode>>
    /\ Keeps(TRUE)

Pop ==
    /\ Does({"POP"})
    /\ regs' = [regs EXCEPT !["IP"] = After, !["SP"] = regs["SP"] + 8,
                            ![This.dst] = stack[regs["SP"]]]
    /\ UNCHANGED <<code, stack, mode>>
    /\ Keeps(TRUE)

Mov ==
    /\ Does({"MOV"})
    /\ regs' = [regs EXCEPT !["IP"] = After, ![This.dst] = Value(This.b)]
    /\ UNCHANGED <<code, stack, mode>>
    /\ Keeps(TRUE)

\* SYSCALL by R0: RPort reads a port into R2, Stout pops what it prints; the
\* others (Sleep, WPort, unknown numbers) leave the machine as it is.
Syscall ==
    /\ Does({"SYSCALL"})
    /\ \/ /\ RP3 /\ regs["R0"] = 2
          /\ \E v \in {0, 1} : regs' = [regs EXCEPT !["IP"] = After, !["R2"] = v]
       \/ /\ regs["R0"] = 3
          /\ regs' = [regs EXCEPT !["IP"] = After, !["SP"] = @ + 8 * StoutWords]
       \/ /\ regs["R0"] # 3 /\ (RP3 => regs["R0"] # 2)
          /\ regs' = [regs EXCEPT !["IP"] = After]
    /\ UNCHANGED <<code, stack, mode>>
    /\ Keeps(TRUE)

\* Mutant of Illegal: the opcode is not passed over.
Illegal_Stuck ==
    /\ Does({"illegal"})
    /\ UNCHANGED <<code, regs, stack, mode>>
    /\ Keeps(TRUE)

\* An opcode that is none is reported and passed over.
Illegal ==
    /\ Does({"illegal"})
    /\ regs' = [regs EXCEPT !["IP"] = After]
    /\ UNCHANGED <<code, stack, mode>>
    /\ Keeps(TRUE)

Stop ==
    /\ Does({"STOP"})
    /\ regs' = [regs EXCEPT !["IP"] = After]
    /\ mode' = "stopped"
    /\ UNCHANGED <<code, stack>>
    /\ Keeps(TRUE)

\* Bytecode or stack is accessed where the machine has none.
Stray ==
    /\ mode = "running"
    /\ regs["IP"] \in DOMAIN code => ~(Accessed \subseteq Cells)
    /\ mode' = "stray"
    /\ UNCHANGED <<code, regs, stack, frames, tidy>>

Execute ==
    \/ Compute \/ Trap \/ Invert \/ Branch \/ Store \/ Load \/ Jump \/ Call \/ Ret
    \/ Push \/ Pop \/ Mov \/ Syscall \/ Illegal \/ Stop \/ Stray

\* The constructor; stack_ is left as the allocator gives it.
Init ==
    /\ code \in Programs
    /\ regs = [r \in Register |-> IF r = "SP" THEN StackSize ELSE 0]
    /\ \E v \in Fresh : stack = [c \in Cells |-> v]
    /\ mode = "running"
    /\ frames = <<>> /\ tidy = TRUE

\* Execute has returned, or the process has gone.
Over == mode # "running" /\ UNCHANGED vars

Next == Execute \/ Over

Spec == Init /\ [][Next]_vars

\* Execute is a plain loop in one thread.
FairSpec == Spec /\ WF_vars(Execute)

----------------------------------------------------------------------------
(* Properties.                                                             *)

\* Type correctness of the machine.
TypeOK ==
    /\ regs \in [Register -> Word]
    /\ stack \in [Cells -> Word]
    /\ mode \in {"running", "stopped", "stray", "killed"}
    /\ frames \in Seq([sp : Cells, ret : Word, size : Word])
    /\ tidy \in BOOLEAN

\* However calls nest and whatever is pushed, popped and stored between
\* them, the return address and the argument size of every call in progress
\* stay in their cells, frames do not overlap, and the stack pointer stays
\* below them, for a program that keeps off its callers' frames.
FramesIntact ==
    tidy => /\ \A k \in 1 .. Len(frames) :
                 /\ stack[frames[k].sp] = frames[k].ret
                 /\ stack[frames[k].sp + 8] = frames[k].size
                 /\ frames[k].sp + 16 <= Floor(SubSeq(frames, 1, k - 1))
            /\ regs["SP"] <= Floor(frames)

\* A return goes back behind the call it ends and drops that call's
\* arguments, no more and no less.
ReturnsHome ==
    [][LET f == frames[Len(frames)]
       IN  Len(frames') < Len(frames) /\ tidy' =>
             /\ regs'["IP"] = f.ret
             /\ regs'["SP"] = f.sp + 16 + (f.size % AddrSpan)]_vars

\* Every jump and branch of the program leads forward, and none so far that a
\* uint32_t wraps.  Calls lead anywhere.
Forward ==
    \A o \in DOMAIN code :
        /\ code[o].op \in BranchOps => code[o].to > o
        /\ code[o].op = "JMP" =>
             /\ code[o].a.const
             /\ LET to == code[o].a.x + (IF code[o].relative THEN o + AddrSize(code[o].a) ELSE 0)
                IN  to > o /\ to < AddrSpan
        /\ code[o].op \in BinaryOps \cup UnaryOps \cup {"LOAD", "POP", "MOV"}
             => code[o].dst # "IP"

\* Such a program ends, recursion included, which the stack bounds: it does not
\* hold the strand of the peer that received it for ever.
ForwardEnds == Forward /\ tidy ~> mode # "running" \/ ~tidy

\* Where the program stands: behind each call in progress, and at IP.
Stands == [k \in 1 .. Len(frames) + 1 |->
              IF k <= Len(frames) THEN frames[k].ret ELSE regs["IP"]]

\* t is s with its end cut off, or is further on where it first differs.
Later(s, t) ==
    \E k \in 1 .. Len(s) :
        /\ k <= Len(t) => s[k] < t[k]
        /\ k <= Len(t) + 1 /\ \A j \in 1 .. k - 1 : s[j] = t[j]

\* Such a program never comes back to where it stood: no iteration but gets
\* further on in the newest call, and a return in the one before.
Advances ==
    [][Forward /\ tidy' /\ mode' = "running" => Later(Stands, Stands')]_vars

\* v to the n: the value up to a cap, and modulo the word.
Capped(v, n) ==
    LET p[k \in 0 .. n] ==
          IF k = 0 THEN 1
          ELSE LET x == p[k - 1] * v IN IF x > IntSpan THEN IntSpan ELSE x
    IN  p[n]
PowerMod(v, n) ==
    LET p[k \in 0 .. n] == IF k = 0 THEN 1 ELSE (p[k - 1] * v) % WordSpan
    IN  p[n]

\* EXP computes the power modulo the word as long as the int that carries its
\* half-way value does not overflow.
ExpIsPower ==
    Does({"EXP"}) =>
        LET v == Value(This.a)
            n == Value(This.b)
        IN  /\ Capped(v, n \div 2) < IntSpan \div 2
            /\ n % 2 = 1 \/ Capped(v, n) < IntSpan \div 2
            => Exp(v, n) = PowerMod(v, n)

=============================================================================
