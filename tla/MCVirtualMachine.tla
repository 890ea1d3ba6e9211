-------------------------- MODULE MCVirtualMachine --------------------------
(* Programs of the TLC runs of VirtualMachine. *)
EXTENDS VirtualMachine

K(v) == [const |-> TRUE, x |-> v]
R(r) == [const |-> FALSE, x |-> r]

\* Instructions; a label stands for an offset that Assemble fills in.
Op(op) == [op |-> op]
Math(op, a, b, dst) == [op |-> op, a |-> a, b |-> b, dst |-> dst]
Negate(op, a, dst) == [op |-> op, a |-> a, dst |-> dst]
If(op, a, b, label) == [op |-> op, a |-> a, b |-> b, to |-> 0, label |-> label]
Jmp(rel, label) == [op |-> "JMP", a |-> K(0), relative |-> rel, label |-> label]
JmpReg(r, rel) == [op |-> "JMP", a |-> R(r), relative |-> rel]
CallTo(rel, size, label) ==
    [op |-> "CALL", a |-> K(0), relative |-> rel, size |-> size, label |-> label]
PushOf(o) == [op |-> "PUSH", a |-> o]
PopTo(r) == [op |-> "POP", dst |-> r]
MovTo(r, o) == [op |-> "MOV", dst |-> r, b |-> o]
StoreTo(r, o) == [op |-> "STORE", src |-> r, b |-> o]
LoadFrom(r, o) == [op |-> "LOAD", dst |-> r, b |-> o]

\* The bytecode of a sequence of instructions; labels are positions in it.  A
\* relative one lies ahead: the 3 bytes of an address are not signed.
Assemble(s) ==
    LET n == Len(s)
        off[k \in 1 .. n] == IF k = 1 THEN 0 ELSE off[k - 1] + Size(s[k - 1])
        Resolved(k) ==
            LET i == s[k]
                to == off[i.label]
                base == off[k] + 1 + AddrSize(i.a) - 1
            IN  CASE "label" \notin DOMAIN i -> i
                  [] i.op \in BranchOps -> [i EXCEPT !.to = to]
                  [] OTHER -> [i EXCEPT !.a.x =
                                  IF i.relative THEN to - base ELSE to]
    IN  [o \in {off[k] : k \in 1 .. n} |->
            Resolved(CHOOSE k \in 1 .. n : off[k] = o)]

\* Three instructions, a STOP, and a subroutine of two: labels 1 and 5.
Main == {PushOf(K(8)), PopTo("R1"), CallTo(FALSE, 8, 5), CallTo(TRUE, 0, 5),
         StoreTo("R1", K(StackSize - 16)), Math("ADD", R("R1"), K(1), "R1")}
Sub == {PushOf(R("R1")), PopTo("R1"), CallTo(FALSE, 0, 6), Op("RET"),
        StoreTo("R1", K(StackSize - 24)), If("LT", R("R1"), K(2), 3)}
Routines == {Assemble(<<a, b, c, Op("STOP"), d, e, Op("RET")>>) :
                a, b, c \in Main, d, e \in Sub}

\* Loops, arithmetic at the edges, system calls and wild accesses.
Loop == <<Math("ADD", R("R1"), K(1), "R1"), Negate("NOT", R("R1"), "R2"),
          If("GE", R("R1"), K(3), 5), Jmp(FALSE, 1),
          LoadFrom("R3", K(0)), Op("illegal"), Op("STOP")>>
\* The register holds -35, the way from the operand of JMP back to the start.
Back == <<Math("ADD", R("R1"), K(1), "R1"), If("GT", R("R1"), K(2), 5),
          MovTo("R4", K(WordSpan - 35)), JmpReg("R4", TRUE), Op("STOP")>>
Divide(op, x, y) == <<MovTo("R1", K(x)), Math(op, R("R1"), K(y), "R2"),
                      Math("EXP", R("R2"), K(3), "R3"), Op("STOP")>>
Divides == {Divide(op, x, y) : op \in BinaryOps \ {"EXP"},
               x \in {0, 7, WordSpan \div 2, WordSpan - 1}, y \in {0, 2, WordSpan - 1}}
Powers == {<<MovTo("R1", K(v)), Math("EXP", R("R1"), K(n), "R2"), Op("STOP")>> :
              v \in 0 .. 40 \cup {WordSpan - 1}, n \in 0 .. 6}
System(n, size) == <<PushOf(K(1)), PushOf(K(2)), MovTo("R0", K(n)),
                     MovTo("R1", K(size)), Op("SYSCALL"), Negate("NEG", R("R2"), "R2"),
                     Op("illegal"), Op("STOP")>>
Systems == {System(n, size) : n \in 0 .. 4, size \in {0, 1, 8, 9, 40}}
Wild == <<MovTo("R5", K(4)), StoreTo("R5", R("R5")), Op("STOP")>>
Recursion == <<CallTo(TRUE, 8, 2), PushOf(K(3)), If("EQ", R("R1"), K(1), 5),
               CallTo(FALSE, 8, 2), If("LE", R("R1"), K(0), 2), Op("STOP")>>

\* Calls itself until there is no stack left.
Deep == <<PushOf(K(1)), CallTo(FALSE, 8, 1), Op("RET")>>

Code == Routines \cup {Assemble(s) : s \in {Loop, Back, Wild, Recursion, Deep}
                                          \cup Divides \cup Powers \cup Systems}
=============================================================================
