--------------------------- MODULE MCInterpreter ---------------------------
EXTENDS Interpreter

\* PUSH1 and PUSH3 of a value, n times.
Pushes(n, v) == [i \in 1 .. 2 * n |-> IF i % 2 = 1 THEN 96 ELSE v]
BigPushes(n) == [i \in 1 .. 4 * n |-> IF i % 4 = 1 THEN 98 ELSE IF i % 4 = 2 THEN 4 ELSE 0]

\* Every byte at every height of the stack, and in the other revisions at the
\* heights their rows differ in.
Sweep == [code : {Append(Pushes(n, 1), b) : n \in 0 .. 18, b \in Byte}, rev : {Constantinople},
          static : {FALSE}, deep : {FALSE}, gas : {70000}]
Revisions == [code : {Append(Pushes(n, 1), b) : n \in 0 .. 7, b \in Byte \ 96 .. 159},
              rev : {Frontier, Homestead, SpuriousDragon, Byzantium, Berlin},
              static : {FALSE}, deep : {FALSE}, gas : {70000}]

\* The bytes that cost more than their row or depend on the frame, with
\* arguments of zero, of more than a word of memory, and too large to pay.
Costly == {10, 32, 55, 57, 60, 62, 81, 82, 83, 85} \cup 160 .. 164
          \cup {240, 241, 242, 243, 244, 245, 250, 253, 255}
Charged == [code : {Append(p, b) : p \in {Pushes(7, 0), Pushes(7, 33), BigPushes(7)}, b \in Costly},
            rev : {TangerineWhistle, Constantinople, Istanbul}, static : BOOLEAN, deep : BOOLEAN,
            gas : {30, 2400, 12000, 45000}]

\* A call whose answer is then copied, whole, in part and beyond its end;
\* memory that grows twice; and a push as the last byte.
AfterCall(size, from) == Pushes(7, 1) \o <<241, 96, size, 96, from, 96, 0, 62>>
CallsAndCopies == [code : {AfterCall(1, 1), AfterCall(2, 0), AfterCall(2, 1), AfterCall(0, 3),
                      Pushes(4, 40) \o <<82, 81>> \o Pushes(2, 200) \o <<83, 96, 0, 243>>}
                     \cup {<<91, b>> : b \in 96 .. 127},
              rev : {Constantinople}, static : {FALSE}, deep : {FALSE}, gas : {60000}]

\* All programs of five bytes over pushes, jumps, jump destinations, a
\* synthetic opcode and the small numbers (STOP, SUB and DIV as opcodes).
Jumps == [code : [1 .. 5 -> {0, 3, 4, 86, 87, 91, 96, 172}], rev : {Constantinople},
          static : {FALSE}, deep : {FALSE}, gas : {40}]

Frames == Sweep \cup Revisions \cup Charged \cup CallsAndCopies \cup Jumps
=============================================================================
