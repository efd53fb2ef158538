--------------------------- MODULE MCInstructions ---------------------------
(***************************************************************************)
(* Instructions on small machine words (a byte of 6 bits, decimal digits   *)
(* below 5) and a library of programs.  A behaviour runs one program on    *)
(* one choice of operands until its STOP; the properties compare what it   *)
(* leaves with what the program is for, computed on whole numbers.         *)
(***************************************************************************)
EXTENDS Instructions, SequencesExt

VARIABLE run     \* the program, its operands and where its instructions begin

E(h, sz, m, r) == [h |-> h, sz |-> sz, m |-> m, r |-> r]
EX(h, sz, m, r, x) == [h |-> h, sz |-> sz, m |-> m, r |-> r, x |-> x, toReg |-> TRUE]
ToMemory(h, sz, m, r, x) == [EX(h, sz, m, r, x) EXCEPT !.toReg = FALSE]
Pair(h, sz, r, x, mem) == [h |-> h, sz |-> sz, r |-> r, x |-> x, mem |-> mem]
Move(sz, m, r, dm, x) == [h |-> "Move", sz |-> sz, m |-> m, r |-> r, dm |-> dm, x |-> x]
Moveq(n, x) == [h |-> "Moveq", data |-> n, x |-> x]
Branch(cc, disp) == [h |-> "Bcc", cc |-> cc, disp |-> disp]
Conditional(h, cc, m, r) == [h |-> h, cc |-> cc, m |-> m, r |-> r]
Shift(sz, dir, type, useReg, x, r) ==
  [h |-> "shiftRegister", sz |-> sz, dir |-> dir, type |-> type, useReg |-> useReg, x |-> x, r |-> r]
Brief(isAddr, xn, isLong, disp) == [isAddr |-> isAddr, xn |-> xn, isLong |-> isLong, disp |-> disp]

W(n) == n % 4096                     \* a word of the code
Supervisor == 2^9 + 7 * 64           \* $2700
Stop == <<[h |-> "Stop"], Supervisor>>
SaveSr(r) == <<E("MoveFromSr", "w", "Dn", r)>>

\* A program: what it is about, parameters, and its instructions with their extension words.
P(name, kind, sz, text) == [name |-> name, kind |-> kind, sz |-> sz, text |-> text]

Double(sz) == IF sz = "b" THEN "w" ELSE "l"

Wide(sz) == <<
  P("wide", "add", sz, <<<<EX("Add", sz, "Dn", 2, 0)>>, <<Pair("Addx", sz, 3, 1, FALSE)>>, SaveSr(2), Stop>>),
  P("wide", "sub", sz, <<<<EX("Sub", sz, "Dn", 2, 0)>>, <<Pair("Subx", sz, 3, 1, FALSE)>>, SaveSr(2), Stop>>),
  P("wide", "neg", sz, <<<<E("Neg", sz, "Dn", 0)>>, <<E("Negx", sz, "Dn", 1)>>, SaveSr(2), Stop>>) >>

\* In memory, y below A0 and x below A1.
InMemory(name, kind, sz, op) ==
  P(name, kind, sz, <<<<E("MoveToCcr", "w", "#", 0), 4>>, <<op>>, <<op>>, SaveSr(2), Stop>>)

Chains == <<
  InMemory("memory", "add", "b", Pair("Addx", "b", 0, 1, TRUE)),
  InMemory("memory", "sub", "b", Pair("Subx", "b", 0, 1, TRUE)),
  InMemory("memory", "sub", "w", Pair("Subx", "w", 0, 1, TRUE)),
  InMemory("memory", "neg", "b", E("Negx", "b", "-(An)", 1)),
  InMemory("decimal", "add", "b", Pair("Abcd", "b", 0, 1, TRUE)),
  InMemory("decimal", "sub", "b", Pair("Sbcd", "b", 0, 1, TRUE)),
  InMemory("decimal", "neg", "b", E("Nbcd", "b", "-(An)", 1)) >>

Conditions == <<"T", "F", "HI", "LS", "CC", "CS", "NE", "EQ", "VC", "VS", "PL", "MI", "GE", "LT", "GT", "LE">>

\* D0 compared with D1, with 5 or with 0, or A0 with a sign-extended word.
Comparison(form, sz, cc, words) ==
  P("compare", <<form, cc>>, sz,
    <<words, <<Conditional("Scc", cc, "Dn", 2)>>, <<Branch(cc, 2)>>, <<Moveq(1, 3)>>, Stop>>)

ComparisonsFor(cc) == <<
  Comparison("Cmp", "b", cc, <<EX("Cmp", "b", "Dn", 1, 0)>>),
  Comparison("Cmpi", "w", cc, <<E("Cmpi", "w", "Dn", 0), 5>>),
  Comparison("Cmpa", "w", cc, <<EX("Cmpa", "w", "Dn", 1, 0)>>),
  Comparison("Tst", "b", cc, <<E("Tst", "b", "Dn", 0)>>) >>

ShiftsFor(dir, type) == <<
  P("shift", <<dir, type>>, "b", <<<<Shift("b", dir, type, TRUE, 1, 0)>>, SaveSr(2), Stop>>),
  P("shift", <<dir, type>>, "w", <<<<Shift("w", dir, type, TRUE, 1, 0)>>, SaveSr(2), Stop>>),
  P("shift8", <<dir, type>>, "b", <<<<Shift("b", dir, type, FALSE, 0, 0)>>, SaveSr(2), Stop>>),
  P("shift1", <<dir, type>>, "w",
    <<<<[h |-> "shiftMemory", m |-> "(An)", r |-> 0, dir |-> dir, type |-> type]>>,
      SaveSr(2), <<Move("w", "(An)", 0, "Dn", 0)>>, Stop>>) >>

\* D1 into D0, and back: the quotient times D1, and the remainder added.
Division(kind, div, mul, high) ==
  P("divide", kind, "l",
    <<<<EX(div, "w", "Dn", 1, 0)>>, <<Branch("VS", 14)>>, <<Move("l", "Dn", 0, "Dn", 2)>>,
      <<EX(mul, "w", "Dn", 1, 0)>>, <<E("Swap", "w", "Dn", 2)>>>> \o high
      \o <<<<EX("Add", "l", "Dn", 2, 0)>>, Stop>>)

Divisions == <<
  Division("unsigned", "Divu", "Mulu", <<<<E("Andi", "l", "Dn", 2), 0, W(-1)>>>>),
  Division("signed", "Divs", "Muls", <<<<E("Ext", "l", "Dn", 2)>>, <<[h |-> "Nop"]>>, <<[h |-> "Nop"]>>>>) >>

Stride(r) == IF r = 7 THEN 2 ELSE 1      \* the stack pointer moves by words

\* Copy bytes from (src)+ to (A1)+ until one is 0 or the count in D0 runs out.
Copy(src) ==
  P("copy", src, "b", <<<<Move("b", "(An)+", src, "(An)+", 1)>>,
                        <<Conditional("Dbcc", "EQ", "Dn", 0), W(-4)>>, Stop>>)

\* The sum of 1 to D0, by recursion through a frame of one word.
SumBody(call) == <<
  <<E("Link", "w", "An", 6), W(-2)>>,
  <<E("Tst", "w", "Dn", 0)>>,
  <<Branch("EQ", IF Len(call) = 1 THEN 12 ELSE IF Len(call) = 2 THEN 14 ELSE 16)>>,
  <<Move("w", "Dn", 0, "d(An)", 6), W(-2)>>,
  <<EX("Subq", "w", "Dn", 0, 1)>>,
  call,
  <<EX("Add", "w", "d(An)", 6, 1), W(-2)>>,
  <<E("Unlk", "w", "An", 6)>>,
  <<[h |-> "Rts"]>> >>

\* Every program is laid out from here.
Entry == 4096

\* The body lies behind BSR.S and STOP, at 6 bytes from the entry.
Sum(kind, call) == P("sum", kind, "w", <<<<Branch("SR", 4)>>, Stop>> \o SumBody(call))

Sums == <<
  Sum("short", <<Branch("SR", -16 % 64)>>),
  Sum("word", <<Branch("SR", 0), W(-16)>>),
  Sum("pc", <<E("Jsr", "l", "d(PC)", 0), W(-16)>>),
  Sum("long", <<E("Jsr", "l", "abs.L", 0), (Entry + 6) \div 4096, W(Entry + 6)>>),
  Sum("indirect", <<E("Jsr", "l", "(An)", 2)>>) >>

\* A routine that saves the condition codes under its return address.
Quiet == P("quiet", "rtr", "w",
  <<<<Branch("SR", 6)>>, SaveSr(2), Stop,
    <<E("MoveFromSr", "w", "-(An)", 7)>>, <<E("Clr", "w", "Dn", 1)>>, <<[h |-> "Rtr"]>> >>)

\* Registers saved upwards, overwritten, and loaded again.
Saves == P("save", "up", "l",
  <<<<E("MovemRegToMem", "l", "(An)", 2), {0, 1, 8}>>, <<Moveq(7, 0)>>, <<Moveq(9, 1)>>,
    <<EX("Movea", "w", "#", 0, 0), 77>>,
    <<E("MovemMemToReg", "l", "(An)+", 2), {0, 1, 8}>>, Stop>>)

\* Registers pushed and popped as compiled functions do.
PushPop == P("push", "down", "l",
  <<<<E("MovemRegToMem", "l", "-(An)", 7), {13, 12, 5}>>, <<Moveq(7, 2)>>, <<Moveq(9, 3)>>,
    <<E("MovemMemToReg", "l", "(An)+", 7), {2, 3, 10}>>, Stop>>)

BitProgram(form, m) ==
  LET Op(h) == IF form = "dyn" THEN <<EX(h \o "Dyn", "b", m, 0, 1)>>
                               ELSE <<E(h \o "Static", "b", m, 0), 7>>
  IN  P("bits", <<form, m>>, IF m = "Dn" THEN "l" ELSE "b",
        <<Op("Btst"), <<Conditional("Scc", "NE", "Dn", 2)>>, Op("Bset"), Op("Bset"), Op("Bchg"),
          Op("Btst"), <<Conditional("Scc", "EQ", "Dn", 3)>>, Op("Bclr"), Op("Bchg"), Op("Bclr"), Stop>>)

AllBits == << BitProgram("dyn", "Dn"), BitProgram("dyn", "(An)"), BitProgram("static", "Dn"), BitProgram("static", "(An)") >>

\* A lock taken twice: the flags tell the first taker from the second.
Lock == P("lock", "tas", "b",
  <<<<E("Tas", "b", "(An)", 0)>>, <<Conditional("Scc", "PL", "Dn", 0)>>,
    <<E("Tas", "b", "(An)", 0)>>, <<Conditional("Scc", "PL", "Dn", 1)>>, Stop>>)

\* The bits of D0 where D2 has ones, the bits of D1 elsewhere, found in two ways.
Select == <<
  P("select", "registers", "w",
    <<<<EX("And", "w", "Dn", 2, 0)>>, <<E("Not", "w", "Dn", 2)>>, <<EX("And", "w", "Dn", 2, 1)>>,
      <<EX("Or", "w", "Dn", 1, 0)>>, <<E("Ori", "w", "Dn", 0), 0>>,
      <<E("Eori", "w", "Dn", 0), 1365>>, <<E("Eori", "w", "Dn", 0), 1365>>, Stop>>),
  P("select", "memory", "w",
    <<<<EX("Eor", "w", "Dn", 0, 1)>>, <<Move("w", "Dn", 0, "(An)", 0)>>,
      <<ToMemory("And", "w", "(An)", 0, 2)>>, <<EX("Eor", "w", "(An)", 0, 1)>>,
      <<Move("w", "(An)", 0, "Dn", 0)>>, Stop>>) >>

\* Bits set, flipped and cleared in the SR, or in the condition codes alone.
Status(part) ==
  P("status", part, "w",
    <<<<[h |-> "Ori" \o part], 512 + 64 * 5 + 17>>, <<[h |-> "Eori" \o part], 64 * 3 + 14>>,
      <<[h |-> "Andi" \o part], 512 + 64 * 6 + 27>>, SaveSr(2), Stop>>)

\* One memory word, d(A0,D0), reached in each way there is.
Reach == P("reach", "data", "w",
  <<<<EX("Lea", "l", "d(An,Xn)", 0, 1), Brief(FALSE, 0, FALSE, 62)>>,
    <<Move("w", "(An)", 1, "Dn", 1)>>,
    <<Move("w", "d(An,Xn)", 0, "Dn", 2), Brief(FALSE, 0, FALSE, 62)>>,
    <<EX("Movea", "l", "An", 0, 2)>>, <<EX("Adda", "w", "Dn", 0, 2)>>,
    <<Move("w", "d(An)", 2, "Dn", 3), W(-2)>>,
    <<E("Pea", "l", "d(An,Xn)", 0), Brief(FALSE, 0, FALSE, 62)>>,
    <<EX("Suba", "w", "#", 0, 2), 2>>,
    <<EX("Cmpa", "l", "(An)+", 7, 2)>>, <<Conditional("Scc", "EQ", "Dn", 0)>>,
    <<Move("w", "d(An)", 1, "abs.W", 0), 0, 40>>, <<EX("Cmp", "w", "abs.L", 0, 1), 0, 40>>,
    <<Conditional("Scc", "NE", "abs.W", 0), 42>>, Stop>>)

\* A jump table behind the instruction, indexed by D0 or by A0.
Jumps(isAddr) == P("reach", "code", "w",
  <<<<E("Jmp", "l", "d(PC,Xn)", 0), Brief(isAddr, 0, FALSE, 2)>>,
    <<Branch("T", 4)>>, <<Branch("T", 6)>>, <<Moveq(1, 1)>>, Stop, <<Moveq(2, 1)>>, Stop>>)

\* Operations that cancel out.
Neutral == P("neutral", "all", "w",
  <<<<E("Addi", "w", "Dn", 0), 2047>>, <<E("Subi", "w", "Dn", 0), 2047>>,
    <<EX("Addq", "b", "Dn", 0, 0)>>, <<EX("Subq", "b", "Dn", 0, 0)>>,
    <<E("Swap", "w", "Dn", 0)>>, <<E("Swap", "w", "Dn", 0)>>,
    <<EX("Addq", "w", "An", 0, 3)>>, <<EX("Subq", "w", "An", 0, 3)>>,
    <<E("MoveToCcr", "w", "#", 0), 0>>, <<Pair("Abcd", "b", 3, 2, FALSE)>>,
    <<E("MoveToCcr", "w", "#", 0), 0>>, <<Pair("Sbcd", "b", 3, 2, FALSE)>>,
    <<E("Ext", "w", "Dn", 1)>>, <<E("Ext", "l", "Dn", 1)>>, <<[h |-> "Reset"]>>, Stop>>)

\* An instruction that traps to a handler that returns.
Trapping(kind, words) == P("trap", kind, "w", <<words, SaveSr(3), Stop>>)
Traps == <<
  Trapping("trap", <<[h |-> "Trap", vector |-> 1]>>),
  Trapping("trapv", <<[h |-> "Trapv"]>>),
  Trapping("chk", <<EX("Chk", "w", "Dn", 1, 0)>>),
  Trapping("divide", <<EX("Divs", "w", "#", 0, 0), 0>>),
  Trapping("illegal", <<[h |-> "Illegal"]>>),
  Trapping("A", <<[h |-> "LineA"]>>), Trapping("F", <<[h |-> "LineF"]>>) >>

\* A privileged instruction in user mode; the handler of vector 8 stops.
Refused(words) == P("refused", "user", "w", <<words>>)
Refusals == <<
  Refused(<<[h |-> "OriSr"], 512>>), Refused(<<[h |-> "AndiSr"], 0>>), Refused(<<[h |-> "EoriSr"], 512>>),
  Refused(<<E("MoveToSr", "w", "Dn", 0)>>), Refused(Stop), Refused(<<[h |-> "Reset"]>>),
  Refused(<<[h |-> "Rte"]>>), Refused(<<[h |-> "MoveUsp", r |-> 0, toUsp |-> TRUE]>>) >>

\* Instructions on the status register that a user may execute, up to one that he may not.
Unprivileged == P("user", "ccr", "w",
  <<<<[h |-> "OriCcr"], 895>>, <<[h |-> "EoriCcr"], 895>>, <<[h |-> "AndiCcr"], 4>>,
    <<E("MoveToCcr", "w", "#", 0), 895>>, SaveSr(2), <<[h |-> "Trap", vector |-> 1]>>,
    <<EX("Chk", "w", "Dn", 1, 0)>>, Stop>>)

\* A supervisor gives the user a stack and takes the mask down.
Launch == P("launch", "usp", "w",
  <<<<[h |-> "MoveUsp", r |-> 0, toUsp |-> TRUE]>>, <<[h |-> "MoveUsp", r |-> 1, toUsp |-> FALSE]>>,
    <<E("MoveToSr", "w", "Dn", 0)>>, SaveSr(2), Stop>>)

\* An instruction of a user that meets an odd address, in the PC, in A7 or in A0 and A1.
Oddly(kind, words) == P("odd", kind, "w", <<words, <<[h |-> "Nop"]>>, Stop>>)
OddPrograms == <<
  Oddly("Jsr", <<E("Jsr", "l", "(An)", 2)>>), Oddly("Bsr", <<Branch("SR", 2)>>),
  Oddly("Rts", <<[h |-> "Rts"]>>), Oddly("Rtr", <<[h |-> "Rtr"]>>), Oddly("Jmp", <<E("Jmp", "l", "(An)", 0)>>),
  Oddly("Link", <<E("Link", "w", "An", 6), W(-2)>>), Oddly("Unlk", <<E("Unlk", "w", "An", 0)>>),
  Oddly("Pea", <<E("Pea", "l", "(An)", 2)>>), Oddly("Movea", <<EX("Movea", "l", "(An)", 0, 7)>>),
  Oddly("Move", <<Move("w", "(An)", 0, "d(An,Xn)", 2), Brief(FALSE, 0, FALSE, 0)>>),
  Oddly("Store", <<Move("l", "Dn", 0, "(An)", 0)>>), Oddly("Addx", <<Pair("Addx", "w", 0, 1, TRUE)>>),
  Oddly("Save", <<E("MovemRegToMem", "w", "-(An)", 7), {13, 12}>>),
  Oddly("Load", <<E("MovemMemToReg", "l", "(An)+", 7), {2, 15}>>),
  Oddly("Chk", <<EX("Chk", "w", "(An)", 0, 0)>>), Oddly("Divu", <<EX("Divu", "w", "(An)", 0, 0)>>),
  Oddly("Clr", <<E("Clr", "l", "(An)", 0)>>), Oddly("LineA", <<[h |-> "LineA"]>>) >>

Library == Wide("b") \o Wide("w") \o Chains \o Divisions \o <<Copy(0), Copy(7)>> \o <<Quiet, Saves>>
  \o AllBits \o <<Lock>> \o Select \o <<Status("Sr"), Status("Ccr"), Reach, Jumps(FALSE), Jumps(TRUE), Neutral>>
  \o Traps \o Refusals \o OddPrograms \o <<Unprivileged, Launch>>
  \o FlattenSeq([k \in DOMAIN Conditions |-> ComparisonsFor(Conditions[k])])
  \o FlattenSeq(<<ShiftsFor("left", "AS"), ShiftsFor("left", "LS"), ShiftsFor("left", "ROX"), ShiftsFor("left", "RO"),
                  ShiftsFor("right", "AS"), ShiftsFor("right", "LS"), ShiftsFor("right", "ROX"), ShiftsFor("right", "RO")>>) \o Sums

------------------------------------------------------------------------------
\* Most vectors lead to an RTE, and those of a privilege violation and of an address error to
\* a STOP.  The opcode of a handler may also be read as an index word, as any word may.
Return == 256
Halt == 258
Erred == 264
MCVectors == [v \in {3, 4, 5, 6, 7, 8, 10, 11, 33} |-> CASE v = 3 -> Erred [] v = 8 -> Halt [] OTHER -> Return]

\* An RTR that takes the PC and the SR out of an address error's frame goes here.
Strays(ipl) == 8192 + 64 * ipl

StopAt(a) == a :> Stop[1] @@ a + 2 :> Stop[2]

Image(text) ==
  LET At(words) == [a \in {Entry + 2 * n : n \in 0 .. Len(words) - 1} |-> words[(a - Entry) \div 2 + 1]]
  IN  At(FlattenSeq(text)) @@ (Return :> [h |-> "Rte"]) @@ StopAt(Halt)
        @@ (Erred :> ([h |-> "Nop"] @@ Brief(FALSE, 0, FALSE, 0))) @@ StopAt(Erred + 2)
        @@ StopAt(Strays(0)) @@ StopAt(Strays(5))

\* The addresses where instructions begin.
Boundaries(text) ==
  {Return, Halt} \cup {Entry + 2 * Len(FlattenSeq(SubSeq(text, 1, n))) : n \in 0 .. Len(text) - 1}
------------------
(* The starts: a program with its operands in registers or memory. *)

Edge(sz) == {0, 1, Modulus(sz) \div 2 - 1, Modulus(sz) \div 2, Modulus(sz) - 1}
DecimalEdge == {0, 1, 4, 8, 19, 32, 36}
LongEdge == {SignExtend(e, "w", "l") : e \in Edge("w")} \cup {4096}
Bit2 == {0, 1}

Operands(p) ==
  CASE p.name \in {"wide", "memory"} -> Edge(p.sz) \X Edge(p.sz) \X Edge(p.sz) \X Edge(p.sz)
    [] p.name = "decimal" -> DecimalEdge \X DecimalEdge \X {1, 19, 36} \X DecimalEdge
    [] p.name = "compare" -> (IF p.kind[1] = "Cmpa" THEN LongEdge ELSE Edge(p.sz) \cup {5}) \X Edge(p.sz)
    [] p.name = "shift" -> {0, 1, 21, 42, 63, Modulus(p.sz) \div 2} \X (0 .. 14 \cup {63}) \X Bit2
    [] p.name \in {"shift8", "shift1"} -> {0, 1, 1365, 42, 4095, 2048} \X {1} \X Bit2
    [] p.name = "divide" -> {0, 1, 4095, 4096, 8197, 16777211, 16777215, 8388607, 10000}
                              \X {1, 2, 3, 2047, 2048, 4095}
    [] p.name = "copy" -> Bit2 \X Bit2 \X Bit2 \X (0 .. 3)
    [] p.name = "sum" -> {<<n>> : n \in 0 .. 2}
    [] p.name \in {"quiet", "status", "refused", "user", "launch", "lock"} -> {<<n>> : n \in 0 .. 63}
    [] p.name \in {"save", "push"} -> {3, 70000} \X {4, 16777215} \X {5, 300}
    [] p.name = "bits" -> {0, 5, 2^24 - 1} \X {0, 5, 6, 7, 23, 24, 63}
    [] p.name = "select" -> {0, 1365, 2748, 4095} \X {0, 1365, 4032, 4095} \X {0, 63, 2340, 4095}
    [] p.name = "reach" -> {0, 2, 4} \X (IF p.kind = "data" THEN {0, 2, 4094, 4096 * 7 + 4092} ELSE {0})
    [] p.name = "neutral" -> Edge("w") \X Edge("b") \X DecimalEdge \X {0, 1, 19, 36}
    [] p.name = "odd" -> {47, 48} \X {0, 5} \X {0, 4095}
    [] p.name = "trap" -> {3, 9, 4095} \X Bit2
    [] OTHER -> {}

Blank ==
  [d |-> [r \in 0 .. 7 |-> 0], a |-> [r \in 0 .. 7 |-> IF r = 7 THEN RamTop + 1 ELSE 0],
   sr |-> Decode(Supervisor), usp |-> 0, ssp |-> RamTop + 1, pc |-> Entry, currentPC |-> Entry,
   stopped |-> FALSE, mem |-> [a \in Ram |-> a % 64], crashed |-> FALSE, erred |-> FALSE]

\* The limbs of x end at 16 and those of y at 8, the high limb first.
InRam(s, v, sz) ==
  LET n == Bytes(sz)
      x == busWrite(busWrite(s, 16 - n, v[1], sz), 16 - 2 * n, v[2], sz)
  IN  busWrite(busWrite(x, 8 - n, v[3], sz), 8 - 2 * n, v[4], sz)

\* Registers hold other bits above an operand.
Start(p, v) ==
  LET s == Blank
      D(n) == [s EXCEPT !.d = [r \in 0 .. 7 |-> IF r < n THEN v[r + 1] ELSE 0]]
      above == 3 * Modulus(p.sz)
  IN  CASE p.name = "wide" -> [s EXCEPT !.d = [r \in 0 .. 7 |-> IF r < 4 THEN v[r + 1] + above ELSE @[r]]]
        [] p.name \in {"memory", "decimal"} -> [InRam(s, v, p.sz) EXCEPT !.a[0] = 8, !.a[1] = 16]
        [] p.name = "compare" -> [s EXCEPT !.d[0] = v[1] + above, !.d[1] = v[2] + above,
                                           !.a[0] = v[1]]
        [] p.name \in {"shift", "shift8", "shift1"} ->
             [busWrite(D(2), 10, v[1], "w") EXCEPT !.d[0] = v[1] + above, !.a[0] = 10, !.sr.x = v[3] = 1]
        [] p.name = "copy" -> LET n == Stride(p.kind)
                                  t == busWrite(busWrite(busWrite(s, 0, v[1], "b"), n, v[2], "b"), 2 * n, v[3], "b")
                              IN  [t EXCEPT !.d[0] = v[4], !.a[1] = 24, !.a[p.kind] = 0]
        [] p.name = "sum" -> [D(1) EXCEPT !.a[2] = Entry + 6, !.a[6] = 5]
        [] p.name \in {"quiet", "status"} -> [s EXCEPT !.sr = Ccr(@, v[1]), !.sr.ipl = v[1] \div 8]
        [] p.name = "refused" -> [D(1) EXCEPT !.sr = Ccr(@, v[1]), !.sr.s = FALSE, !.a[7] = 30, !.a[0] = 77]
        [] p.name = "user" -> [D(1) EXCEPT !.sr = Ccr(@, v[1]), !.sr.s = FALSE, !.sr.t = v[1] > 31,
                                           !.sr.ipl = v[1] \div 8, !.a[7] = 30]
        [] p.name = "odd" -> [s EXCEPT !.sr = [Decode(0) EXCEPT !.ipl = v[2]], !.d[0] = v[3], !.a[0] = 29,
                                       !.a[1] = 33, !.a[2] = Entry + 4, !.a[7] = 21, !.ssp = v[1]]
        [] p.name = "launch" -> [s EXCEPT !.a[0] = 20, !.d[0] = 512 + 64 * (v[1] % 8) + v[1] \div 8]
        [] p.name = "lock" -> [busWrite(s, 20, v[1], "b") EXCEPT !.a[0] = 20]
        [] p.name = "save" -> [D(2) EXCEPT !.a[0] = v[3], !.a[2] = 8]
        [] p.name = "push" -> [s EXCEPT !.d[2] = v[1], !.d[3] = v[2], !.a[2] = v[3]]
        [] p.name = "bits" -> [busWrite(D(2), 20, v[1] % 64, "b") EXCEPT !.a[0] = 20]
        [] p.name = "reach" /\ p.kind = "data" -> [s EXCEPT !.a[0] = 20 + v[1], !.d[0] = v[2]]
        [] p.name = "reach" /\ p.kind = "code" -> [s EXCEPT !.a[0] = v[1], !.d[0] = v[1]]
        [] p.name = "neutral" -> [D(4) EXCEPT !.a[0] = v[1]]
        [] p.name = "trap" -> [s EXCEPT !.d[0] = v[1], !.d[1] = 5, !.sr.v = v[2] = 1, !.sr.x = TRUE]
        [] p.name = "select" -> [D(3) EXCEPT !.a[0] = 20]
        [] OTHER -> D(Len(v))

Begin(p) ==
  /\ run \in [name : {p.name}, kind : {p.kind}, sz : {p.sz}, v : Operands(p), firsts : {Boundaries(p.text)}]
  /\ rom = Image(p.text)
  /\ cpu = Start(p, run.v)

MCInit == \E n \in DOMAIN Library : Begin(Library[n])

PushPopInit == Begin(PushPop)

MCNext == Next /\ UNCHANGED run

MCSpec == MCInit /\ [][MCNext]_<<cpu, rom, run>>

PushPopSpec == PushPopInit /\ [][MCNext]_<<cpu, rom, run>>

------------------------------------------------------------------------------
(* The properties *)

Arg(n) == run.v[n]

Finished(names) == run.name \in names /\ cpu.stopped

\* The condition codes a program left in D2.
Saved == Decode(Trunc(cpu.d[2], "w"))

\* cpu.c, addressing.c: every handler consumes exactly the extension words of its
\* instruction, in whatever mode and size, and every displacement counts from where
\* the source says: control only ever reaches the first word of an instruction, and
\* an immediate that is fetched is a word of memory (the hypothesis of the theorems).  After
\* an address error, which comes in the middle of its instruction, no more is promised.
InstructionBoundary == (~Running \/ run.name = "odd" \/ cpu.pc \in run.firsts) /\ CodesGiven

Joined(low, high, sz) == high * Modulus(sz) + low

\* What the limbs hold at the end: registers, or the memory below 16.
LowLimb == IF run.name = "wide" THEN Trunc(cpu.d[0], run.sz)
           ELSE busRead(cpu, 16 - Bytes(run.sz), run.sz)
HighLimb == IF run.name = "wide" THEN Trunc(cpu.d[1], run.sz)
            ELSE busRead(cpu, 16 - 2 * Bytes(run.sz), run.sz)

Exact(kind, x, y) == CASE kind = "add" -> x + y [] kind = "sub" -> x - y [] kind = "neg" -> 0 - x

\* alu.c: a number of two limbs, added, subtracted or negated limb by limb, in
\* registers or downwards through memory, is the whole number's sum, difference or
\* negation; carry and overflow tell of the unsigned and of the signed number, N of
\* its sign, and Z, which the second limb can only clear, of both limbs.
WideArithmetic ==
  Finished({"wide", "memory"}) =>
    LET sz == Double(run.sz)
        x == Joined(Arg(1), Arg(2), run.sz)
        y == Joined(Arg(3), Arg(4), run.sz)
        exact == Exact(run.kind, x, y)
        signed == Exact(run.kind, Signed(x, sz), Signed(y, sz))
        val == Joined(LowLimb, HighLimb, run.sz)
    IN  /\ val = Trunc(exact, sz)
        /\ Saved.c = (exact \notin 0 .. Modulus(sz) - 1)
        /\ Saved.x = Saved.c
        /\ Saved.v = (signed # Signed(val, sz))
        /\ Saved.n = Negative(val, sz)
        /\ Saved.z = (val = 0)

Digits(b) == Radix * (b \div Nibble) + (b % Nibble)
DecimalValue(low, high) == Radix^2 * Digits(high) + Digits(low)

\* alu.c, bcd.c: numbers of four decimal digits, in two bytes, added, subtracted or
\* negated through memory: the result has only decimal digits and the value modulo
\* the largest, the carry tells of the wrap and Z of all the digits.
DecimalArithmetic ==
  Finished({"decimal"}) =>
    LET exact == Exact(run.kind, DecimalValue(Arg(1), Arg(2)), DecimalValue(Arg(3), Arg(4)))
        val == DecimalValue(LowLimb, HighLimb)
    IN  /\ \A b \in {LowLimb, HighLimb} : b % Nibble < Radix /\ b \div Nibble < Radix
        /\ val = exact % Radix^4
        /\ Saved.c = (exact \notin 0 .. Radix^4 - 1)
        /\ Saved.z = (val = 0)

\* arithmetic.c, branch.c: after a comparison each condition, set into a byte or
\* branched on, is the relation of its name between the two numbers, the unsigned
\* ones and the signed ones, whatever overflows in the subtraction that compares.
ConditionsDecide ==
  Finished({"compare"}) =>
    LET form == run.kind[1]
        cc == run.kind[2]
        holds == CASE form = "Cmp"  -> Relation(cc, Arg(1), Arg(2), "b")
                   [] form = "Cmpi" -> Relation(cc, Arg(1), 5, "w")
                   [] form = "Cmpa" -> Relation(cc, Arg(1), SignExtend(Arg(2), "w", "l"), "l")
                   [] form = "Tst"  -> Relation(cc, Arg(1), 0, "b")
    IN  /\ cpu.d[2] = (IF holds THEN 63 ELSE 0)
        /\ cpu.d[3] = (IF holds THEN 0 ELSE 1)

\* The value, the last bit out, and X, of a shift by n, as one would calculate them.
ShiftedTo(v, n, sz, dir, type, x) ==
  LET bits == Bits(sz)
      m == Modulus(sz)
      ring == v + m * x                           \* with X above the number
      Rotate(r, width, k) == ((r * 2^k) % 2^width) + ((r * 2^k) \div 2^width)
      left == IF dir = "left" THEN n ELSE -n
      rol == Rotate(v, bits, left % bits)
      rox == Rotate(ring, bits + 1, left % (bits + 1))
      k == IF n > bits THEN bits + 1 ELSE n        \* nothing is left to move
  IN  CASE type = "RO"  -> [val |-> rol, c |-> n > 0 /\ (IF dir = "left" THEN rol % 2 = 1 ELSE Negative(rol, sz)), x |-> x = 1]
        [] type = "ROX" -> [val |-> rox % m, c |-> rox >= m, x |-> rox >= m]
        [] dir = "left" -> LET c == ((v * 2^k) \div m) % 2 = 1
                           IN  [val |-> (v * 2^k) % m, c |-> n > 0 /\ c, x |-> IF n > 0 THEN c ELSE x = 1]
        [] OTHER -> LET w == IF type = "AS" THEN Signed(v, sz) ELSE v
                        c == IF k = 0 THEN FALSE ELSE (w \div 2^(k - 1)) % 2 = 1
                    IN  [val |-> (w \div 2^k) % m, c |-> c, x |-> IF n > 0 THEN c ELSE x = 1]

\* alu.c, shift.c: a shift by n, one bit at a time, is the multiplication, floor
\* division or rotation by n bits, with the carry the last bit out; ROXL and ROXR
\* rotate the number with X beside it; V is set by ASL alone, and exactly when a
\* step changed the sign; an immediate count of 0 is 8 and memory moves by 1.
ShiftsAgree ==
  Finished({"shift", "shift8", "shift1"}) =>
    LET sz == run.sz
        v == Trunc(Arg(1), sz)
        n == CASE run.name = "shift" -> Arg(2) [] run.name = "shift8" -> 8 [] OTHER -> 1
        dir == run.kind[1]
        type == run.kind[2]
        s == ShiftedTo(v, n, sz, dir, type, Arg(3))
        lost == \E k \in 1 .. n : k <= Bits(sz) /\
                  Signed(v, sz) * 2^k \notin -(Modulus(sz) \div 2) .. Modulus(sz) \div 2 - 1
    IN  /\ Trunc(cpu.d[0], sz) = s.val
        /\ Saved.c = s.c
        /\ Saved.x = s.x
        /\ Saved.v = (dir = "left" /\ type = "AS" /\ lost)
        /\ Saved.n = Negative(s.val, sz)
        /\ Saved.z = (s.val = 0)

\* alu.c: a quotient times the divisor, and the remainder in the high word added,
\* give the dividend again, with the remainder smaller than the divisor and of the
\* dividend's sign; a quotient that does not fit a word is told by V and changes nothing.
DivisionInverts ==
  Finished({"divide"}) =>
    LET signed == run.kind = "signed"
        Abs(n) == IF n < 0 THEN -n ELSE n
        a == IF signed THEN Signed(Arg(1), "l") ELSE Arg(1)
        b == IF signed THEN Signed(Arg(2), "w") ELSE Arg(2)
        rem == IF signed THEN Signed(cpu.d[2], "l") ELSE cpu.d[2]
        q == Abs(a) \div Abs(b)
        limit == IF ~signed THEN 4095 ELSE IF (a < 0) = (b < 0) THEN 2047 ELSE 2048
    IN  /\ cpu.d[0] = Arg(1)
        /\ IF q <= limit THEN Abs(rem) < Abs(b) /\ (rem = 0 \/ (rem < 0) = (a < 0)) /\ (a - rem) % Abs(b) = 0
                         ELSE rem = 0

\* alu.c: arithmetic that is done limb by limb, in binary or in decimal digits, and shifts
\* and divisions, which go bit by bit, are those of whole numbers, in their value and
\* in the condition codes they leave, which tell what is lost.
ExactArithmetic == WideArithmetic /\ DecimalArithmetic /\ ShiftsAgree /\ DivisionInverts

\* branch.c, addressing.c: a loop of MOVE.B (A)+,(A)+ and DBEQ copies up to the first
\* zero byte or until the counter has passed 0, moves both pointers by what it
\* copied (by words where the pointer is A7) and touches nothing behind.
CopiesStop ==
  Finished({"copy"}) =>
    LET step == Stride(run.kind)
        byte == [j \in 0 .. 3 |-> IF j < 3 THEN Arg(j + 1) ELSE 3 * step]
        stop == {j \in 0 .. 3 : byte[j] = 0 \/ j = Arg(4)}
        last == CHOOSE j \in stop : \A i \in stop : j <= i
    IN  /\ \A j \in 0 .. 3 : cpu.mem[24 + j] = IF j <= last THEN byte[j] ELSE 24 + j
        /\ cpu.a[1] = 25 + last
        /\ cpu.a[run.kind] = (last + 1) * step
        /\ cpu.d[0] = IF byte[last] = 0 THEN Arg(4) - last ELSE 4095

\* branch.c, move.c: routines called in any of five ways, recursively and with
\* frames of LINK, return to behind the call with A6 and A7 as they were and their
\* result; RTR gives back the condition codes saved at the entry and no more of the
\* SR; registers that MOVEM stored upwards are loaded again unchanged.
CallsReturn ==
  /\ Finished({"sum", "quiet", "save"}) => cpu.a[7] = RamTop + 1
  /\ Finished({"sum"}) => cpu.a[6] = 5 /\ 2 * cpu.d[1] = Arg(1) * (Arg(1) + 1)
  /\ Finished({"quiet"}) => Saved = Start(run, run.v).sr
  /\ Finished({"save"}) => <<cpu.d[0], cpu.d[1], cpu.a[0], cpu.a[2]>> = <<Arg(1), Arg(2), Arg(3), 20>>

\* branch.c: loops end where their condition or their counter says, and calls come back:
\* both leave pointers, stack and memory as the program means them to be.
ControlComesBack == CopiesStop /\ CallsReturn

\* codegen.c:10, "Callee saves D2-D7, A2-A6", which a compiled function does by
\* MOVEM.L D2-D7/A2-A5,-(SP) and MOVEM.L (SP)+,D2-D7/A2-A5.
CalleeSaves ==
  Finished({"push"}) => <<cpu.d[2], cpu.d[3], cpu.a[2], cpu.a[7]>> = <<Arg(1), Arg(2), Arg(3), RamTop + 1>>

SetBit(v, i, b) == v + (b - Bit(v, i)) * 2^i

\* bit.c, logic.c, system.c: a bit is set, cleared, flipped and tested alone, its
\* number taken modulo the width of the register or of the byte; TAS admits one of
\* two; AND, OR, EOR and NOT select bitwise in registers and in memory; the
\* immediate operations on the SR touch the bits that their word names, those on
\* the CCR the condition codes only.
BitsAlone ==
  /\ Finished({"bits"}) =>
       LET n == (IF run.kind[1] = "dyn" THEN Arg(2) ELSE 7) % Bits(run.sz)
           old == Trunc(Arg(1), run.sz)
       IN  /\ (IF run.sz = "l" THEN cpu.d[0] ELSE cpu.mem[20]) = SetBit(old, n, 0)
           /\ cpu.d[2] = 63 * Bit(old, n)
           /\ cpu.d[3] = 63
  /\ Finished({"lock"}) => cpu.mem[20] >= 32 /\ cpu.d[0] = (IF Arg(1) < 32 THEN 63 ELSE 0) /\ cpu.d[1] = 0
  /\ Finished({"select"}) =>
       \A i \in 0 .. 11 : Bit(cpu.d[0], i) = Bit(IF Bit(Arg(3), i) = 1 THEN Arg(1) ELSE Arg(2), i)
  /\ Finished({"status"}) =>
       LET old == Encode(Start(run, run.v).sr)
           named(i) == run.kind = "Sr" \/ i < 5
           Expected(i) == IF named(i) THEN (IF Bit(old, i) + Bit(849, i) > 0 THEN 1 - Bit(206, i) ELSE Bit(206, i))
                                             * Bit(923, i)
                                      ELSE Bit(old, i)
       IN  \A i \in 0 .. 11 : Bit(cpu.d[2], i) = Expected(i)

\* addressing.c: every mode that can name a cell names the same one, with an index
\* register taken as a signed word and displacements signed, for LEA, PEA and
\* operands alike; a jump table behind the PC is entered at its index; and adding,
\* swapping and decimal adding are undone by their inverses.
WaysAgree ==
  /\ Finished({"reach"}) /\ run.kind = "data" =>
       LET cell == 18 + Arg(1) + Signed(Arg(2), "w")
           val == Modulus("b") * cell + cell + 1
       IN  /\ \A r \in 1 .. 3 : cpu.d[r] = val
           /\ Trunc(cpu.d[0], "b") = 63
           /\ cpu.mem[42] = 0
  /\ Finished({"reach"}) /\ run.kind = "code" => cpu.d[1] = (0 :> 0 @@ 2 :> 2 @@ 4 :> 1)[Arg(1)]
  /\ Finished({"neutral"}) =>
       /\ cpu.d[0] = Arg(1) /\ cpu.a[0] = Arg(1) /\ cpu.d[2] = Arg(3)
       /\ cpu.d[1] = SignExtend(Arg(2), "b", "l")

\* bit.c, addressing.c: an instruction works on the bits, and on the cell, that its fields
\* name, in every form and mode that can name them, and on nothing beside them.
OperandsNamed == BitsAlone /\ WaysAgree

\* exceptions.c, system.c: a handler that returns by RTE leaves the interrupted
\* program with its registers, stack and SR (but for the N of CHK), whatever
\* trapped; in user mode a privileged instruction changes nothing, not even the PC
\* over its extension word, before its exception has saved the SR.
TrapsTransparent ==
  LET first == Start(run, run.v) IN
  /\ Finished({"trap"}) =>
       /\ [cpu.d EXCEPT ![3] = 0] = first.d
       /\ cpu.a = first.a
       /\ Decode(cpu.d[3]) = IF run.kind = "chk" THEN [first.sr EXCEPT !.n = Arg(1) = 4095] ELSE first.sr
  /\ Finished({"refused"}) =>
       /\ cpu.d = first.d /\ cpu.a = [first.a EXCEPT ![7] = RamTop - 5] /\ cpu.usp = first.a[7]
       /\ busReadWord(cpu, RamTop - 5) = Encode(first.sr)
       /\ busReadLong(cpu, RamTop - 3) = first.pc + 2
  /\ Finished({"launch"}) => cpu.usp = 20 /\ cpu.a[1] = 20 /\ cpu.d[2] = first.d[0]
=============================================================================
