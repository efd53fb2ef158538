------------------------------ MODULE Decoder ------------------------------
(***************************************************************************)
(* The opcode table (src/src/cpu/opcodes.c, decoder.c and the functions    *)
(* opcodesRegister... of the handlers' files).  An opcode word is its five *)
(* fields, as the tables of the source build it:                           *)
(*                                                                         *)
(*     line 15-12    x 11-9    o 8-6    m 5-3    r 2-0                     *)
(*                                                                         *)
(* Each registration writes one handler into many entries, over whatever   *)
(* an earlier one has written there; so an entry holds the last handler    *)
(* registered for it, and a handler may be left with none.                 *)
(***************************************************************************)
EXTENDS Integers, Sequences
LOCAL INSTANCE Functions

Opcodes == [line : 0 .. 15, x : 0 .. 7, o : 0 .. 7, m : 0 .. 7, r : 0 .. 7]

Fields(w) == [line |-> w \div 4096, x |-> (w \div 512) % 8, o |-> (w \div 64) % 8,
              m |-> (w \div 8) % 8, r |-> w % 8]
WordOf(op) == 4096 * op.line + 512 * op.x + 64 * op.o + 8 * op.m + op.r
LowByte(op) == WordOf(op) % 256

\* The four EA modes below mode 7, and mode 7's registers.
Indirect(op) == op.m \in {2, 5, 6}
Absolute(op) == op.m = 7 /\ op.r \in {0, 1}
PcRelative(op) == op.m = 7 /\ op.r \in {2, 3}

\* Size field: opmodes 0-2 are to the register, 4-6 from it; 3 and 7 are others'.
Sized == {0, 1, 2}
Upward == {4, 5, 6}
Third == {3, 7}

----------------------------------------------------------------------------
(* Registrations: what a function writes into the entry of op, in order. *)

Write(entry, handler) == IF entry THEN <<handler>> ELSE <<>>

opcodesRegisterMove(op) ==
  LET misc == op.line = 4 IN
     Write(op.line = 7 /\ op.o < 4, "instrMoveq")
  \o Write(op.line \in {2, 3} /\ op.o = 1, "instrMovea")
  \o Write(op.line \in {1, 2, 3} /\ op.o # 1, "instrMove")
  \o Write(misc /\ op.o = 7 /\ op.m >= 2, "instrLea")
  \o Write(misc /\ op.x = 4 /\ op.o = 1 /\ op.m >= 2, "instrPea")
  \o Write(misc /\ op.x = 4 /\ op.o = 1 /\ op.m = 0, "instrSwap")
  \o Write(op.line = 12 /\ <<op.o, op.m>> \in {<<5, 0>>, <<5, 1>>, <<6, 1>>}, "instrExg")
  \o Write(misc /\ op.x = 7 /\ op.o = 1 /\ op.m = 2, "instrLink")
  \o Write(misc /\ op.x = 7 /\ op.o = 1 /\ op.m = 3, "instrUnlk")
  \o Write(misc /\ op.x = 4 /\ op.o \in {2, 3} /\ (op.m = 4 \/ Indirect(op) \/ Absolute(op)),
           "instrMovemRegToMem")
  \o Write(misc /\ op.x = 6 /\ op.o \in {2, 3}
             /\ (op.m = 3 \/ Indirect(op) \/ Absolute(op) \/ PcRelative(op)),
           "instrMovemMemToReg")
  \o Write(op.line = 0 /\ op.o >= 4 /\ op.m = 1, "instrMovep")

\* A line-0 or line-4 family told apart by x, of three sizes.
Family(op, line, x) == op.line = line /\ op.x = x /\ op.o \in Sized

opcodesRegisterArithmetic(op) ==
     Write(op.line = 13 /\ op.o \notin Third, "instrAdd")
  \o Write(op.line = 13 /\ op.o \in Third, "instrAdda")
  \o Write(op.line = 9 /\ op.o \notin Third, "instrSub")
  \o Write(op.line = 9 /\ op.o \in Third, "instrSuba")
  \o Write(Family(op, 0, 3), "instrAddi")
  \o Write(Family(op, 0, 2), "instrSubi")
  \o Write(op.line = 5 /\ op.o \in Sized, "instrAddq")
  \o Write(op.line = 5 /\ op.o \in Upward, "instrSubq")
  \o Write(op.line = 12 /\ op.o = 3, "instrMulu")
  \o Write(op.line = 12 /\ op.o = 7, "instrMuls")
  \o Write(op.line = 8 /\ op.o = 3, "instrDivu")
  \o Write(op.line = 8 /\ op.o = 7, "instrDivs")
  \o Write(Family(op, 4, 2), "instrNeg")
  \o Write(Family(op, 4, 0), "instrNegx")
  \o Write(Family(op, 4, 1), "instrClr")
  \o Write(op.line = 11 /\ op.o \in Sized, "instrCmp")
  \o Write(op.line = 11 /\ op.o \in Third, "instrCmpa")
  \o Write(Family(op, 0, 6), "instrCmpi")
  \o Write(op.line = 11 /\ op.o \in Upward /\ op.m = 1, "instrCmpm")
  \o Write(op.line = 4 /\ op.x = 4 /\ op.o \in {2, 3} /\ op.m = 0, "instrExt")
  \o Write(Family(op, 4, 5), "instrTst")
  \o Write(op.line = 13 /\ op.o \in Upward /\ op.m \in {0, 1}, "instrAddx")
  \o Write(op.line = 9 /\ op.o \in Upward /\ op.m \in {0, 1}, "instrSubx")

\* The entries that ANDI, ORI and EORI have for the status register.
StatusEntry(op, x, o) == op.line = 0 /\ op.x = x /\ op.o = o /\ op.m = 7 /\ op.r = 4

opcodesRegisterLogic(op) ==
     Write(op.line = 12 /\ op.o \notin Third, "instrAnd")
  \o Write(op.line = 8 /\ op.o \notin Third, "instrOr")
  \o Write(op.line = 11 /\ op.o \in Upward, "instrEor")
  \o Write(Family(op, 0, 1), "instrAndi")
  \o Write(Family(op, 0, 0), "instrOri")
  \o Write(Family(op, 0, 5), "instrEori")
  \o Write(Family(op, 4, 3), "instrNot")
  \o Write(StatusEntry(op, 1, 0), "instrAndiCcr") \o Write(StatusEntry(op, 1, 1), "instrAndiSr")
  \o Write(StatusEntry(op, 0, 0), "instrOriCcr") \o Write(StatusEntry(op, 0, 1), "instrOriSr")
  \o Write(StatusEntry(op, 5, 0), "instrEoriCcr") \o Write(StatusEntry(op, 5, 1), "instrEoriSr")

opcodesRegisterShift(op) ==
     Write(op.line = 14 /\ op.o \notin Third, "shiftRegister")
  \o Write(op.line = 14 /\ op.x < 4 /\ op.o \in Third /\ op.m >= 2, "shiftMemory")

\* Control words $4E70 to $4E77.
Control(op, r) == op.line = 4 /\ op.x = 7 /\ op.o = 1 /\ op.m = 6 /\ op.r = r

opcodesRegisterBranch(op) ==
     Write(op.line = 6, "instrBcc")
  \o Write(op.line = 5 /\ op.o \in Third /\ op.m = 1, "instrDbcc")
  \o Write(op.line = 5 /\ op.o \in Third /\ op.m # 1, "instrScc")
  \o Write(op.line = 4 /\ op.x = 7 /\ op.o = 3 /\ op.m >= 2, "instrJmp")
  \o Write(op.line = 4 /\ op.x = 7 /\ op.o = 2 /\ op.m >= 2, "instrJsr")
  \o Write(Control(op, 5), "instrRts") \o Write(Control(op, 3), "instrRte")
  \o Write(Control(op, 7), "instrRtr")

opcodesRegisterBcd(op) ==
     Write(op.line = 12 /\ op.o = 4 /\ op.m \in {0, 1}, "instrAbcd")
  \o Write(op.line = 8 /\ op.o = 4 /\ op.m \in {0, 1}, "instrSbcd")
  \o Write(op.line = 4 /\ op.x = 4 /\ op.o = 0, "instrNbcd")

opcodesRegisterSystem(op) ==
  LET misc == op.line = 4 IN
     Write(Control(op, 1), "instrNop") \o Write(Control(op, 0), "instrReset")
  \o Write(Control(op, 2), "instrStop")
  \o Write(misc /\ op.x = 5 /\ op.o = 3 /\ op.m = 7 /\ op.r = 4, "instrIllegal")
  \o Write(misc /\ op.x = 7 /\ op.o = 1 /\ op.m \in {0, 1}, "instrTrap")
  \o Write(Control(op, 6), "instrTrapv")
  \o Write(misc /\ op.o = 6, "instrChk")
  \o Write(misc /\ op.x = 0 /\ op.o = 3, "instrMoveFromSr")
  \o Write(misc /\ op.x = 3 /\ op.o = 3, "instrMoveToSr")
  \o Write(misc /\ op.x = 2 /\ op.o = 3, "instrMoveToCcr")
  \o Write(misc /\ op.x = 7 /\ op.o = 1 /\ op.m \in {4, 5}, "instrMoveUsp")
  \o Write(misc /\ op.x = 5 /\ op.o = 3, "instrTas")

BitStatic == <<"instrBtstStatic", "instrBchgStatic", "instrBclrStatic", "instrBsetStatic">>
BitDynamic == <<"instrBtstDyn", "instrBchgDyn", "instrBclrDyn", "instrBsetDyn">>

opcodesRegisterBit(op) ==
     Write(op.line = 0 /\ op.o >= 4, BitDynamic[op.o - 3])
  \o Write(op.line = 0 /\ op.x = 4 /\ op.o < 4, BitStatic[op.o + 1])

\* decoderInit: every entry is illegal, or of line A or F, before anything registers.
Unregistered(op) ==
  CASE op.line = 10 -> "handleLineA" [] op.line = 15 -> "handleLineF" [] OTHER -> "handleIllegal"

opcodesRegisterAll(op) ==
  <<Unregistered(op)>>
    \o opcodesRegisterMove(op) \o opcodesRegisterArithmetic(op) \o opcodesRegisterLogic(op)
    \o opcodesRegisterShift(op) \o opcodesRegisterBranch(op)
    \o opcodesRegisterBcd(op) \o opcodesRegisterSystem(op) \o opcodesRegisterBit(op)

Handler(op) == LET writes == opcodesRegisterAll(op) IN writes[Len(writes)]

----------------------------------------------------------------------------
(* Extension words: how many words a handler fetches behind its opcode.    *)

\* addrCalcEA, by mode and size; an immediate byte takes a word.
EaWords(m, r, sz) ==
  CASE m \in {5, 6} \/ (m = 7 /\ r \in {0, 2, 3}) -> 1
    [] m = 7 /\ r = 1 -> 2
    [] m = 7 /\ r = 4 -> IF sz = "l" THEN 2 ELSE 1
    [] OTHER -> 0

ImmediateWords(sz) == IF sz = "l" THEN 2 ELSE 1

SizeNames == <<"b", "w", "l">>
SizeField(op) == SizeNames[(op.o % 4) + 1]
AddressSize(op) == IF op.o = 7 THEN "l" ELSE "w"
MoveSize(op) == <<"b", "l", "w">>[op.line]

Plain == {"instrMoveq", "instrSwap", "instrExg", "instrUnlk", "instrExt", "instrAddx", "instrSubx",
          "instrCmpm", "instrAbcd", "instrSbcd", "shiftRegister", "instrRts", "instrRte", "instrRtr",
          "instrNop", "instrReset", "instrTrap", "instrTrapv", "instrIllegal", "instrMoveUsp",
          "handleIllegal", "handleLineA", "handleLineF"}
OneWord == {"instrLink", "instrDbcc", "instrStop", "instrMovep", "instrAndiCcr", "instrAndiSr",
            "instrOriCcr", "instrOriSr", "instrEoriCcr", "instrEoriSr"}
WithImmediate == {"instrAddi", "instrSubi", "instrCmpi", "instrAndi", "instrOri", "instrEori"}
WordSized == {"instrMulu", "instrMuls", "instrDivu", "instrDivs", "instrChk", "instrMoveFromSr",
              "instrMoveToSr", "instrMoveToCcr", "shiftMemory"}
ByteSized == {"instrNbcd", "instrTas", "instrScc"} \cup Range(BitDynamic)

\* instrBcc: a displacement byte of zero says that a word follows.
BranchWords(op) == IF LowByte(op) = 0 THEN 1 ELSE 0

Fetched(h, op) ==
  CASE h \in Plain -> 0
    [] h \in OneWord -> 1
    [] h = "instrBcc" -> BranchWords(op)
    [] h \in {"instrMove", "instrMovea"} ->
         EaWords(op.m, op.r, MoveSize(op)) + EaWords(op.o, op.x, MoveSize(op))
    [] h \in WithImmediate -> ImmediateWords(SizeField(op)) + EaWords(op.m, op.r, SizeField(op))
    [] h \in Range(BitStatic) -> 1 + EaWords(op.m, op.r, "b")
    [] h \in {"instrMovemRegToMem", "instrMovemMemToReg"} -> 1 + EaWords(op.m, op.r, "w")
    [] h \in {"instrAdda", "instrSuba", "instrCmpa"} -> EaWords(op.m, op.r, AddressSize(op))
    [] h \in {"instrLea", "instrPea", "instrJmp", "instrJsr"} -> EaWords(op.m, op.r, "l")
    [] h \in WordSized -> EaWords(op.m, op.r, "w")
    [] h \in ByteSized -> EaWords(op.m, op.r, "b")
    [] OTHER -> EaWords(op.m, op.r, SizeField(op))
=============================================================================
