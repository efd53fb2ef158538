------------------------------ MODULE AsmLine ------------------------------
(***************************************************************************)
(* The line of assembly that the parser builds, the encoder encodes and    *)
(* the disassembler prints (src/src/assembler/parser.h).                   *)
(*                                                                         *)
(* A number is a natural below 2^31; a symbol is a name or NoName; a       *)
(* register list is the set of its bits, 0-7 for D0-D7, 8-15 for A0-A7.    *)
(* Of the operand types, the parser makes neither d8(An,Xn), d8(PC,Xn),    *)
(* xxx.W nor xxx.L: they appear in listings only.                          *)
(***************************************************************************)
EXTENDS Integers, Sequences

NoName == ""

Operand(type, reg, imm, disp, sym, list) ==
  [type |-> type, reg |-> reg, imm |-> imm, disp |-> disp, sym |-> sym, list |-> list]

\* memset(op, 0), and the fields that the parser sets.
NoOperand == Operand("none", 0, 0, 0, NoName, {})
Of(type, reg) == Operand(type, reg, 0, 0, NoName, {})
Dn(r) == Of("Dn", r)
An(r) == Of("An", r)
Ind(r) == Of("(An)", r)
PostInc(r) == Of("(An)+", r)
PreDec(r) == Of("-(An)", r)
Special(name) == Of(name, 0)                              \* SR, CCR, USP
Disp(d, r) == Operand("d(An)", r, d, d, NoName, {})
PcDisp(d) == Operand("d(PC)", 0, 0, d, NoName, {})
Imm(n) == Operand("#", 0, n, 0, NoName, {})
Number(n) == Operand("expr", 0, n, 0, NoName, {})
AbsShort(n) == Operand("abs.W", 0, n, 0, NoName, {})
AbsLong(n) == Operand("abs.L", 0, n, 0, NoName, {})
Index(r, w) == Operand("d(An,Xn)", r, w, 0, NoName, {})       \* w is the brief word
PcIndex(w) == Operand("d(PC,Xn)", 0, w, 0, NoName, {})
List(set) == Operand("list", 0, 0, 0, NoName, set)
Symbol(s) == Operand("expr", 0, 0, 0, s, {})
ImmSymbol(s) == Operand("#", 0, 0, 0, s, {})
PcSymbol(s) == Operand("d(PC)", 0, 0, 0, s, {})
DispSymbol(s, r) == Operand("d(An)", r, 0, 0, s, {})

\* size is 0 (none given), 1, 2 or 4; data is what DC lists in numbers and strings.
Line(label, mnemonic, size, operands, data) ==
  [label |-> label, mnemonic |-> mnemonic, size |-> size, operands |-> operands, data |-> data]
Instr(mnemonic, size, operands) == Line(NoName, mnemonic, size, operands, <<>>)

Directives == {"ORG", "EQU", "SET", "DC", "DS", "MACRO", "ENDM", "INCLUDE", "INCBIN", "SECTION",
               "ALIGN", "EVEN", "END", "IF", "ELSE", "ENDIF", "REPT", "ENDR"}
IsDirective(line) == line.mnemonic \in Directives
=============================================================================
