------------------------------ MODULE Toolchain ------------------------------
(***************************************************************************)
(* The assembler, the disassembler and the CPU's decoder on the same code. *)
(* disasmRange lists what the assembler has put out, or a file: Images,    *)
(* sequences of words.                                                     *)
(***************************************************************************)
EXTENDS Assembler, Disassembler

CONSTANT Images

VARIABLE offset                         \* of disasmRange, in output
toolVars == <<vars, offset>>

\* The words at an offset; behind the last one is whatever memory holds, here 0.
CodeAt(start) ==
  LET ByteAt(i) == IF start + i <= Len(output) THEN output[start + i] ELSE 0
  IN  [k \in 1 .. 5 |-> 256 * ByteAt(2 * k - 1) + ByteAt(2 * k)]

ToolInit ==
  \/ Init /\ offset = 0
  \/ \E words \in Images :
       /\ text = <<>> /\ origin = 4096 /\ pass = 2 /\ at = 1 /\ pc = origin
       /\ symbols = [name \in {} |-> 0] /\ emitted = <<>>
       /\ output = BytesOf(words) /\ offset = 0

Assemble == Next /\ UNCHANGED offset

Listed == disasmInstruction(CodeAt(offset), origin + offset)

\* disasmRange: one instruction, and on by the bytes it takes.
ListNext ==
  /\ Assembled /\ offset < Len(output)
  /\ offset' = offset + 2 * Listed.words
  /\ UNCHANGED vars

ToolNext == Assemble \/ ListNext
ToolSpec == ToolInit /\ [][ToolNext]_toolVars

=============================================================================
