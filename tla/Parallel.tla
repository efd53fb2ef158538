------------------------------ MODULE Parallel ------------------------------
(***************************************************************************)
(* The parallel port (src/src/devices/parallel.c): two ports of bits, each *)
(* driven by the program or by the host as the port's direction says, and  *)
(* a status bit for each that the host sets with every input.              *)
(***************************************************************************)
CONSTANT PortBit          \* the bits of a port
Port == {"A", "B"}

VARIABLES
  portData, portDir, portInput,      \* of each port: sets of bits
  parIrq,                            \* bit 1 of ctrl
  parStatus                          \* the ports with new input

parVars == <<portData, portDir, portInput, parIrq, parStatus>>

ParallelInit ==
  /\ portData = [p \in Port |-> {}] /\ portDir = [p \in Port |-> {}]
  /\ portInput = [p \in Port |-> {}] /\ parIrq = FALSE /\ parStatus = {}

parReset ==
  /\ portData' = [p \in Port |-> {}] /\ portDir' = [p \in Port |-> {}]
  /\ portInput' = [p \in Port |-> {}] /\ parIrq' = FALSE /\ parStatus' = {}

\* parReadByte of a port, and what the port puts out.
ReadPort(p) == (portData[p] \cap portDir[p]) \cup (portInput[p] \ portDir[p])
Out(p) == portData[p] \cap portDir[p]

\* parWriteByte; parWriteWord makes two of these.
WritePort(p, bits) ==
  /\ portData' = [portData EXCEPT ![p] = bits]
  /\ UNCHANGED <<portDir, portInput, parIrq, parStatus>>
WriteDir(p, bits) ==
  /\ portDir' = [portDir EXCEPT ![p] = bits]
  /\ UNCHANGED <<portData, portInput, parIrq, parStatus>>
WriteParCtrl(irq) ==
  parIrq' = irq /\ UNCHANGED <<portData, portDir, portInput, parStatus>>
WriteParStatus(ports) ==
  /\ parStatus' = parStatus \ ports
  /\ UNCHANGED <<portData, portDir, portInput, parIrq>>

\* parallelSetInputA and parallelSetInputB
parallelSetInput(p, bits) ==
  /\ portInput' = [portInput EXCEPT ![p] = bits]
  /\ parStatus' = parStatus \cup {p}
  /\ UNCHANGED <<portData, portDir, parIrq>>

\* parGetIRQ
ParInterrupts == parIrq /\ parStatus # {}

ParallelNext ==
  \/ (\E p \in Port, bits \in SUBSET PortBit :
        WritePort(p, bits) \/ WriteDir(p, bits) \/ parallelSetInput(p, bits))
  \/ (\E irq \in BOOLEAN : WriteParCtrl(irq))
  \/ (\E ports \in SUBSET Port : WriteParStatus(ports))
  \/ parReset
=============================================================================
