------------------------------ MODULE Network ------------------------------
(***************************************************************************)
(* The network controller (src/src/devices/network.c) between the program, *)
(* which starts a transmission from memory, and the host, which pulls the  *)
(* frame some time later and injects frames into memory at any time.  The  *)
(* same address register serves both directions.                           *)
(***************************************************************************)
EXTENDS Bus, Sequences
LOCAL INSTANCE SequencesExt

CONSTANTS
  MaxFrame,       \* NET_MAX_FRAME
  FrameByte       \* bound: the bytes frames are made of

ASSUME NetworkAssumption == MaxFrame \in Nat \ {0} /\ FrameByte \subseteq Octet

VARIABLES
  netIrq,         \* bit 1 of ctrl
  netStatus,      \* "received", "done"
  rxLen, txLen, netDma,
  txBuf,
  sent            \* history: what the program sent and the host has not had

netVars == <<netIrq, netStatus, rxLen, txLen, netDma, txBuf, sent>>
netAll == <<busVars, netVars>>

\* Lengths: those of frames and one too long.
Lengths == 0 .. MaxFrame + 1

NetworkInit ==
  /\ BusInit
  /\ netIrq = FALSE /\ netStatus = {} /\ rxLen = 0 /\ txLen = 0 /\ netDma = 0
  /\ txBuf = [i \in 1 .. MaxFrame |-> 0] /\ sent = <<>>

\* netReset as busReset calls it: the buffer keeps its bytes.
netReset ==
  /\ Becomes(Cleared)
  /\ netIrq' = FALSE /\ netStatus' = {} /\ rxLen' = 0 /\ txLen' = 0 /\ netDma' = 0
  /\ sent' = <<>> /\ UNCHANGED txBuf

\* netWriteWord of CTRL.  A frame that is too long is not sent and nothing says so.
InMemory(n) == [i \in 1 .. n |-> busReadByte(Mem, netDma + i - 1)]
WriteNetCtrl(irq, start) ==
  /\ netIrq' = irq
  /\ IF start /\ txLen <= MaxFrame
       THEN /\ txBuf' = InMemory(txLen) \o SubSeq(txBuf, txLen + 1, MaxFrame)
            /\ sent' = InMemory(txLen)
            /\ netStatus' = netStatus \cup {"done"}
       ELSE UNCHANGED <<txBuf, sent, netStatus>>
  /\ UNCHANGED <<busVars, rxLen, txLen, netDma>>

\* STATUS: each 1 written clears its bit.
WriteNetStatus(bits) ==
  /\ netStatus' = netStatus \ bits
  /\ sent' = IF "done" \in bits THEN <<>> ELSE sent
  /\ UNCHANGED <<busVars, netIrq, rxLen, txLen, netDma, txBuf>>

WriteTxLen(n) ==
  txLen' = n /\ UNCHANGED <<busVars, netIrq, netStatus, rxLen, netDma, txBuf, sent>>
WriteNetDma(w) ==
  /\ netDma' \in {Pair * w + (netDma % Pair), Pair * (netDma \div Pair) + w}
  /\ UNCHANGED <<busVars, netIrq, netStatus, rxLen, txLen, txBuf, sent>>

\* The program fills the buffer it has told the controller of.
FillBuffer(i, v) == Becomes(busWriteByte(Mem, netDma + i, v)) /\ UNCHANGED netVars

networkInjectFrame(frame) ==
  /\ Len(frame) <= MaxFrame
  /\ rxLen' = Len(frame)
  /\ Becomes(FoldLeft(LAMBDA mem, i : busWriteByte(mem, netDma + i - 1, frame[i]),
                      Mem, [i \in 1 .. Len(frame) |-> i]))
  /\ netStatus' = netStatus \cup {"received"}
  /\ UNCHANGED <<netIrq, txLen, netDma, txBuf, sent>>

\* What the host is given: as many bytes as the length register says now.
PulledFromMemory(max) == InMemory(IF txLen <= max THEN txLen ELSE max)    \* a mutant
Pulled(max) == SubSeq(txBuf, 1, IF txLen <= max THEN txLen ELSE max)
networkPullFrame ==
  /\ "done" \in netStatus
  /\ netStatus' = netStatus \ {"done"} /\ sent' = <<>>
  /\ UNCHANGED <<busVars, netIrq, rxLen, txLen, netDma, txBuf>>

Frames == UNION {[1 .. n -> FrameByte] : n \in Lengths}
NetworkNext ==
  \/ (\E irq, start \in BOOLEAN : WriteNetCtrl(irq, start))
  \/ (\E bits \in SUBSET {"received", "done"} : WriteNetStatus(bits))
  \/ (\E n \in Lengths : WriteTxLen(n))
  \/ (\E w \in DmaWords : WriteNetDma(w))
  \/ (\E i \in 0 .. MaxFrame - 1, v \in FrameByte : FillBuffer(i, v))
  \/ (\E frame \in Frames : networkInjectFrame(frame))
  \/ networkPullFrame \/ netReset

NetworkSpec == NetworkInit /\ [][NetworkNext]_netAll

----------------------------------------------------------------------------
(* The host is given the frame as memory held it when it was sent (cut to the *)
(* room the host has), whatever has been written to the buffer, received into *)
(* it or changed in the address since, as long as the length register is the  *)
(* one it was sent with: that one is read at the pull.                        *)
FrameAsSent ==
  "done" \in netStatus /\ txLen = Len(sent) =>
    \A max \in 0 .. MaxFrame :
      Pulled(max) = SubSeq(sent, 1, IF Len(sent) <= max THEN Len(sent) ELSE max)
=============================================================================
