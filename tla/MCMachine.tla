----------------------------- MODULE MCMachine -----------------------------
(* Machine on a small instance: one device that the host drives, and        *)
(* programs made of a few instructions of every kind, in both modes.        *)
EXTENDS Machine

\* Distinct handlers.
MCVectorTable == [v \in Vectors |-> 2048 + 4 * v]
MCDevice == {"uart"}
MCLevel == [uart |-> 4]
MCPeriod == [d \in {} |-> 1]
MCHostDriven == {"uart"}
MCReadyAtReset == {}

User == [t |-> FALSE, s |-> FALSE, ipl |-> 0]
UserTraced == [t |-> TRUE, s |-> FALSE, ipl |-> 0]
AllOpen == [t |-> FALSE, s |-> TRUE, ipl |-> 0]
AllMasked == [t |-> FALSE, s |-> TRUE, ipl |-> 7]

\* Even stacks, with frames of 6 and 14 bytes on them; odd ones, a step of a MOVEM.L apart;
\* and the ones that a read at an odd address loads into A7.
MCStacks == {78, 82, 98, 102, 106, 112, 118, 120, 122, 126, 117, 121, AddrSpace - 1}

\* The program, the handlers, and where a jump at an odd A7 leads: the ones that RTS has read,
\* and what RTR finds in the frame of the address error, a 0 that is the user's SR.
MCRoutines == {2048, 4097, 2060, 2080, 2084, 2092, 2144, 2160, 2176, AddrSpace - 1, 0}

MCInstr ==
  {[op |-> "moveToSr", arg |-> sr] : sr \in {User, UserTraced}} \cup
  {[op |-> "stop", arg |-> sr] : sr \in {AllOpen, AllMasked}} \cup
  {[op |-> "device", arg |-> "uart"]} \cup
  {[op |-> "trap", arg |-> 0]} \cup
  {[op |-> "rte", arg |-> 0], [op |-> "lea", arg |-> 121],
   [op |-> "push", arg |-> 7], [op |-> "srOdd", arg |-> 1],
   [op |-> "jsr", arg |-> 4097], [op |-> "rts", arg |-> 0], [op |-> "rtr", arg |-> 0],
   [op |-> "movea", arg |-> 113], [op |-> "movemDown", arg |-> 7],
   [op |-> "unlk", arg |-> 121]}
=============================================================================
