------------------------------ MODULE Channel ------------------------------
(***************************************************************************)
(* What one direction of the uart promises: a queue of characters that are *)
(* delivered in order and once each.  It never refuses a character; when   *)
(* as many as the ring has slots have come in unread, it forgets all of    *)
(* them, and never only some.                                              *)
(***************************************************************************)
EXTENDS Integers, Sequences

CONSTANTS
  Slots,
  Bursts      \* the sequences of characters that come in at once

VARIABLES
  queue,      \* what has come in and was not delivered
  delivered   \* what the last operation delivered

cvars == <<queue, delivered>>

\* The newest characters, after losses of Slots at a time.
Kept(s) == SubSeq(s, Len(s) - (Len(s) % Slots) + 1, Len(s))

ChannelInit == queue = <<>> /\ delivered = <<>>

ComeIn == \E s \in Bursts : queue' = Kept(queue \o s) /\ delivered' = <<>>

Deliver == \E n \in 0 .. Len(queue) :
             /\ delivered' = SubSeq(queue, 1, n)
             /\ queue' = SubSeq(queue, n + 1, Len(queue))

Clear == queue' = <<>> /\ delivered' = <<>>

ChannelNext == ComeIn \/ Deliver \/ Clear
ChannelSpec == ChannelInit /\ [][ChannelNext]_cvars
=============================================================================
