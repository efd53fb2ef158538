-------------------------------- MODULE Keys --------------------------------
(***************************************************************************)
(* Keys on their way to the program: the host sets port A and the kernel's *)
(* keyboard handler (level 3) puts the key into a ring, which the uart     *)
(* handler (level 4) fills too and may do so in the middle of the other;   *)
(* key_poll takes keys out (src/os/kernel.s).  Neither handler looks at    *)
(* the tail.  What other handlers interrupt does not touch the ring, and   *)
(* the uart handler itself is one step: nothing that interrupts it does.   *)
(*                                                                         *)
(* Both handlers save D0-D1/A0 by MOVEM to -(A7) and restore them by MOVEM *)
(* from (A7)+, which on this CPU brings D1 back but exchanges D0 and A0 of *)
(* what they interrupt (cpu/instructions/move.c:115-135, 178-193).  The    *)
(* other handlers save D0 alone.                                           *)
(***************************************************************************)
EXTENDS Parallel, Integers, Sequences, FiniteSets

CONSTANTS
  KeySlots,               \* KEYBUF_MASK + 1
  SYS_KEYBUF              \* the bits of this address, which are no key
Key == SUBSET PortBit     \* {} is 0, no key
ASSUME KeysAssumption == KeySlots \in Nat \ {0} /\ SYS_KEYBUF \notin Key

VARIABLES
  keyBuf, keyHead, keyTail,
  handler,        \* isr_keyboard: the instruction that is next, D0, A0 and D1
  polling,        \* key_poll: "no"; to "look" whether the head it has read is the
                  \* tail, or "turned" to, with D0 exchanged; "found" a key; "taken" it
  ahead,          \* whether that head is not the tail, which only key_poll moves
  queue,          \* history: the keys that key_poll is still owed
  survivor,       \* history: what the slot of the keyboard's key holds
  raced,          \* history: keys of the uart since the keyboard read the head
  fresh,          \* history: whether the host's last key has been read
  astray          \* history: an exchanged register has done its damage

ringVars == <<keyBuf, keyHead, keyTail, queue, survivor, raced>>
pollVars == <<polling, ahead>>
keyVars == <<ringVars, pollVars, handler, fresh, astray>>
keysAll == <<parVars, keyVars>>

Idle == [at |-> "idle", d0 |-> {}, a0 |-> {}, d1 |-> 0]
NextSlot(i) == (i + 1) % KeySlots
Owed(q, k) == IF Len(q) = KeySlots THEN <<k>> ELSE Append(q, k)

\* After machineReset and input_init.
KeysInit ==
  /\ portData = [p \in Port |-> {}] /\ portDir = [p \in Port |-> {}]
  /\ portInput = [p \in Port |-> {}] /\ parIrq = TRUE /\ parStatus = {}
  /\ keyBuf = [i \in 0 .. KeySlots - 1 |-> {}] /\ keyHead = 0 /\ keyTail = 0
  /\ handler = Idle /\ polling = "no" /\ ahead = FALSE
  /\ queue = <<>> /\ survivor = {} /\ raced = 0 /\ fresh = "read" /\ astray = FALSE

\* The host sets a port; a key set after the handler has read the port and
\* before it clears the status is cut off.
HostSets(p, key) ==
  /\ parallelSetInput(p, key)
  /\ fresh' = IF p # "A" THEN fresh ELSE IF handler.at = "clear" THEN "cut" ELSE "set"
  /\ UNCHANGED <<ringVars, pollVars, handler, astray>>

----------------------------------------------------------------------------
(* isr_keyboard, one action for each access to what is shared, or to D0 and A0 *)

At(label) == handler.at = label

\* key_poll is interrupted by a handler that gives it back D0 and A0 exchanged;
\* D0 holds what is needed only while the head is in it.
PollExchanged ==
  polling' = IF polling = "look" THEN "turned" ELSE IF polling = "turned" THEN "look" ELSE polling

KbEnter ==
  /\ At("idle") /\ ParInterrupts
  /\ handler' = [handler EXCEPT !.at = "read"]
  /\ UNCHANGED <<parVars, ringVars, pollVars, fresh, astray>>

\* A0 is still the one of the program that was interrupted.
KbRead ==
  /\ At("read")
  /\ \E a0 \in Key : handler' = [at |-> "clear", d0 |-> ReadPort("A"), a0 |-> a0, d1 |-> 0]
  /\ fresh' = "read"
  /\ UNCHANGED <<parVars, ringVars, pollVars, astray>>

\* TST.B and the branch follow at once (an exchange between would do what one
\* before does): no key ends the handler.
KbClear ==
  /\ At("clear")
  /\ WriteParStatus(Port)
  /\ handler' = IF handler.d0 = {} THEN [Idle EXCEPT !.at = "done"]
                ELSE [handler EXCEPT !.at = "aim"]
  /\ UNCHANGED <<ringVars, pollVars, fresh, astray>>

\* LEA: what an exchange has put into A0, the key, is gone.
KbAim ==
  /\ At("aim")
  /\ handler' = [handler EXCEPT !.at = "head", !.a0 = SYS_KEYBUF]
  /\ UNCHANGED <<parVars, ringVars, pollVars, fresh, astray>>

KbHead ==
  /\ At("head")
  /\ handler' = [handler EXCEPT !.at = "slot", !.d1 = keyHead]
  /\ UNCHANGED <<parVars, ringVars, pollVars, fresh, astray>>

SlotAtHead ==                          \* a mutant of the next: it reads the head again
  /\ At("slot")
  /\ handler.a0 = SYS_KEYBUF
  /\ keyBuf' = [keyBuf EXCEPT ![keyHead] = handler.d0]
  /\ survivor' = handler.d0
  /\ handler' = [Idle EXCEPT !.at = "store", !.d1 = handler.d1]
  /\ UNCHANGED <<parVars, keyHead, keyTail, queue, raced, pollVars, fresh, astray>>

\* With the key for an address the byte goes to some other place in memory.
KbSlot ==
  /\ At("slot")
  /\ IF handler.a0 = SYS_KEYBUF
       THEN /\ keyBuf' = [keyBuf EXCEPT ![handler.d1] = handler.d0]
            /\ survivor' = handler.d0
            /\ UNCHANGED astray
       ELSE astray' = TRUE /\ UNCHANGED <<keyBuf, survivor>>
  /\ handler' = [Idle EXCEPT !.at = "store", !.d1 = handler.d1]
  /\ UNCHANGED <<parVars, keyHead, keyTail, queue, raced, pollVars, fresh>>

\* The head is the one that was read: it takes back what the uart's handler
\* did to it meanwhile, and the one key in its slot is all that is kept.
KbStore ==
  /\ At("store")
  /\ keyHead' = NextSlot(handler.d1)
  /\ handler' = [Idle EXCEPT !.at = "done"]
  /\ queue' = Owed(queue, survivor) /\ survivor' = {} /\ raced' = 0
  /\ UNCHANGED <<parVars, keyBuf, keyTail, pollVars, fresh, astray>>

KbReturn ==
  /\ At("done")
  /\ handler' = Idle
  /\ PollExchanged
  /\ UNCHANGED <<parVars, ringVars, ahead, fresh, astray>>

----------------------------------------------------------------------------
(* isr_uart                                                                *)

\* What it interrupts goes on with D0 and A0 exchanged.
Exchanged ==
  IF At("idle")
    THEN PollExchanged /\ UNCHANGED handler
    ELSE /\ handler' = [at |-> handler.at, d0 |-> handler.a0, a0 |-> handler.d0, d1 |-> handler.d1]
         /\ UNCHANGED polling

UartNothing == Exchanged /\ UNCHANGED <<parVars, ringVars, ahead, fresh, astray>>

\* With what it has read from DATA, which may be 0.
InWindow == handler.at \in {"slot", "store"}
\* Bound: in one window come no more keys than the ring has room for; what would
\* be left of the unread ones after that is not modelled.
Room == KeySlots - (Len(queue) % KeySlots)
UartKey(ch) ==
  /\ InWindow => raced < Room
  /\ keyBuf' = [keyBuf EXCEPT ![keyHead] = ch]
  /\ keyHead' = NextSlot(keyHead)
  /\ IF InWindow
       THEN /\ raced' = raced + 1
            /\ survivor' = IF raced = 0 THEN ch ELSE survivor
            /\ UNCHANGED queue
       ELSE queue' = Owed(queue, ch) /\ UNCHANGED <<survivor, raced>>
  /\ Exchanged
  /\ UNCHANGED <<parVars, keyTail, ahead, fresh, astray>>

----------------------------------------------------------------------------
(* key_poll, which the program calls with no handler running               *)

Polling(step) == At("idle") /\ polling = step
PollHead ==
  /\ Polling("no") /\ polling' = "look"
  /\ ahead' = (keyHead # keyTail)
  /\ UNCHANGED <<parVars, ringVars, handler, fresh, astray>>

\* An exchanged D0 is compared as well; with no key to take it goes astray: the
\* tail will pass the head, and all the slots will be read once more.
PollLook ==
  \E found \in BOOLEAN :
    /\ Polling("turned") \/ (Polling("look") /\ found = ahead)
    /\ polling' = IF found THEN "found" ELSE "no"
    /\ astray' = (polling = "turned" /\ found /\ queue = <<>>)
    /\ ahead' = FALSE
    /\ UNCHANGED <<parVars, ringVars, handler, fresh>>

\* It takes the key that the tail is at by now, and moves the tail on.
Polled == keyBuf[keyTail]
PollRead ==
  /\ Polling("found") /\ polling' = "taken"
  /\ UNCHANGED <<parVars, ringVars, ahead, handler, fresh, astray>>
PollStore ==
  /\ Polling("taken") /\ polling' = "no"
  /\ keyTail' = NextSlot(keyTail)
  /\ queue' = Tail(queue)
  /\ UNCHANGED <<parVars, keyBuf, keyHead, survivor, raced, ahead, handler, fresh, astray>>

KbStep == KbEnter \/ KbRead \/ KbClear \/ KbAim \/ KbHead \/ KbSlot \/ KbStore \/ KbReturn
PollStep == PollHead \/ PollLook \/ PollRead \/ PollStore

\* What the program does once it has gone astray is not modelled.
KeysNext ==
  \/ (\E key \in Key : HostSets("A", key)) \/ HostSets("B", {})
  \/ ~astray /\ (KbStep \/ PollStep)
  \/ ~astray /\ (UartNothing \/ \E ch \in Key : UartKey(ch))

KeysSpec == KeysInit /\ [][KeysNext]_keysAll

----------------------------------------------------------------------------
(* While the keyboard's handler does not hold the head, the ring holds the    *)
(* bytes the handlers have brought, in their order: all of them but those of  *)
(* the uart that came while it did (one of all these is kept), and, when the  *)
(* ring is full, it looks empty.  The slot that a poll which has found a key  *)
(* goes to is the oldest, also when keys have come in since it looked; before *)
(* it moves the tail there is always one to take away (another, if a whole    *)
(* turn of the ring has come in meanwhile).  All this until an odd number of  *)
(* exchanges of D0 and A0 has made the keyboard's handler store to another    *)
(* place, or a poll find a key in an empty ring; an odd number before the     *)
(* handler's LEA makes the byte it brings another than the key it has read.   *)
Unread == [i \in 1 .. (keyHead - keyTail) % KeySlots |-> keyBuf[(keyTail + i - 1) % KeySlots]]
KeysStored ==
  ~astray /\ ~InWindow =>
    /\ Unread = IF Len(queue) = KeySlots THEN <<>> ELSE queue
    /\ polling \in {"found", "taken"} => queue # <<>>
    /\ polling = "found" => Polled = Head(queue)

(* A key that the host has set and no handler has read keeps the interrupt up *)
(* (unless it came in just before the handler cleared the status).            *)
KeySignalled == fresh = "set" => "A" \in parStatus

KeysAccounted == KeysStored /\ KeySignalled
=============================================================================
