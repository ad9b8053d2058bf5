----------------------------- MODULE ThoughtSlot -----------------------------
(***************************************************************************)
(* What background thinking promises its callers: one slot.  At most one   *)
(* thought occupies it; a foreground turn empties it and keeps it empty;   *)
(* a result is the result of the thought that was in the slot, never of    *)
(* one that was turned out.  No threads, events or generations.            *)
(***************************************************************************)
EXTENDS Naturals

CONSTANT None        \* Python's None: no thought, no result

VARIABLES
  slot,              \* the thought that occupies the slot, or None
  foreground,        \* a foreground turn has the floor
  result             \* the thought whose result is kept, or None

slotVars == <<slot, foreground, result>>

SlotInit == slot = None /\ foreground = FALSE /\ result = None

(* A thought enters the free slot; the previous result is forgotten.       *)
Enter ==
  /\ ~foreground /\ slot = None
  /\ slot' \in Nat
  /\ result' = None
  /\ UNCHANGED foreground

(* It leaves with a result of its own or with none.                        *)
Leave ==
  /\ slot # None
  /\ slot' = None
  /\ result' \in {slot, None}
  /\ UNCHANGED foreground

(* It is turned out: whatever it comes up with later is lost.              *)
TurnOut ==
  /\ slot # None
  /\ slot' = None
  /\ result' = None

TakeFloor ==
  /\ foreground' = TRUE
  /\ TurnOut \/ (slot = None /\ UNCHANGED <<slot, result>>)

Cancel == TurnOut /\ UNCHANGED foreground

LeaveFloor == foreground' = FALSE /\ UNCHANGED <<slot, result>>

Forget == result' = None /\ UNCHANGED <<slot, foreground>>

SlotNext ==
  Enter \/ Leave \/ TakeFloor \/ Cancel \/ LeaveFloor \/ Forget

SlotSpec == SlotInit /\ [][SlotNext]_slotVars
=============================================================================
