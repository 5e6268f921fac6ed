------------------------------ MODULE CartSlot ------------------------------
(***************************************************************************)
(* What a console with a pushed cartridge promises, whatever the transport *)
(* does: the slot holds one cartridge at a time; a cartridge replaces the  *)
(* one before it in one step, and only with an image that is complete; and *)
(* a cartridge whose map covers the mailbox window is the last of the      *)
(* session, because the program can no longer ask for another.             *)
(***************************************************************************)
CONSTANTS First,     \* the cartridge the session starts with
          Complete(_), CoversWindow(_)

VARIABLES slot, mailbox

svars == <<slot, mailbox>>

SlotInit == slot = {First} /\ mailbox = TRUE

Boot(c) == /\ mailbox
           /\ Complete(c)
           /\ slot' = {c}
           /\ mailbox' = ~CoversWindow(c)

SlotNext == \E c \in slot' : Boot(c)

SlotSpec == SlotInit /\ [][SlotNext]_svars
=============================================================================
