------------------------------- MODULE EcsKeys -------------------------------
(***************************************************************************)
(* The ECS keyboard as the session drives it: the scan matrix in the       *)
(* machine and the table that remembers, for each host key that is down,   *)
(* which ECS key its press asserted.  The release goes through the table   *)
(* and never resolves the key again: Shift may have moved it meanwhile.    *)
(***************************************************************************)
EXTENDS Integers, FiniteSets

CONSTANTS HostKeys,   \* the physical keys of the host keyboard
          EcsCaps,    \* the keys of the ECS, shifted ones included
          NoCap,      \* INTVSESSION_ECS_KEY_NONE
          Slots       \* the size of ecs_held, 16 in the code

\* A free slot names no host key.
NoHost == "none"

ASSUME EcsAssumption ==
    /\ NoCap \notin EcsCaps /\ Slots \in Nat \ {0}
    /\ NoHost \notin HostKeys

VARIABLES ecs_held,   \* for each slot, the host key and its ECS key, or Free
          k           \* the ECS keys down in pad1.k

ecsVars == <<ecs_held, k>>

Free == [host |-> NoHost, cap |-> NoCap]
Entries == [host : HostKeys, cap : EcsCaps] \cup {Free}
TableSlots == 1 .. Slots

EcsInit == /\ ecs_held = [i \in TableSlots |-> Free]
           /\ k = {}

\* intvsession_ecs_key_set: the on-screen keyboards call it directly.
KeySet(cap, on) == k' = IF on THEN k \cup {cap} ELSE k \ {cap}

\* Mutant: the table is emptied and the matrix kept.
KeysClearTable == ecs_held' = [i \in TableSlots |-> Free] /\ UNCHANGED k

\* The whole matrix, and the table with it.
KeysClear == /\ ecs_held' = [i \in TableSlots |-> Free]
             /\ k' = {}

SlotsOf(h) == {i \in TableSlots : ecs_held[i].host = h}
FreeSlots == {i \in TableSlots : ecs_held[i] = Free}
First(slots) == CHOOSE i \in slots : \A j \in slots : i <= j

\* A host key goes up: what its press put down goes up with it.
HostUp(h) ==
    IF SlotsOf(h) = {}
      THEN UNCHANGED ecsVars
      ELSE LET i == First(SlotsOf(h))
           IN /\ k' = k \ {ecs_held[i].cap}
              /\ ecs_held' = [ecs_held EXCEPT ![i] = Free]

\* Where a press is recorded: the slot of the same host key (a repeat), the
\* first free one, or the first of all, whose ECS key is let go.
SlotFor(h) == IF SlotsOf(h) # {} THEN First(SlotsOf(h))
              ELSE IF FreeSlots # {} THEN First(FreeSlots) ELSE 1
LetGo(h) == {ecs_held[SlotFor(h)].cap}

\* A host key goes down, or repeats, as the ECS key its character names.
HostDown(h, cap) ==
    IF cap = NoCap
      THEN UNCHANGED ecsVars
      ELSE /\ k' = (k \ LetGo(h)) \cup {cap}
           /\ ecs_held' = [ecs_held EXCEPT ![SlotFor(h)] = [host |-> h, cap |-> cap]]

\* intvsession_ecs_key_event
KeyEvent(h, cap, down) == IF down THEN HostDown(h, cap) ELSE HostUp(h)

\* pad_reset_inputs clears the matrix alone.
MatrixReset == k' = {} /\ UNCHANGED ecs_held

-----------------------------------------------------------------------------
EcsTypeOK == /\ ecs_held \in [TableSlots -> Entries]
             /\ k \subseteq EcsCaps

\* A host key has one record at most.
OneRecord == \A i, j \in TableSlots :
                ecs_held[i] # Free /\ ecs_held[i].host = ecs_held[j].host => i = j

Recorded == {ecs_held[i].cap : i \in TableSlots} \ {NoCap}
=============================================================================
