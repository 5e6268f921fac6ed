-------------------------------- MODULE Desks --------------------------------
(***************************************************************************)
(* The four frontends' desks side by side: a behaviour is one of whichever *)
(* frontend was started.                                                   *)
(***************************************************************************)
EXTENDS Desk

G == INSTANCE GnomeDesk
K == INSTANCE KdeDesk
W == INSTANCE WindowsDesk
M == INSTANCE MacDesk

PollTick == G!PollTick \/ K!PollTick \/ W!PollTick \/ M!PollTick
Next == G!Next \/ K!Next \/ W!Next \/ M!Next

\* The toolkits' timers keep running.
Spec == DeskInit /\ [][Next]_deskVars /\ WF_deskVars(PollTick)
=============================================================================
