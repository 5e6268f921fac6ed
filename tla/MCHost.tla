------------------------------- MODULE MCHost -------------------------------
(***************************************************************************)
(* Six models of the host, checked by one run: the start and stop of the   *)
(* machine, the sound, the displays, the FujiNet trace, the bindings with  *)
(* the settings file, and the debugger's windows.  They share no variable, *)
(* so a behaviour is one of any of them while the others rest.             *)
(***************************************************************************)
EXTENDS HostSession, AudioPath, Displays, FujiTrace, Bindings, DebugWindow

\* A part of the real tables: on the left a keypad key, the disc's East and
\* a system action, on the right a keypad key with the same default button.
CONSTANTS d5, arrow, lowK, capK, esc, south

MCSide   == <<"left", "left", "left", "right">>
MCKind   == <<"key", "disc", "sysact", "key">>
MCLeft   == "left"
MCKeysyms == {d5, arrow, lowK, capK, esc}
MCNorm   == [x \in MCKeysyms |-> IF x = lowK THEN capK ELSE x]
MCKeyMap == [x \in MCKeysyms |-> CASE x = arrow -> 2 [] x \in {lowK, capK} -> 2 [] x = d5 -> 4 [] OTHER -> 0]
MCWalk   == <<arrow, esc, d5, capK, lowK>>
MCSysKey == <<NoKey, NoKey, esc, NoKey>>
MCDefButton == <<south, NoButton, NoButton, south>>

VARIABLE part   \* the model this behaviour is one of

hostPartVars == <<sessionVars, audioVars, displayVars, traceVars, bindingVars,
                  debugWindowVars, part>>

\* What rests, rests in one of its initial states.
Init ==
    /\ part \in {"session", "audio", "displays", "trace", "bindings", "window"}
    /\ SessionInit /\ AudioInit /\ DisplayInit /\ TraceInit /\ BindingsInit
    /\ WindowInit
    /\ part # "session" => opts = [cart |-> NoCart, fujinet |-> "own"]
    /\ part # "audio" => srcs = Chips
    /\ part # "displays" => /\ ui = "gnome"
                            /\ vid = CHOOSE p \in Pictures : TRUE
    /\ part # "window" => front = "gnome"

Session == /\ part = "session" /\ SessionNext
           /\ UNCHANGED <<audioVars, displayVars, traceVars, bindingVars, debugWindowVars, part>>
Audio == /\ part = "audio" /\ AudioNext
         /\ UNCHANGED <<sessionVars, displayVars, traceVars, bindingVars, debugWindowVars, part>>
Display == /\ part = "displays" /\ DisplayNext
           /\ UNCHANGED <<sessionVars, audioVars, traceVars, bindingVars, debugWindowVars, part>>
Trace == /\ part = "trace" /\ TraceNext
         /\ UNCHANGED <<sessionVars, audioVars, displayVars, bindingVars, debugWindowVars, part>>
Binding == /\ part = "bindings" /\ BindingsNext
           /\ UNCHANGED <<sessionVars, audioVars, displayVars, traceVars, debugWindowVars, part>>
Window == /\ part = "window" /\ WindowNext
          /\ UNCHANGED <<sessionVars, audioVars, displayVars, traceVars, bindingVars, part>>

Next == Session \/ Audio \/ Display \/ Trace \/ Binding \/ Window

\* What rests has no step that fairness asks for.
Spec == Init /\ [][Next]_hostPartVars /\ SessionFairness /\ DisplayFairness
=============================================================================
