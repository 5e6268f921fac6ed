----------------------------- MODULE MCGamepad -----------------------------
(***************************************************************************)
(* Two pads, two sides, a face button and one D-pad direction, a stick     *)
(* that points west; bindings before and after Map mode has given the two  *)
(* buttons a key, a disc position or an action.                            *)
(***************************************************************************)
EXTENDS Gamepad
CONSTANTS K
None  == [kind |-> "none"]
Key   == [kind |-> "key", key |-> K]
Half  == [kind |-> "disc", pos |-> 1]
Bind(a, up) == [s \in 0..1 |-> [b \in {"a", "up"} |-> IF b = "a" THEN a ELSE up]]
MCTables == {Bind(Key, None), Bind(None, Key), Bind(Half, None),
             Bind([kind |-> "reset"], [kind |-> "config"])}
=============================================================================
