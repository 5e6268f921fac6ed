---------------------------- MODULE MCDebugEngine ----------------------------
(* DebugEngine on a program with a loop and a call.                       *)
EXTENDS DebugEngine

I(o, t) == [op |-> o, to |-> t]

\* main: jsr A, op, jump main.   A: op, jump, ret.
MCProg == [a \in 0..5 |->
    <<I("jsr", 3), I("op", 0), I("jump", 0),
      I("op", 0), I("jump", 5), I("ret", 0)>>[a + 1]]

MCBreakAt == {1, 5}
MCNoBreaks == {}

=============================================================================
