------------------------------- MODULE MCDesk -------------------------------
EXTENDS Desks

MCKeysyms == {"r", "slash", "shift", "ctrl"} \X BOOLEAN
\* R is an action button, the slash the disc's north, Ctrl resets; a "/" moved
\* by Shift has no target.
MCDefault == [s \in MCKeysyms |->
    CASE s = <<"r", FALSE>> -> "top"
      [] s = <<"slash", FALSE>> -> "north"
      [] s = <<"ctrl", FALSE>> -> "reset"
      [] OTHER -> "none"]
MCCharOf == [p \in MCKeysyms |->
    CASE p[1] = "r" -> "R"
      [] p[1] = "slash" -> IF p[2] THEN "QUEST" ELSE "SLASH"
      [] p[1] = "shift" -> "SHIFT"
      [] p[1] = "ctrl" -> "CTRL"]

MCUsable == {{"main", "keypad"}, {"main", "ecskbd", "settings"}}
=============================================================================
