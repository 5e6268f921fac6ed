------------------------------ MODULE Bindings ------------------------------
(***************************************************************************)
(* bindings.c and the part of settings.c it saves through: which target (a *)
(* keypad or action button, a disc position, a system action) each host    *)
(* key and gamepad button drives, how a new binding takes an input away    *)
(* from its old target, and how the table reaches the settings file.       *)
(*                                                                         *)
(* A target is its slot, 1..NTargets in the order of s_table.  The calls   *)
(* come from the UI thread; between the change of the table, under s_mtx,  *)
(* and the rename that makes it durable the process may die.               *)
(***************************************************************************)
EXTENDS Integers, Sequences, FiniteSets

CONSTANTS NTargets,     \* slots of s_table
          Side, Kind,   \* of a target: its side; "key", "disc" or "sysact"
          Left,         \* the side that holds the system actions
          Keysyms,      \* what a frontend can deliver
          NoKey,        \* keysym 0
          Norm,         \* norm_keysym: a letter in its other case
          KeyMap,       \* intvsession_key_from_keysym: target of a keysym, or 0
          Walk,         \* the order in which defaults are seeded
          SysKey,       \* default keysym of a system action
          Buttons, NoButton,
          DefButton,    \* s_defaults[].button
          Windows,      \* is the old file removed before the rename?
          Faults,       \* what can go wrong in a flush: "open", "write", "rename"
          MaxCalls      \* bound: changes of the table

Targets == 1..NTargets
Sides   == {Side[t] : t \in Targets}

ASSUME BindingsAssumption ==
    /\ NTargets \in Nat
    /\ DOMAIN Side = Targets /\ Kind \in [Targets -> {"key", "disc", "sysact"}]
    /\ NoKey \notin Keysyms /\ NoButton \notin Buttons
    /\ Norm \in [Keysyms -> Keysyms]
    /\ KeyMap \in [Keysyms -> Targets \cup {0}]
    /\ \A k \in Keysyms : Norm[Norm[k]] = Norm[k] /\ KeyMap[Norm[k]] = KeyMap[k]
    /\ Walk \in Seq(Keysyms)
    /\ SysKey \in [Targets -> Keysyms \cup {NoKey}]
    /\ DefButton \in [Targets -> Buttons \cup {NoButton}]
    /\ \A t \in Targets : Kind[t] = "sysact" => Side[t] = Left
    /\ Windows \in BOOLEAN /\ Faults \subseteq {"open", "write", "rename"}
    /\ MaxCalls \in Nat

\* No default reaches two targets: system actions have keysyms of their own,
\* and the buttons of a side are distinct.
ASSUME DefaultsAssumption ==
    /\ \A t \in Targets : Kind[t] = "sysact" =>
          /\ \A k \in Keysyms : KeyMap[k] # t
          /\ SysKey[t] # NoKey => Norm[SysKey[t]] = SysKey[t] /\ KeyMap[SysKey[t]] = 0
    /\ \A t, u \in Targets : Kind[t] = "sysact" /\ Kind[u] = "sysact"
                                /\ SysKey[t] = SysKey[u] /\ SysKey[t] # NoKey => t = u
    /\ \A t, u \in Targets : Side[t] = Side[u] /\ DefButton[t] = DefButton[u]
                                /\ DefButton[t] # NoButton => t = u

Canonical    == {Norm[k] : k \in Keysyms}
\* Mutant: keysyms are stored as they come.
HeldRaw(k) == k

Held(k)      == IF k = NoKey THEN NoKey ELSE Norm[k]
DefTarget(k) == IF k = NoKey THEN 0 ELSE KeyMap[k]

\* The keysym that reaches the target first when the defaults are seeded.
DefKey == [t \in Targets |->
    IF Kind[t] = "sysact" THEN SysKey[t]
    ELSE IF \E i \in DOMAIN Walk : KeyMap[Walk[i]] = t
         THEN Norm[Walk[CHOOSE i \in DOMAIN Walk : /\ KeyMap[Walk[i]] = t
                                                   /\ \A j \in 1..(i - 1) : KeyMap[Walk[j]] # t]]
         ELSE NoKey]

VARIABLES key, button,  \* s_table
          setting,      \* the "bindings" value of the settings store
          settings_dirty, \* the store differs from the file
          file,         \* that value in the settings file
          tmp,          \* and in the temporary file
          pc,           \* where the call of the UI thread is
          packed,       \* its pack_locked() buffer
          calls,        \* calls so far
          spoilt        \* history: what failed unnoticed, "stale" or "torn" or "no"
table == <<key, button>>
disk  == <<setting, settings_dirty, file, tmp, spoilt>>
bindingVars  == <<key, button, setting, settings_dirty, file, tmp, pc, packed, calls, spoilt>>

(***************************************************************************)
(* The packed value: an entry for each input that is not the default.      *)
(***************************************************************************)
NoValue == {[slot |-> 0, what |-> "none", val |-> NoKey]}      \* no such setting
Records == [slot : Targets, what : {"key"}, val : Canonical \cup {NoKey}]
             \cup [slot : Targets, what : {"button"}, val : Buttons \cup {NoButton}]

\* Mutant: a slot that a steal has emptied is not listed.
PackBound(k, b) ==
    {[slot |-> t, what |-> "key", val |-> k[t]] : t \in {u \in Targets : k[u] \notin {DefKey[u], NoKey}}}
      \cup {[slot |-> t, what |-> "button", val |-> b[t]] : t \in {u \in Targets : b[u] # DefButton[u]}}

Pack(k, b) ==
    {[slot |-> t, what |-> "key", val |-> k[t]] : t \in {u \in Targets : k[u] # DefKey[u]}}
      \cup {[slot |-> t, what |-> "button", val |-> b[t]] : t \in {u \in Targets : b[u] # DefButton[u]}}

Stated(v, t, what)       == \E e \in v : e.slot = t /\ e.what = what
Value(v, t, what)        == (CHOOSE e \in v : e.slot = t /\ e.what = what).val
UnpackKey(v)    == [t \in Targets |-> IF Stated(v, t, "key") THEN Value(v, t, "key") ELSE DefKey[t]]
UnpackButton(v) == [t \in Targets |-> IF Stated(v, t, "button") THEN Value(v, t, "button") ELSE DefButton[t]]

(***************************************************************************)
(* Lookups                                                                 *)
(***************************************************************************)
First(S) == CHOOSE t \in S : \A u \in S : t <= u

KeyHolders(k)       == {t \in Targets : key[t] = Held(k)}
ButtonHolders(s, b) == {t \in Targets : Side[t] = s /\ button[t] = b}
SysactHolders(b)    == {t \in Targets : Kind[t] = "sysact" /\ button[t] = b}

\* The second default of a disc position works while the position has not
\* been given another key.
Secondary(k) == LET t == DefTarget(k) IN
    IF t # 0 /\ Kind[t] = "disc" /\ key[t] \in {NoKey, DefKey[t]} THEN t ELSE 0

Resolve(k) == IF k # NoKey /\ KeyHolders(k) # {} THEN First(KeyHolders(k)) ELSE Secondary(Held(k))

ButtonTarget(s, b) ==
    IF b = NoButton THEN 0
    ELSE IF ButtonHolders(s, b) # {} THEN First(ButtonHolders(s, b))
    ELSE IF SysactHolders(b) # {} THEN First(SysactHolders(b))
    ELSE 0

(***************************************************************************)
(* Calls of the frontends                                                  *)
(***************************************************************************)
BindingsInit ==
    /\ key = DefKey /\ button = DefButton
    /\ setting = NoValue /\ settings_dirty = FALSE
    /\ file = NoValue /\ tmp = NoValue
    /\ pc = "idle" /\ packed = {}
    /\ calls = 0 /\ spoilt = "no"

\* The end of a call under the lock: pack the new table, unlock.
Changed ==
    /\ calls < MaxCalls /\ calls' = calls + 1
    /\ packed' = Pack(key', button')
    /\ pc' = "store"
    /\ UNCHANGED disk

\* Mutant: k is taken from its default target.
StrippedDefault(t, k) == LET c == DefTarget(Held(k)) IN
    IF c # 0 /\ c # t /\ key[c] = Held(k) THEN [key EXCEPT ![c] = NoKey] ELSE key

\* Mutant: the target k drove is emptied, whatever its slot holds.
StrippedBlind(t, k) == LET c == Resolve(k) IN
    IF c # 0 /\ c # t THEN [key EXCEPT ![c] = NoKey] ELSE key

\* The table with k taken from the target it drove, if that target's slot
\* holds it.
Stripped(t, k) == LET c == Resolve(k) IN
    IF c # 0 /\ c # t /\ key[c] = Held(k) THEN [key EXCEPT ![c] = NoKey] ELSE key

\* intvsession_target_set_key
SetKey(t, k) ==
    /\ pc = "idle"
    /\ key' = [Stripped(t, k) EXCEPT ![t] = Held(k)]
    /\ button' = button
    /\ Changed

\* Mutant: a system action takes a button from its own side only.
LosersOwnSide(t, b) == IF b = NoButton THEN {} ELSE ButtonHolders(Side[t], b)

\* A button taken from where it is: from every side for a system action,
\* which all sides share, else from the first slot of its own side.
Losers(t, b) ==
    IF b = NoButton THEN {}
    ELSE IF Kind[t] = "sysact" THEN {u \in Targets : button[u] = b}
    ELSE IF ButtonHolders(Side[t], b) = {} THEN {}
    ELSE {First(ButtonHolders(Side[t], b))}

\* intvsession_target_set_button
SetButton(t, b) ==
    /\ pc = "idle"
    /\ button' = [u \in Targets |-> IF u = t THEN b
                                    ELSE IF u \in Losers(t, b) THEN NoButton ELSE button[u]]
    /\ key' = key
    /\ Changed

\* intvsession_bindings_reset saves "", not what it packs.
BindingsReset ==
    /\ pc = "idle"
    /\ calls < MaxCalls /\ calls' = calls + 1
    /\ key' = DefKey /\ button' = DefButton
    /\ packed' = {} /\ pc' = "store"
    /\ UNCHANGED disk

(***************************************************************************)
(* Saving: set_locked(), then intvsession_settings_flush()                 *)
(***************************************************************************)
Store ==
    /\ pc = "store"
    /\ setting' = packed
    /\ settings_dirty' = (settings_dirty \/ setting # packed)
    /\ pc' = IF settings_dirty' THEN "open" ELSE "idle"
    /\ UNCHANGED <<key, button, file, tmp, packed, calls, spoilt>>

OpenFails ==
    /\ pc = "open" /\ "open" \in Faults
    /\ pc' = "idle"
    /\ UNCHANGED <<key, button, setting, settings_dirty, file, tmp, packed, calls, spoilt>>

\* Mutant: the settings file itself is opened for writing.
WrittenInPlace(v) ==
    /\ pc = "open"
    /\ tmp' = v /\ file' = {}
    /\ pc' = "rename"
    /\ UNCHANGED <<key, button, setting, settings_dirty, packed, calls, spoilt>>

\* The writes are not checked: a full disk leaves the first entries.
Written(v) ==
    /\ pc = "open"
    /\ tmp' = v
    /\ pc' = "rename"
    /\ UNCHANGED <<key, button, setting, settings_dirty, file, packed, calls, spoilt>>
Write      == Written(setting)
WriteFails == "write" \in Faults /\ \E t \in Targets : Written({e \in setting : e.slot < t})

\* remove() on Windows, where rename() does not replace a file.
Remove ==
    /\ pc = "rename" /\ Windows /\ file # NoValue
    /\ file' = NoValue
    /\ UNCHANGED <<key, button, setting, settings_dirty, tmp, pc, packed, calls, spoilt>>

Renamed(f, t, outcome) ==
    /\ pc = "rename"
    /\ file' = f /\ tmp' = t
    /\ settings_dirty' = FALSE
    /\ spoilt' = IF spoilt = "torn" THEN "torn" ELSE outcome
    /\ pc' = "idle"
    /\ UNCHANGED <<key, button, setting, packed, calls>>
Rename      == Renamed(tmp, NoValue, IF tmp = setting THEN "no" ELSE "torn")
RenameFails == "rename" \in Faults /\ Renamed(file, tmp, "stale")

\* The process ends, or dies, and is started again: settings_init(),
\* bindings_init().  Nothing is flushed on the way out.
Relaunch ==
    /\ key' = UnpackKey(file) /\ button' = UnpackButton(file)
    /\ setting' = file /\ settings_dirty' = FALSE
    /\ pc' = "idle" /\ packed' = {}
    /\ spoilt' = IF spoilt = "torn" THEN "torn" ELSE "no"
    /\ UNCHANGED <<file, tmp, calls>>

Flush == Store \/ OpenFails \/ Write \/ WriteFails \/ Remove \/ Rename \/ RenameFails

BindingsNext ==
    \/ \E t \in Targets, k \in Keysyms \cup {NoKey} : SetKey(t, k)
    \/ \E t \in Targets, b \in Buttons \cup {NoButton} : SetButton(t, b)
    \/ BindingsReset
    \/ Flush
    \/ Relaunch

BindingsSpec == BindingsInit /\ [][BindingsNext]_bindingVars

(***************************************************************************)
(* Properties                                                              *)
(***************************************************************************)
BindingsTypeOK ==
    /\ key \in [Targets -> Canonical \cup {NoKey}]
    /\ button \in [Targets -> Buttons \cup {NoButton}]
    /\ {setting, file, tmp} \subseteq (SUBSET Records) \cup {NoValue}
    /\ packed \subseteq Records
    /\ settings_dirty \in BOOLEAN
    /\ pc \in {"idle", "store", "open", "rename"}
    /\ calls \in 0..MaxCalls /\ spoilt \in {"no", "stale", "torn"}

\* "A keysym/button drives exactly one target at a time" (intvsession.h:675):
\* no two slots hold one keysym, and no two slots of a side one button, after
\* any sequence of bindings, steals, resets and restarts, unless a full disk
\* has cut the file between an input's new target and its old one.
OneTarget == spoilt # "torn" =>
    \A t, u \in Targets :
        /\ key[t] = key[u] /\ key[t] # NoKey => t = u
        /\ Side[t] = Side[u] /\ button[t] = button[u] /\ button[t] # NoButton => t = u

\* What is in use is what the next launch reads, once a call has returned and
\* its flush was not refused or spoilt by the disk: pack_locked() and
\* apply_persisted_locked() are inverse on every table, slots emptied by a
\* steal included.
Durable ==
    pc = "idle" /\ ~settings_dirty /\ spoilt = "no" => UnpackKey(file) = key /\ UnpackButton(file) = button

\* The settings file changes from one table that was in use to the one in use,
\* at whichever step the process dies: unless the disk was full, and but for
\* the moment in which Windows has no such file.
CrashSafe ==
    [][file' # file => \/ UnpackKey(file') = key /\ UnpackButton(file') = button
                       \/ spoilt' # "no"
                       \/ file' = NoValue]_bindingVars

\* A binding made through set_key changes what its own key does and what drove
\* its target, and nothing else; a key that did nothing may drive a disc
\* position again, whose other key was taken.
MovesOne ==
    [][button' = button /\ pc = "idle" /\ pc' = "store" /\ packed' # {} =>
        \E t \in Targets : \E k \in Keysyms \cup {NoKey} :
            /\ key'[t] = Held(k)
            /\ \A l \in Keysyms : Held(l) # Held(k) /\ Resolve(l) \notin {0, t} =>
                   Resolve(l)' = Resolve(l)]_bindingVars

\* A button bound to a system action fires it from the pad of every side, and
\* nothing else any more (bindings.c:807-821).
SysactEverywhere ==
    [][\A t \in Targets, b \in Buttons :
           /\ Kind[t] = "sysact" /\ button[t] # b /\ button'[t] = b
           /\ pc = "idle" /\ pc' = "store" /\ packed' # {}
           => \A s \in Sides : ButtonTarget(s, b)' = t]_bindingVars
=============================================================================
