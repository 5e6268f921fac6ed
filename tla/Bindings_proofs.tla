--------------------------- MODULE Bindings_proofs ---------------------------
(***************************************************************************)
(* What holds of the bindings for every set of targets, keysyms and        *)
(* buttons, every default table and every way in which a flush can fail:   *)
(* types, that an input drives one target, and that what the settings file *)
(* holds is the table in use.                                              *)
(***************************************************************************)
EXTENDS Bindings, TLAPS, WellFoundedInduction

-----------------------------------------------------------------------------
(* The first of a set of slots, the first keysym of a target.              *)

LEMMA LeastNatural ==
    ASSUME NEW S \in SUBSET Nat, S # {}
    PROVE  \E m \in S : \A n \in S : m <= n
<1> DEFINE R == OpToRel(<, Nat)
<1>1. IsWellFoundedOn(R, Nat)
  BY NatLessThanWellFounded
<1>2. \A x, y \in Nat : ~(<<y, x>> \in R) => x <= y
  <2>1. \A x, y \in Nat : y < x => <<y, x>> \in R
    BY DEF OpToRel
  <2> SUFFICES ASSUME NEW x \in Nat, NEW y \in Nat, ~(y < x) PROVE x <= y
    BY <2>1
  <2> QED OBVIOUS
<1> HIDE DEF R
<1>3. PICK m \in S : \A n \in S : ~(<<n, m>> \in R)
  BY <1>1, WFMin
<1>4. \A n \in S : m <= n
  BY <1>2, <1>3
<1> QED BY <1>4

LEMMA FirstFacts ==
    ASSUME NEW S \in SUBSET Targets, S # {}
    PROVE  First(S) \in S
<1>1. S \in SUBSET Nat
  BY BindingsAssumption DEF Targets
<1>2. \E m \in S : \A n \in S : m <= n
  BY <1>1, LeastNatural
<1> QED BY <1>2 DEF First

\* A default is a canonical keysym, and the keymap leads from it back to its
\* target, unless it is a system action's.
LEMMA DefKeyFacts ==
    ASSUME NEW t \in Targets
    PROVE  /\ DefKey[t] \in Canonical \cup {NoKey}
           /\ Kind[t] # "sysact" /\ DefKey[t] # NoKey =>
                 DefKey[t] \in Keysyms /\ KeyMap[DefKey[t]] = t
<1>1. CASE Kind[t] = "sysact"
  <2>1. DefKey[t] = SysKey[t]
    BY <1>1 DEF DefKey
  <2>2. SysKey[t] # NoKey => SysKey[t] \in Keysyms /\ Norm[SysKey[t]] = SysKey[t]
    BY <1>1, BindingsAssumption, DefaultsAssumption
  <2> QED BY <1>1, <2>1, <2>2 DEF Canonical
<1>2. CASE Kind[t] # "sysact" /\ ~\E i \in DOMAIN Walk : KeyMap[Walk[i]] = t
  BY <1>2 DEF DefKey
<1>3. CASE Kind[t] # "sysact" /\ \E i \in DOMAIN Walk : KeyMap[Walk[i]] = t
  <2> DEFINE S == {i \in DOMAIN Walk : KeyMap[Walk[i]] = t}
             P(i) == /\ i \in DOMAIN Walk /\ KeyMap[Walk[i]] = t
                     /\ \A j \in 1..(i - 1) : KeyMap[Walk[j]] # t
             c == CHOOSE i \in DOMAIN Walk : /\ KeyMap[Walk[i]] = t
                                             /\ \A j \in 1..(i - 1) : KeyMap[Walk[j]] # t
  <2>1. Walk \in Seq(Keysyms)
    BY BindingsAssumption
  <2>2. DOMAIN Walk = 1..Len(Walk) /\ Len(Walk) \in Nat
    BY <2>1
  <2>3. S \in SUBSET Nat /\ S # {}
    BY <2>2, <1>3
  <2>4. PICK m \in S : \A n \in S : m <= n
    BY <2>3, LeastNatural
  <2>5. \A j \in 1..(m - 1) : KeyMap[Walk[j]] # t
    <3> SUFFICES ASSUME NEW j \in 1..(m - 1), KeyMap[Walk[j]] = t PROVE FALSE
      OBVIOUS
    <3>1. j \in DOMAIN Walk /\ j < m
      BY <2>2
    <3> QED BY <3>1, <2>4, <2>2
  <2>6. c \in DOMAIN Walk /\ KeyMap[Walk[c]] = t
    BY <2>4, <2>5
  <2>7. Walk[c] \in Keysyms
    BY <2>6, <2>1, <2>2
  <2>8. DefKey[t] = Norm[Walk[c]]
    BY <1>3 DEF DefKey
  <2> HIDE DEF c
  <2> QED BY <2>6, <2>7, <2>8, BindingsAssumption DEF Canonical
<1> QED BY <1>1, <1>2, <1>3

-----------------------------------------------------------------------------
(* A table in which no input drives two targets.                           *)

One(k, b) ==
    \A t, u \in Targets :
        /\ k[t] = k[u] /\ k[t] # NoKey => t = u
        /\ Side[t] = Side[u] /\ b[t] = b[u] /\ b[t] # NoButton => t = u

LEMMA DefaultsOne == One(DefKey, DefButton)
<1> SUFFICES ASSUME NEW t \in Targets, NEW u \in Targets
             PROVE  /\ DefKey[t] = DefKey[u] /\ DefKey[t] # NoKey => t = u
                    /\ Side[t] = Side[u] /\ DefButton[t] = DefButton[u]
                          /\ DefButton[t] # NoButton => t = u
  BY DEF One
<1>1. DefKey[t] = DefKey[u] /\ DefKey[t] # NoKey => t = u
  <2> SUFFICES ASSUME DefKey[t] = DefKey[u], DefKey[t] # NoKey PROVE t = u
    OBVIOUS
  <2>1. CASE Kind[t] # "sysact" /\ Kind[u] # "sysact"
    BY <2>1, DefKeyFacts
  <2>2. \A v \in Targets : Kind[v] = "sysact" => DefKey[v] = SysKey[v]
    BY DEF DefKey
  <2>3. CASE Kind[t] = "sysact" /\ Kind[u] = "sysact"
    BY <2>2, <2>3, DefaultsAssumption
  <2>4. \A v, w \in Targets : Kind[v] = "sysact" /\ Kind[w] # "sysact"
                                /\ DefKey[v] = DefKey[w] /\ DefKey[v] # NoKey => FALSE
    <3> SUFFICES ASSUME NEW v \in Targets, NEW w \in Targets, Kind[v] = "sysact",
                        Kind[w] # "sysact", DefKey[v] = DefKey[w], DefKey[v] # NoKey
                 PROVE  FALSE
      OBVIOUS
    <3>1. KeyMap[DefKey[w]] = w
      BY DefKeyFacts
    <3>2. KeyMap[SysKey[v]] = 0
      BY <2>2, DefaultsAssumption
    <3>3. w # 0
      BY BindingsAssumption DEF Targets
    <3> QED BY <3>1, <3>2, <3>3, <2>2
  <2> QED BY <2>1, <2>3, <2>4
<1>2. Side[t] = Side[u] /\ DefButton[t] = DefButton[u] /\ DefButton[t] # NoButton => t = u
  BY DefaultsAssumption
<1> QED BY <1>1, <1>2

-----------------------------------------------------------------------------
(* The packed value.                                                       *)

KeyTable    == [Targets -> Canonical \cup {NoKey}]
ButtonTable == [Targets -> Buttons \cup {NoButton}]

\* What pack_locked() writes, apply_persisted_locked() reads back.
LEMMA RoundTrip ==
    ASSUME NEW k \in KeyTable, NEW b \in ButtonTable
    PROVE  UnpackKey(Pack(k, b)) = k /\ UnpackButton(Pack(k, b)) = b
<1> DEFINE v == Pack(k, b)
<1>1. \A e \in v, t \in Targets : e.slot = t /\ e.what = "key" => e.val = k[t] /\ k[t] # DefKey[t]
  BY DEF Pack
<1>2. \A e \in v, t \in Targets : e.slot = t /\ e.what = "button" => e.val = b[t] /\ b[t] # DefButton[t]
  BY DEF Pack
<1>3. \A t \in Targets : k[t] # DefKey[t] => [slot |-> t, what |-> "key", val |-> k[t]] \in v
  BY DEF Pack
<1>4. \A t \in Targets : b[t] # DefButton[t] => [slot |-> t, what |-> "button", val |-> b[t]] \in v
  BY DEF Pack
<1> HIDE DEF v
<1>5. \A t \in Targets : UnpackKey(v)[t] = k[t]
  <2> TAKE t \in Targets
  <2>1. CASE k[t] = DefKey[t]
    <3>1. ~Stated(v, t, "key")
      BY <1>1, <2>1 DEF Stated
    <3> QED BY <3>1, <2>1 DEF UnpackKey
  <2>2. CASE k[t] # DefKey[t]
    <3>1. \E e \in v : e.slot = t /\ e.what = "key"
      BY <1>3, <2>2
    <3>2. Stated(v, t, "key")
      BY <3>1 DEF Stated
    <3>3. Value(v, t, "key") = k[t]
      BY <3>1, <1>1 DEF Value
    <3> QED BY <3>2, <3>3 DEF UnpackKey
  <2> QED BY <2>1, <2>2
<1>6. \A t \in Targets : UnpackButton(v)[t] = b[t]
  <2> TAKE t \in Targets
  <2>1. CASE b[t] = DefButton[t]
    <3>1. ~Stated(v, t, "button")
      BY <1>2, <2>1 DEF Stated
    <3> QED BY <3>1, <2>1 DEF UnpackButton
  <2>2. CASE b[t] # DefButton[t]
    <3>1. \E e \in v : e.slot = t /\ e.what = "button"
      BY <1>4, <2>2
    <3>2. Stated(v, t, "button")
      BY <3>1 DEF Stated
    <3>3. Value(v, t, "button") = b[t]
      BY <3>1, <1>2 DEF Value
    <3> QED BY <3>2, <3>3 DEF UnpackButton
  <2> QED BY <2>1, <2>2
<1>7. UnpackKey(v) = k
  BY <1>5 DEF UnpackKey, KeyTable
<1>8. UnpackButton(v) = b
  BY <1>6 DEF UnpackButton, ButtonTable
<1> QED BY <1>7, <1>8 DEF v

LEMMA PackType ==
    ASSUME NEW k \in KeyTable, NEW b \in ButtonTable
    PROVE  Pack(k, b) \subseteq Records
BY DEF Pack, Records, KeyTable, ButtonTable

LEMMA UnpackType ==
    ASSUME NEW v \in (SUBSET Records) \cup {NoValue}
    PROVE  UnpackKey(v) \in KeyTable /\ UnpackButton(v) \in ButtonTable
<1>1. \A e \in v, t \in Targets : e.slot = t /\ e.what = "key" => e.val \in Canonical \cup {NoKey}
  BY BindingsAssumption DEF Records, NoValue, Targets
<1>2. \A e \in v, t \in Targets : e.slot = t /\ e.what = "button" => e.val \in Buttons \cup {NoButton}
  BY BindingsAssumption DEF Records, NoValue, Targets
<1>3. \A t \in Targets : Stated(v, t, "key") => Value(v, t, "key") \in Canonical \cup {NoKey}
  BY <1>1 DEF Stated, Value
<1>4. \A t \in Targets : Stated(v, t, "button") => Value(v, t, "button") \in Buttons \cup {NoButton}
  BY <1>2 DEF Stated, Value
<1>5. \A t \in Targets : DefKey[t] \in Canonical \cup {NoKey}
  BY DefKeyFacts
<1>6. \A t \in Targets : DefButton[t] \in Buttons \cup {NoButton}
  BY BindingsAssumption
<1> QED BY <1>3, <1>4, <1>5, <1>6 DEF UnpackKey, UnpackButton, KeyTable, ButtonTable

\* An empty value, or none, is the defaults.
LEMMA UnpackEmpty ==
    \A v \in {{}, NoValue} : UnpackKey(v) = DefKey /\ UnpackButton(v) = DefButton
<1> SUFFICES ASSUME NEW v \in {{}, NoValue}
             PROVE  UnpackKey(v) = DefKey /\ UnpackButton(v) = DefButton
  OBVIOUS
<1>1. \A t \in Targets : ~Stated(v, t, "key") /\ ~Stated(v, t, "button")
  BY BindingsAssumption DEF Stated, NoValue, Targets
<1>2. UnpackKey(v) = [t \in Targets |-> DefKey[t]]
  BY <1>1 DEF UnpackKey
<1>3. UnpackButton(v) = [t \in Targets |-> DefButton[t]]
  BY <1>1 DEF UnpackButton
<1> QED BY <1>2, <1>3, BindingsAssumption DEF DefKey

-----------------------------------------------------------------------------
(* Types.                                                                  *)

LEMMA TypeTables == BindingsTypeOK => key \in KeyTable /\ button \in ButtonTable
BY DEF BindingsTypeOK, KeyTable, ButtonTable

LEMMA HeldType ==
    ASSUME NEW k \in Keysyms \cup {NoKey}
    PROVE  /\ Held(k) \in Canonical \cup {NoKey}
           /\ Held(k) = NoKey <=> k = NoKey
BY BindingsAssumption DEF Held, Canonical

LEMMA StrippedType ==
    ASSUME key \in KeyTable, NEW t \in Targets, NEW k \in Keysyms \cup {NoKey}
    PROVE  Stripped(t, k) \in KeyTable
BY DEF Stripped, KeyTable

LEMMA DefaultsType == DefKey \in KeyTable /\ DefButton \in ButtonTable
<1>1. \A t \in Targets : DefKey[t] \in Canonical \cup {NoKey}
  BY DefKeyFacts
<1>2. DefKey = [t \in Targets |-> DefKey[t]]
  BY DEF DefKey
<1> QED BY <1>1, <1>2, BindingsAssumption DEF KeyTable, ButtonTable

\* The tables a call leaves, and what it packs.
LEMMA SetKeyTables ==
    ASSUME BindingsTypeOK, NEW t \in Targets, NEW k \in Keysyms \cup {NoKey}, SetKey(t, k)
    PROVE  /\ key' \in KeyTable /\ button' \in ButtonTable
           /\ packed' = Pack(key', button') /\ packed' \subseteq Records
<1>1. Stripped(t, k) \in KeyTable
  BY TypeTables, StrippedType
<1>2. key' \in KeyTable
  BY <1>1, HeldType DEF SetKey, KeyTable
<1>3. button' \in ButtonTable
  BY TypeTables DEF SetKey
<1> QED BY <1>2, <1>3, PackType DEF SetKey, Changed

LEMMA SetButtonTables ==
    ASSUME BindingsTypeOK, NEW t \in Targets, NEW b \in Buttons \cup {NoButton}, SetButton(t, b)
    PROVE  /\ key' \in KeyTable /\ button' \in ButtonTable
           /\ packed' = Pack(key', button') /\ packed' \subseteq Records
<1>1. button' \in ButtonTable
  BY TypeTables DEF SetButton, ButtonTable
<1>2. key' \in KeyTable
  BY TypeTables DEF SetButton
<1> QED BY <1>1, <1>2, PackType DEF SetButton, Changed

\* A flush touches neither the tables nor what they are packed into.
LEMMA FlushFrame ==
    ASSUME Flush
    PROVE  UNCHANGED <<key, button, packed, calls>>
BY DEF Flush, Store, OpenFails, Write, WriteFails, Written, Remove, Rename, RenameFails, Renamed

LEMMA FlushType ==
    ASSUME BindingsTypeOK, Flush
    PROVE  BindingsTypeOK'
<1>1. UNCHANGED <<key, button, packed, calls>>
  BY FlushFrame
<1>2. CASE Store
  BY <1>1, <1>2 DEF BindingsTypeOK, Store
<1>3. CASE OpenFails
  BY <1>1, <1>3 DEF BindingsTypeOK, OpenFails
<1>4. ASSUME NEW v \in (SUBSET Records) \cup {NoValue}, Written(v) PROVE BindingsTypeOK'
  BY <1>1, <1>4 DEF BindingsTypeOK, Written
<1>5. CASE Write
  BY <1>4, <1>5 DEF BindingsTypeOK, Write
<1>6. CASE WriteFails
  <2>1. PICK t \in Targets : Written({e \in setting : e.slot < t})
    BY <1>6 DEF WriteFails
  <2>2. CASE setting \in SUBSET Records
    BY <1>4, <2>1, <2>2
  <2>3. CASE setting = NoValue
    <3>1. t \in Int /\ t > 0
      BY BindingsAssumption DEF Targets
    <3>2. {e \in setting : e.slot < t} = NoValue
      BY <2>3, <3>1 DEF NoValue
    <3> QED BY <3>2, <2>1, <1>4
  <2> QED BY <2>2, <2>3 DEF BindingsTypeOK
<1>7. CASE Remove
  BY <1>1, <1>7 DEF BindingsTypeOK, Remove
<1>8. CASE Rename
  BY <1>1, <1>8 DEF BindingsTypeOK, Rename, Renamed
<1>9. CASE RenameFails
  BY <1>1, <1>9 DEF BindingsTypeOK, RenameFails, Renamed
<1> QED BY <1>2, <1>3, <1>5, <1>6, <1>7, <1>8, <1>9 DEF Flush

LEMMA TypeInit == BindingsInit => BindingsTypeOK
<1> SUFFICES ASSUME BindingsInit PROVE BindingsTypeOK
  OBVIOUS
<1>1. key \in KeyTable /\ button \in ButtonTable
  BY DefaultsType DEF BindingsInit
<1>2. calls \in 0..MaxCalls
  BY BindingsAssumption DEF BindingsInit
<1> QED BY <1>1, <1>2 DEF BindingsInit, BindingsTypeOK, KeyTable, ButtonTable

LEMMA TypeStep == BindingsTypeOK /\ [BindingsNext]_bindingVars => BindingsTypeOK'
<1> SUFFICES ASSUME BindingsTypeOK, [BindingsNext]_bindingVars PROVE BindingsTypeOK'
  OBVIOUS
<1>1. ASSUME key' \in KeyTable, button' \in ButtonTable, packed' \subseteq Records,
             UNCHANGED disk, pc' = "store", calls < MaxCalls, calls' = calls + 1
      PROVE  BindingsTypeOK'
  <2>1. calls' \in 0..MaxCalls
    BY <1>1, BindingsAssumption DEF BindingsTypeOK
  <2> QED BY <1>1, <2>1 DEF BindingsTypeOK, disk, KeyTable, ButtonTable
<1>2. ASSUME NEW t \in Targets, NEW k \in Keysyms \cup {NoKey}, SetKey(t, k) PROVE BindingsTypeOK'
  BY <1>1, <1>2, SetKeyTables DEF SetKey, Changed
<1>3. ASSUME NEW t \in Targets, NEW b \in Buttons \cup {NoButton}, SetButton(t, b) PROVE BindingsTypeOK'
  BY <1>1, <1>3, SetButtonTables DEF SetButton, Changed
<1>4. CASE BindingsReset
  BY <1>1, <1>4, DefaultsType DEF BindingsReset
<1>5. CASE Flush
  BY <1>5, FlushType
<1>6. CASE Relaunch
  <2>1. file \in (SUBSET Records) \cup {NoValue}
    BY DEF BindingsTypeOK
  <2>2. key' \in KeyTable /\ button' \in ButtonTable
    BY <1>6, <2>1, UnpackType DEF Relaunch
  <2> QED BY <1>6, <2>2 DEF Relaunch, BindingsTypeOK, KeyTable, ButtonTable
<1>7. CASE UNCHANGED bindingVars
  BY <1>7 DEF bindingVars, BindingsTypeOK
<1> QED BY <1>2, <1>3, <1>4, <1>5, <1>6, <1>7 DEF BindingsNext

\* The tables hold canonical keysyms and buttons, and so does everything that
\* is on its way to the settings file or back, for every table of defaults.
THEOREM TypeCorrect == BindingsSpec => []BindingsTypeOK
<1>1. BindingsInit => BindingsTypeOK
  BY TypeInit
<1>2. BindingsTypeOK /\ [BindingsNext]_bindingVars => BindingsTypeOK'
  BY TypeStep
<1> QED BY <1>1, <1>2, PTL DEF BindingsSpec

-----------------------------------------------------------------------------
(* One target.  The file, the store and the buffer between them hold values *)
(* that unpack into such a table too, or else a launch could bring back a   *)
(* default of which some other target has taken the input.                  *)

Sound(v) == One(UnpackKey(v), UnpackButton(v))
OneInv   == spoilt # "torn" =>
                One(key, button) /\ Sound(packed) /\ Sound(setting) /\ Sound(file)

LEMMA SetKeyOne ==
    ASSUME BindingsTypeOK, One(key, button),
           NEW t \in Targets, NEW k \in Keysyms \cup {NoKey}, SetKey(t, k)
    PROVE  One(key', button')
<1> DEFINE s == Stripped(t, k)
<1>1. key' = [s EXCEPT ![t] = Held(k)] /\ button' = button
  BY DEF SetKey
<1>2. key \in KeyTable /\ s \in KeyTable
  BY TypeTables, StrippedType
<1>3. \A u \in Targets : s[u] \in {key[u], NoKey}
  BY <1>2 DEF Stripped, KeyTable
<1>4. ASSUME k # NoKey, NEW u \in Targets, u # t PROVE s[u] # Held(k)
  <2>1. Held(k) # NoKey
    BY <1>4, HeldType
  <2>2. CASE key[u] # Held(k)
    BY <1>3, <2>1, <2>2
  <2>3. CASE key[u] = Held(k)
    <3>1. KeyHolders(k) = {u}
      BY <2>1, <2>3 DEF KeyHolders, One
    <3>2. Resolve(k) = u
      BY <3>1, <1>4, FirstFacts DEF Resolve
    <3>3. u # 0
      BY BindingsAssumption DEF Targets
    <3>4. s = [key EXCEPT ![u] = NoKey]
      BY <3>2, <3>3, <2>3, <1>4 DEF Stripped
    <3> QED BY <3>4, <1>2, <2>1 DEF KeyTable
  <2> QED BY <2>2, <2>3
<1> HIDE DEF s
<1>5. \A u \in Targets : key'[u] = IF u = t THEN Held(k) ELSE s[u]
  BY <1>1, <1>2 DEF KeyTable
<1>6. Held(k) # NoKey => k # NoKey
  BY HeldType
<1>7. \A u, w \in Targets : key'[u] = key'[w] /\ key'[u] # NoKey => u = w
  BY <1>3, <1>4, <1>5, <1>6 DEF One
<1> QED BY <1>1, <1>7 DEF One

LEMMA SetButtonOne ==
    ASSUME BindingsTypeOK, One(key, button),
           NEW t \in Targets, NEW b \in Buttons \cup {NoButton}, SetButton(t, b)
    PROVE  One(key', button')
<1>1. key' = key
  BY DEF SetButton
<1>2. \A u \in Targets : button'[u] = IF u = t THEN b
                                      ELSE IF u \in Losers(t, b) THEN NoButton ELSE button[u]
  BY DEF SetButton
<1>3. ASSUME b # NoButton, NEW u \in Targets, Side[u] = Side[t], button[u] = b
      PROVE  u \in Losers(t, b)
  <2>1. CASE Kind[t] = "sysact"
    BY <1>3, <2>1 DEF Losers
  <2>2. CASE Kind[t] # "sysact"
    <3>1. ButtonHolders(Side[t], b) = {u}
      BY <1>3 DEF ButtonHolders, One
    <3>2. First(ButtonHolders(Side[t], b)) = u
      BY <3>1, FirstFacts
    <3> QED BY <3>1, <3>2, <2>2, <1>3 DEF Losers
  <2> QED BY <2>1, <2>2
<1>4. \A u, w \in Targets : Side[u] = Side[w] /\ button'[u] = button'[w]
                               /\ button'[u] # NoButton => u = w
  BY <1>2, <1>3 DEF One
<1> QED BY <1>1, <1>4 DEF One

LEMMA EmptySound == Sound({}) /\ Sound(NoValue)
BY UnpackEmpty, DefaultsOne DEF Sound

LEMMA OneInit == BindingsInit => OneInv
BY EmptySound, DefaultsOne DEF BindingsInit, OneInv

LEMMA OneStep == BindingsTypeOK /\ OneInv /\ [BindingsNext]_bindingVars => OneInv'
<1> SUFFICES ASSUME BindingsTypeOK, OneInv, [BindingsNext]_bindingVars, spoilt' # "torn"
             PROVE  One(key, button)' /\ Sound(packed)' /\ Sound(setting)' /\ Sound(file)'
  BY DEF OneInv
<1>1. ASSUME NEW t \in Targets, NEW k \in Keysyms \cup {NoKey}, SetKey(t, k)
      PROVE  One(key, button)' /\ Sound(packed)' /\ Sound(setting)' /\ Sound(file)'
  <2>1. One(key', button') /\ UNCHANGED disk
    BY <1>1, SetKeyOne DEF OneInv, SetKey, Changed, disk
  <2>2. Sound(packed')
    BY <1>1, <2>1, SetKeyTables, RoundTrip DEF Sound
  <2> QED BY <2>1, <2>2 DEF OneInv, Sound, One, UnpackKey, UnpackButton, disk
<1>2. ASSUME NEW t \in Targets, NEW b \in Buttons \cup {NoButton}, SetButton(t, b)
      PROVE  One(key, button)' /\ Sound(packed)' /\ Sound(setting)' /\ Sound(file)'
  <2>1. One(key', button') /\ UNCHANGED disk
    BY <1>2, SetButtonOne DEF OneInv, SetButton, Changed, disk
  <2>2. Sound(packed')
    BY <1>2, <2>1, SetButtonTables, RoundTrip DEF Sound
  <2> QED BY <2>1, <2>2 DEF OneInv, Sound, One, UnpackKey, UnpackButton, disk
<1>3. CASE BindingsReset
  BY <1>3, EmptySound, DefaultsOne DEF BindingsReset, OneInv, disk
<1>4. CASE Flush
  <2>1. UNCHANGED <<key, button, packed, calls>>
    BY <1>4, FlushFrame
  <2>2. spoilt # "torn"
    BY <1>4 DEF Flush, Store, OpenFails, Write, WriteFails, Written, Remove, Rename, RenameFails, Renamed
  <2>3. setting' \in {setting, packed} /\ file' \in {file, setting, NoValue}
    BY <1>4, <2>2 DEF Flush, Store, OpenFails, Write, WriteFails, Written, Remove, Rename, RenameFails, Renamed
  <2> QED BY <2>1, <2>2, <2>3, EmptySound DEF OneInv
<1>5. CASE Relaunch
  <2>1. spoilt # "torn" /\ packed' = {} /\ setting' = file /\ file' = file
    BY <1>5 DEF Relaunch
  <2>2. One(key', button')
    BY <1>5, <2>1 DEF Relaunch, OneInv, Sound
  <2> QED BY <2>1, <2>2, EmptySound DEF OneInv
<1>6. CASE UNCHANGED bindingVars
  BY <1>6 DEF bindingVars, OneInv
<1> QED BY <1>1, <1>2, <1>3, <1>4, <1>5, <1>6 DEF BindingsNext

\* A keysym drives one target and a button one target of each side, after any
\* number of calls, failed flushes and launches, on every set of targets.
THEOREM OneTargetAlways == BindingsSpec => []OneTarget
<1>1. BindingsInit => BindingsTypeOK /\ OneInv
  BY TypeInit, OneInit
<1>2. BindingsTypeOK /\ OneInv /\ [BindingsNext]_bindingVars => (BindingsTypeOK /\ OneInv)'
  BY TypeStep, OneStep
<1>3. OneInv => OneTarget
  BY DEF OneInv, OneTarget, One
<1> QED BY <1>1, <1>2, <1>3, PTL DEF BindingsSpec

-----------------------------------------------------------------------------
(* Durability.                                                             *)

\* The value v is the table in use.
Shows(v)   == UnpackKey(v) = key /\ UnpackButton(v) = button
DurableInv ==
    /\ pc = "store" => Shows(packed)
    /\ pc # "store" => Shows(setting)
    /\ pc \in {"open", "rename"} => settings_dirty
    /\ ~settings_dirty /\ spoilt = "no" => file = setting

LEMMA DurableInit == BindingsInit => DurableInv
BY UnpackEmpty DEF BindingsInit, DurableInv, Shows

LEMMA DurableStep == BindingsTypeOK /\ DurableInv /\ [BindingsNext]_bindingVars => DurableInv'
<1> SUFFICES ASSUME BindingsTypeOK, DurableInv, [BindingsNext]_bindingVars PROVE DurableInv'
  OBVIOUS
<1>1. ASSUME UnpackKey(packed') = key', UnpackButton(packed') = button',
             pc' = "store", UNCHANGED disk
      PROVE  DurableInv'
  BY <1>1 DEF DurableInv, Shows, disk
<1>2. ASSUME NEW t \in Targets, NEW k \in Keysyms \cup {NoKey}, SetKey(t, k) PROVE DurableInv'
  BY <1>1, <1>2, SetKeyTables, RoundTrip DEF SetKey, Changed
<1>3. ASSUME NEW t \in Targets, NEW b \in Buttons \cup {NoButton}, SetButton(t, b) PROVE DurableInv'
  BY <1>1, <1>3, SetButtonTables, RoundTrip DEF SetButton, Changed
<1>4. CASE BindingsReset
  BY <1>1, <1>4, UnpackEmpty DEF BindingsReset
<1>5. CASE Store
  BY <1>5 DEF Store, DurableInv, Shows, BindingsTypeOK
<1>6. CASE OpenFails
  BY <1>6 DEF OpenFails, DurableInv, Shows
<1>7. CASE Write \/ WriteFails
  BY <1>7 DEF Write, WriteFails, Written, DurableInv, Shows
<1>8. CASE Remove
  BY <1>8 DEF Remove, DurableInv, Shows
<1>9. CASE Rename
  BY <1>9 DEF Rename, Renamed, DurableInv, Shows
<1>10. CASE RenameFails
  BY <1>10 DEF RenameFails, Renamed, DurableInv, Shows
<1>11. CASE Relaunch
  BY <1>11 DEF Relaunch, DurableInv, Shows
<1>12. CASE UNCHANGED bindingVars
  BY <1>12 DEF bindingVars, DurableInv, Shows
<1> QED BY <1>2, <1>3, <1>4, <1>5, <1>6, <1>7, <1>8, <1>9, <1>10, <1>11, <1>12 DEF BindingsNext, Flush

\* The next launch reads the table in use, unless a flush was refused or spoilt.
THEOREM DurableAlways == BindingsSpec => []Durable
<1>1. BindingsInit => BindingsTypeOK /\ DurableInv
  BY TypeInit, DurableInit
<1>2. BindingsTypeOK /\ DurableInv /\ [BindingsNext]_bindingVars => (BindingsTypeOK /\ DurableInv)'
  BY TypeStep, DurableStep
<1>3. DurableInv => Durable
  BY DEF DurableInv, Durable, Shows
<1> QED BY <1>1, <1>2, <1>3, PTL DEF BindingsSpec

\* The file changes to the table in use, at whichever step the process dies.
THEOREM CrashSafety == BindingsSpec => CrashSafe
<1>1. DurableInv /\ [BindingsNext]_bindingVars =>
          [file' # file => \/ UnpackKey(file') = key /\ UnpackButton(file') = button
                           \/ spoilt' # "no"
                           \/ file' = NoValue]_bindingVars
  <2> SUFFICES ASSUME DurableInv, BindingsNext, file' # file
               PROVE  \/ UnpackKey(file') = key /\ UnpackButton(file') = button
                      \/ spoilt' # "no"
                      \/ file' = NoValue
    OBVIOUS
  <2>1. CASE Remove
    BY <2>1 DEF Remove
  <2>2. CASE Rename
    BY <2>2 DEF Rename, Renamed, DurableInv, Shows
  <2>3. ~Remove /\ ~Rename => FALSE
    BY DEF BindingsNext, SetKey, SetButton, Changed, BindingsReset, Flush, Store, OpenFails, Write,
           WriteFails, Written, RenameFails, Renamed, Relaunch, disk
  <2> QED BY <2>1, <2>2, <2>3
<1>2. BindingsInit => BindingsTypeOK /\ DurableInv
  BY TypeInit, DurableInit
<1>3. BindingsTypeOK /\ DurableInv /\ [BindingsNext]_bindingVars => (BindingsTypeOK /\ DurableInv)'
  BY TypeStep, DurableStep
<1> QED BY <1>1, <1>2, <1>3, PTL DEF BindingsSpec, CrashSafe
=============================================================================
