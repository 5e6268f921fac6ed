-------------------------- MODULE DebugEngine_proofs --------------------------
(***************************************************************************)
(* What holds of the debugger engine for every program, every slice length *)
(* and every number of calls: its types, that a paused machine is quiet,   *)
(* and that a step is one instruction.                                     *)
(***************************************************************************)
EXTENDS DebugEngine, TLAPS

-----------------------------------------------------------------------------
(* Types.                                                                  *)

\* Adding to the end of a list of addresses, and taking one out of its middle.
LEMMA ListFacts ==
    /\ <<>> \in Seq(Addr)
    /\ \A s \in Seq(Addr), a \in Addr : /\ Append(s, a) \in Seq(Addr)
                                        /\ Len(Append(s, a)) = Len(s) + 1
    /\ \A s \in Seq(Addr), i \in Nat :
         i \in 1..Len(s) =>
           LET t == [j \in 1..(Len(s) - 1) |-> IF j < i THEN s[j] ELSE s[j + 1]]
           IN  t \in Seq(Addr) /\ Len(t) <= Len(s)
<1>1. ASSUME NEW s \in Seq(Addr), NEW i \in 1..Len(s)
      PROVE  LET t == [j \in 1..(Len(s) - 1) |-> IF j < i THEN s[j] ELSE s[j + 1]]
             IN  t \in Seq(Addr) /\ Len(t) <= Len(s)
  <2> DEFINE t == [j \in 1..(Len(s) - 1) |-> IF j < i THEN s[j] ELSE s[j + 1]]
  <2>1. Len(s) \in Nat /\ Len(s) >= 1 /\ Len(s) - 1 \in Nat
    OBVIOUS
  <2>2. ASSUME NEW j \in 1..(Len(s) - 1) PROVE s[j] \in Addr /\ s[j + 1] \in Addr
    <3>1. j \in 1..Len(s) /\ j + 1 \in 1..Len(s)
      BY <2>1
    <3> QED BY <3>1
  <2>3. t \in [1..(Len(s) - 1) -> Addr]
    BY <2>2
  <2>4. t \in Seq(Addr) /\ Len(t) = Len(s) - 1
    BY <2>1, <2>3
  <2> QED BY <2>1, <2>4
<1> QED BY <1>1

LEMMA InitTypeOK == Init => TypeOK
BY DebugAssumption, ListFacts
   DEF Init, TypeOK, DebugTypeOK, CpuTypeOK, ThreadTypeOK, HistTypeOK

\* One instruction leaves the registers well typed.
LEMMA ExecutesType ==
    ASSUME CpuTypeOK, Executes(Prog[pc])
    PROVE  pc' \in Addr /\ r5' \in Addr
<1>1. Prog[pc] \in [op : Ops, to : Addr] /\ pc \in Addr /\ r5 \in Addr
  BY DebugAssumption DEF CpuTypeOK
<1>2. Prog[pc].to \in Addr /\ (Prog[pc].op \in {"op", "jsr"} => pc + 1 \in Addr)
  BY <1>1, DebugAssumption
<1> QED BY <1>1, <1>2 DEF Executes

\* What the assumptions on the constants say of the bounds.
LEMMA Bounds ==
    /\ SliceLen \in Nat /\ SliceLen >= 1
    /\ MaxCmds \in Nat /\ MaxBreak \in Nat
    /\ 0 \in Addr
BY DebugAssumption

LEMMA EmulatorTypeOK == TypeOK /\ Emulator => TypeOK'
<1> SUFFICES ASSUME DebugTypeOK, CpuTypeOK, ThreadTypeOK, HistTypeOK, Emulator
             PROVE  DebugTypeOK' /\ CpuTypeOK' /\ ThreadTypeOK' /\ HistTypeOK'
  BY DEF TypeOK
<1> USE Bounds
<1>1. CASE CpuExec
  <2>1. pc' \in Addr /\ r5' \in Addr
    BY <1>1, ExecutesType DEF CpuExec
  <2>2. DebugTypeOK'
    BY <1>1 DEF CpuExec, DebugTypeOK, dbgVars
  <2>3. CpuTypeOK'
    BY <1>1, <2>1 DEF CpuExec, CpuTypeOK, hookVars
  <2>4. ThreadTypeOK'
    <3>1. over' \in BOOLEAN /\ running' \in BOOLEAN /\ doExit' \in BOOLEAN
      BY <1>1 DEF CpuExec, ThreadTypeOK, hostVars
    <3>2. /\ emu' \in {"none", "boot", "run", "label", "tick", "parked", "top"}
          /\ slice' \in 0..SliceLen
          /\ emu' = "run" => slice' < SliceLen
          /\ ui' \in {"idle", "pausing", "released", "unhooked", "joining"}
          /\ ncmd' \in 0..MaxCmds
      BY <1>1 DEF CpuExec, ThreadTypeOK, uiVars
    <3> QED BY <3>1, <3>2 DEF ThreadTypeOK
  <2>5. HistTypeOK'
    BY <1>1, <2>1 DEF CpuExec, HistTypeOK
  <2> QED BY <2>2, <2>3, <2>4, <2>5
<1>2. CASE CpuBreaks
  <2>1. DebugTypeOK'
    BY <1>2
       DEF DebugTypeOK, CpuBreaks, dbgVars, hookVars, cpuVars, hostVars, uiVars,
           runVars, histVars
  <2>2. CpuTypeOK'
    BY <1>2
       DEF CpuTypeOK, CpuBreaks, dbgVars, hookVars, cpuVars, hostVars, uiVars,
           runVars, histVars
  <2>3. ThreadTypeOK'
    BY <1>2
       DEF ThreadTypeOK, CpuBreaks, dbgVars, hookVars, cpuVars, hostVars, uiVars,
           runVars, histVars
  <2>4. HistTypeOK'
    BY <1>2
       DEF HistTypeOK, CpuBreaks, dbgVars, hookVars, cpuVars, hostVars, uiVars,
           runVars, histVars
  <2> QED BY <2>1, <2>2, <2>3, <2>4
<1>3. CASE CpuLabel
  <2>1. DebugTypeOK'
    BY <1>3
       DEF DebugTypeOK, CpuLabel, Continues, dbgVars, hookVars, cpuVars, hostVars,
           uiVars, runVars, histVars
  <2>2. CpuTypeOK'
    BY <1>3
       DEF CpuTypeOK, CpuLabel, Continues, dbgVars, hookVars, cpuVars, hostVars,
           uiVars, runVars, histVars
  <2>3. ThreadTypeOK'
    BY <1>3
       DEF ThreadTypeOK, CpuLabel, Continues, dbgVars, hookVars, cpuVars, hostVars,
           uiVars, runVars, histVars
  <2>4. HistTypeOK'
    BY <1>3
       DEF HistTypeOK, CpuLabel, Continues, dbgVars, hookVars, cpuVars, hostVars,
           uiVars, runVars, histVars
  <2> QED BY <2>1, <2>2, <2>3, <2>4
<1>4. CASE TickPasses
  <2>1. DebugTypeOK'
    BY <1>4
       DEF DebugTypeOK, TickPasses, Continues, dbgVars, hookVars, cpuVars, hostVars,
           uiVars, runVars, histVars
  <2>2. CpuTypeOK'
    BY <1>4
       DEF CpuTypeOK, TickPasses, Continues, dbgVars, hookVars, cpuVars, hostVars,
           uiVars, runVars, histVars
  <2>3. ThreadTypeOK'
    BY <1>4
       DEF ThreadTypeOK, TickPasses, Continues, dbgVars, hookVars, cpuVars, hostVars,
           uiVars, runVars, histVars
  <2>4. HistTypeOK'
    BY <1>4
       DEF HistTypeOK, TickPasses, Continues, dbgVars, hookVars, cpuVars, hostVars,
           uiVars, runVars, histVars
  <2> QED BY <2>1, <2>2, <2>3, <2>4
<1>5. CASE TickParks
  <2>1. DebugTypeOK'
    BY <1>5
       DEF DebugTypeOK, TickParks, dbgVars, hookVars, cpuVars, hostVars, uiVars,
           runVars, histVars
  <2>2. CpuTypeOK'
    BY <1>5
       DEF CpuTypeOK, TickParks, dbgVars, hookVars, cpuVars, hostVars, uiVars,
           runVars, histVars
  <2>3. ThreadTypeOK'
    BY <1>5
       DEF ThreadTypeOK, TickParks, dbgVars, hookVars, cpuVars, hostVars, uiVars,
           runVars, histVars
  <2>4. HistTypeOK'
    BY <1>5
       DEF HistTypeOK, TickParks, dbgVars, hookVars, cpuVars, hostVars, uiVars,
           runVars, histVars
  <2> QED BY <2>1, <2>2, <2>3, <2>4
<1>6. CASE TickWakes
  <2>1. DebugTypeOK'
    BY <1>6
       DEF DebugTypeOK, TickWakes, StepCount, Continues, dbgVars, hookVars, cpuVars,
           hostVars, uiVars, runVars, histVars
  <2>2. CpuTypeOK'
    BY <1>6
       DEF CpuTypeOK, TickWakes, StepCount, Continues, dbgVars, hookVars, cpuVars,
           hostVars, uiVars, runVars, histVars
  <2>3. ThreadTypeOK'
    BY <1>6
       DEF ThreadTypeOK, TickWakes, StepCount, Continues, dbgVars, hookVars, cpuVars,
           hostVars, uiVars, runVars, histVars
  <2>4. HistTypeOK'
    <3>1. broke' \in BOOLEAN
      BY <1>6 DEF HistTypeOK, TickWakes, cpuVars
    <3>2. /\ last' \in {"none", "run", "step", "over", "out"}
          /\ ran' \in 0..2
      BY <1>6 DEF HistTypeOK, TickWakes, cpuVars
    <3> QED BY <3>1, <3>2 DEF HistTypeOK
  <2> QED BY <2>1, <2>2, <2>3, <2>4
<1>7. CASE LoopTop
  <2>1. DebugTypeOK'
    BY <1>7
       DEF DebugTypeOK, LoopTop, dbgVars, hookVars, cpuVars, hostVars, uiVars,
           runVars, histVars
  <2>2. CpuTypeOK'
    BY <1>7
       DEF CpuTypeOK, LoopTop, dbgVars, hookVars, cpuVars, hostVars, uiVars, runVars,
           histVars
  <2>3. ThreadTypeOK'
    <3>1. over' \in BOOLEAN /\ running' \in BOOLEAN /\ doExit' \in BOOLEAN
      BY <1>7 DEF ThreadTypeOK, LoopTop, uiVars
    <3>2. /\ emu' \in {"none", "boot", "run", "label", "tick", "parked", "top"}
          /\ slice' \in 0..SliceLen
          /\ emu' = "run" => slice' < SliceLen
          /\ ui' \in {"idle", "pausing", "released", "unhooked", "joining"}
          /\ ncmd' \in 0..MaxCmds
      BY <1>7 DEF ThreadTypeOK, LoopTop, uiVars
    <3> QED BY <3>1, <3>2 DEF ThreadTypeOK
  <2>4. HistTypeOK'
    BY <1>7
       DEF HistTypeOK, LoopTop, dbgVars, hookVars, cpuVars, hostVars, uiVars, runVars,
           histVars
  <2> QED BY <2>1, <2>2, <2>3, <2>4
<1>8. CASE Boots
  <2>1. DebugTypeOK'
    BY <1>8
       DEF DebugTypeOK, Boots, dbgVars, hookVars, cpuVars, hostVars, uiVars, runVars,
           histVars
  <2>2. CpuTypeOK'
    BY <1>8, ListFacts
       DEF CpuTypeOK, Boots, dbgVars, hookVars, cpuVars, hostVars, uiVars, runVars,
           histVars
  <2>3. ThreadTypeOK'
    <3>1. over' \in BOOLEAN /\ running' \in BOOLEAN /\ doExit' \in BOOLEAN
      BY <1>8 DEF ThreadTypeOK, Boots, hostVars, uiVars
    <3>2. /\ emu' \in {"none", "boot", "run", "label", "tick", "parked", "top"}
          /\ slice' \in 0..SliceLen
          /\ emu' = "run" => slice' < SliceLen
          /\ ui' \in {"idle", "pausing", "released", "unhooked", "joining"}
          /\ ncmd' \in 0..MaxCmds
      BY <1>8 DEF ThreadTypeOK, Boots, hostVars, uiVars
    <3> QED BY <3>1, <3>2 DEF ThreadTypeOK
  <2>4. HistTypeOK'
    BY <1>8
       DEF HistTypeOK, Boots, dbgVars, hookVars, cpuVars, hostVars, uiVars, runVars,
           histVars
  <2> QED BY <2>1, <2>2, <2>3, <2>4
<1> QED BY <1>1, <1>2, <1>3, <1>4, <1>5, <1>6, <1>7, <1>8 DEF Emulator

LEMMA BreakpointsTypeOK ==
    TypeOK /\ (BreakClearAll \/ \E a \in BreakAt : BreakToggle(a)) => TypeOK'
<1> SUFFICES ASSUME TypeOK, BreakClearAll \/ \E a \in BreakAt : BreakToggle(a)
             PROVE  TypeOK'
  OBVIOUS
<1> USE DEF TypeOK, DebugTypeOK, CpuTypeOK, ThreadTypeOK, HistTypeOK
<1>1. CASE BreakClearAll
  BY <1>1, ListFacts, DebugAssumption
     DEF BreakClearAll, BpOnly, Calls, hookVars, cpuVars, runVars, histVars, hostVars
<1>2. ASSUME NEW a \in BreakAt, BreakToggle(a) PROVE TypeOK'
  <2>1. a \in Addr /\ bps \in Seq(Addr) /\ Len(bps) \in Nat
    BY DebugAssumption
  <2>2. bps' \in Seq(Addr) /\ Len(bps') <= MaxBreak /\ bkpt' \subseteq Addr
    <3>1. CASE \E i \in 1..Len(bps) :
                 /\ bps' = [j \in 1..(Len(bps) - 1) |->
                              IF j < i THEN bps[j] ELSE bps[j + 1]]
                 /\ bkpt' = bkpt \ {a}
      BY <3>1, <2>1, ListFacts, DebugAssumption
    <3>2. CASE Len(bps) < MaxBreak /\ bps' = Append(bps, a) /\ bkpt' = bkpt \cup {a}
      BY <3>2, <2>1, ListFacts, DebugAssumption
    <3> QED BY <1>2, <3>1, <3>2 DEF BreakToggle
  <2> QED BY <1>2, <2>2, DebugAssumption
      DEF BreakToggle, BpOnly, Calls, hookVars, cpuVars, runVars, histVars, hostVars
<1> QED BY <1>1, <1>2

LEMMA InterfaceTypeOK == TypeOK /\ (Command \/ Finishes) => TypeOK'
<1> SUFFICES ASSUME DebugTypeOK, CpuTypeOK, ThreadTypeOK, HistTypeOK, Command \/ Finishes
             PROVE  DebugTypeOK' /\ CpuTypeOK' /\ ThreadTypeOK' /\ HistTypeOK'
  BY DEF TypeOK
<1>1. CASE BreakClearAll \/ \E a \in BreakAt : BreakToggle(a)
  BY <1>1, BreakpointsTypeOK DEF TypeOK
<1> USE Bounds
<1>2. CASE Engage
  <2>1. DebugTypeOK'
    BY <1>2
       DEF DebugTypeOK, Engage, UIOnly, Calls, Release, ResumeLets, dbgVars, hookVars,
           cpuVars, hostVars, uiVars, runVars, histVars
  <2>2. CpuTypeOK'
    BY <1>2
       DEF CpuTypeOK, Engage, UIOnly, Calls, Release, ResumeLets, dbgVars, hookVars,
           cpuVars, hostVars, uiVars, runVars, histVars
  <2>3. ThreadTypeOK'
    BY <1>2
       DEF ThreadTypeOK, Engage, UIOnly, Calls, Release, ResumeLets, dbgVars,
           hookVars, cpuVars, hostVars, uiVars, runVars, histVars
  <2>4. HistTypeOK'
    BY <1>2
       DEF HistTypeOK, Engage, UIOnly, Calls, Release, ResumeLets, dbgVars, hookVars,
           cpuVars, hostVars, uiVars, runVars, histVars
  <2> QED BY <2>1, <2>2, <2>3, <2>4
<1>3. CASE Pause
  <2>1. DebugTypeOK'
    BY <1>3
       DEF DebugTypeOK, Pause, UIOnly, Calls, Release, ResumeLets, dbgVars, hookVars,
           cpuVars, hostVars, uiVars, runVars, histVars
  <2>2. CpuTypeOK'
    BY <1>3
       DEF CpuTypeOK, Pause, UIOnly, Calls, Release, ResumeLets, dbgVars, hookVars,
           cpuVars, hostVars, uiVars, runVars, histVars
  <2>3. ThreadTypeOK'
    BY <1>3
       DEF ThreadTypeOK, Pause, UIOnly, Calls, Release, ResumeLets, dbgVars, hookVars,
           cpuVars, hostVars, uiVars, runVars, histVars
  <2>4. HistTypeOK'
    BY <1>3
       DEF HistTypeOK, Pause, UIOnly, Calls, Release, ResumeLets, dbgVars, hookVars,
           cpuVars, hostVars, uiVars, runVars, histVars
  <2> QED BY <2>1, <2>2, <2>3, <2>4
<1>4. CASE PauseCounts
  <2>1. DebugTypeOK'
    BY <1>4
       DEF DebugTypeOK, PauseCounts, UIOnly, Calls, Release, ResumeLets, dbgVars,
           hookVars, cpuVars, hostVars, uiVars, runVars, histVars
  <2>2. CpuTypeOK'
    BY <1>4
       DEF CpuTypeOK, PauseCounts, UIOnly, Calls, Release, ResumeLets, dbgVars,
           hookVars, cpuVars, hostVars, uiVars, runVars, histVars
  <2>3. ThreadTypeOK'
    BY <1>4
       DEF ThreadTypeOK, PauseCounts, UIOnly, Calls, Release, ResumeLets, dbgVars,
           hookVars, cpuVars, hostVars, uiVars, runVars, histVars
  <2>4. HistTypeOK'
    BY <1>4
       DEF HistTypeOK, PauseCounts, UIOnly, Calls, Release, ResumeLets, dbgVars,
           hookVars, cpuVars, hostVars, uiVars, runVars, histVars
  <2> QED BY <2>1, <2>2, <2>3, <2>4
<1>5. CASE Resume
  <2>1. DebugTypeOK'
    BY <1>5
       DEF DebugTypeOK, Resume, UIOnly, Calls, Release, ResumeLets, dbgVars, hookVars,
           cpuVars, hostVars, uiVars, runVars, histVars
  <2>2. CpuTypeOK'
    BY <1>5
       DEF CpuTypeOK, Resume, UIOnly, Calls, Release, ResumeLets, dbgVars, hookVars,
           cpuVars, hostVars, uiVars, runVars, histVars
  <2>3. ThreadTypeOK'
    BY <1>5
       DEF ThreadTypeOK, Resume, UIOnly, Calls, Release, ResumeLets, dbgVars,
           hookVars, cpuVars, hostVars, uiVars, runVars, histVars
  <2>4. HistTypeOK'
    BY <1>5
       DEF HistTypeOK, Resume, UIOnly, Calls, Release, ResumeLets, dbgVars, hookVars,
           cpuVars, hostVars, uiVars, runVars, histVars
  <2> QED BY <2>1, <2>2, <2>3, <2>4
<1>6. CASE Step
  <2>1. DebugTypeOK'
    BY <1>6
       DEF DebugTypeOK, Step, UIOnly, Calls, Release, ResumeLets, dbgVars, hookVars,
           cpuVars, hostVars, uiVars, runVars, histVars
  <2>2. CpuTypeOK'
    BY <1>6
       DEF CpuTypeOK, Step, UIOnly, Calls, Release, ResumeLets, dbgVars, hookVars,
           cpuVars, hostVars, uiVars, runVars, histVars
  <2>3. ThreadTypeOK'
    BY <1>6
       DEF ThreadTypeOK, Step, UIOnly, Calls, Release, ResumeLets, dbgVars, hookVars,
           cpuVars, hostVars, uiVars, runVars, histVars
  <2>4. HistTypeOK'
    BY <1>6
       DEF HistTypeOK, Step, UIOnly, Calls, Release, ResumeLets, dbgVars, hookVars,
           cpuVars, hostVars, uiVars, runVars, histVars
  <2> QED BY <2>1, <2>2, <2>3, <2>4
<1>7. CASE StepOver
  <2>1. DebugTypeOK'
    BY <1>7
       DEF DebugTypeOK, StepOver, UIOnly, Calls, Release, ResumeLets, dbgVars,
           hookVars, cpuVars, hostVars, uiVars, runVars, histVars
  <2>2. CpuTypeOK'
    BY <1>7, DebugAssumption
       DEF CpuTypeOK, StepOver, UIOnly, Calls, Release, ResumeLets, dbgVars, hookVars,
           cpuVars, hostVars, uiVars, runVars, histVars
  <2>3. ThreadTypeOK'
    BY <1>7
       DEF ThreadTypeOK, StepOver, UIOnly, Calls, Release, ResumeLets, dbgVars,
           hookVars, cpuVars, hostVars, uiVars, runVars, histVars
  <2>4. HistTypeOK'
    BY <1>7
       DEF HistTypeOK, StepOver, UIOnly, Calls, Release, ResumeLets, dbgVars,
           hookVars, cpuVars, hostVars, uiVars, runVars, histVars
  <2> QED BY <2>1, <2>2, <2>3, <2>4
<1>8. CASE StepOut
  <2>1. DebugTypeOK'
    BY <1>8
       DEF DebugTypeOK, StepOut, UIOnly, Calls, Release, ResumeLets, dbgVars,
           hookVars, cpuVars, hostVars, uiVars, runVars, histVars
  <2>2. CpuTypeOK'
    BY <1>8
       DEF CpuTypeOK, StepOut, UIOnly, Calls, Release, ResumeLets, dbgVars, hookVars,
           cpuVars, hostVars, uiVars, runVars, histVars
  <2>3. ThreadTypeOK'
    BY <1>8
       DEF ThreadTypeOK, StepOut, UIOnly, Calls, Release, ResumeLets, dbgVars,
           hookVars, cpuVars, hostVars, uiVars, runVars, histVars
  <2>4. HistTypeOK'
    BY <1>8
       DEF HistTypeOK, StepOut, UIOnly, Calls, Release, ResumeLets, dbgVars, hookVars,
           cpuVars, hostVars, uiVars, runVars, histVars
  <2> QED BY <2>1, <2>2, <2>3, <2>4
<1>9. CASE Disengage
  <2>1. DebugTypeOK'
    BY <1>9
       DEF DebugTypeOK, Disengage, UIOnly, Calls, Release, ResumeLets, dbgVars,
           hookVars, cpuVars, hostVars, uiVars, runVars, histVars
  <2>2. CpuTypeOK'
    BY <1>9
       DEF CpuTypeOK, Disengage, UIOnly, Calls, Release, ResumeLets, dbgVars,
           hookVars, cpuVars, hostVars, uiVars, runVars, histVars
  <2>3. ThreadTypeOK'
    BY <1>9
       DEF ThreadTypeOK, Disengage, UIOnly, Calls, Release, ResumeLets, dbgVars,
           hookVars, cpuVars, hostVars, uiVars, runVars, histVars
  <2>4. HistTypeOK'
    BY <1>9
       DEF HistTypeOK, Disengage, UIOnly, Calls, Release, ResumeLets, dbgVars,
           hookVars, cpuVars, hostVars, uiVars, runVars, histVars
  <2> QED BY <2>1, <2>2, <2>3, <2>4
<1>10. CASE Unhook
  <2>1. DebugTypeOK'
    BY <1>10
       DEF DebugTypeOK, Unhook, UIOnly, Calls, Release, ResumeLets, dbgVars, hookVars,
           cpuVars, hostVars, uiVars, runVars, histVars
  <2>2. CpuTypeOK'
    BY <1>10
       DEF CpuTypeOK, Unhook, UIOnly, Calls, Release, ResumeLets, dbgVars, hookVars,
           cpuVars, hostVars, uiVars, runVars, histVars
  <2>3. ThreadTypeOK'
    BY <1>10
       DEF ThreadTypeOK, Unhook, UIOnly, Calls, Release, ResumeLets, dbgVars,
           hookVars, cpuVars, hostVars, uiVars, runVars, histVars
  <2>4. HistTypeOK'
    BY <1>10
       DEF HistTypeOK, Unhook, UIOnly, Calls, Release, ResumeLets, dbgVars, hookVars,
           cpuVars, hostVars, uiVars, runVars, histVars
  <2> QED BY <2>1, <2>2, <2>3, <2>4
<1>11. CASE SetFree
  <2>1. DebugTypeOK'
    BY <1>11
       DEF DebugTypeOK, SetFree, UIOnly, Calls, Release, ResumeLets, dbgVars,
           hookVars, cpuVars, hostVars, uiVars, runVars, histVars
  <2>2. CpuTypeOK'
    BY <1>11
       DEF CpuTypeOK, SetFree, UIOnly, Calls, Release, ResumeLets, dbgVars, hookVars,
           cpuVars, hostVars, uiVars, runVars, histVars
  <2>3. ThreadTypeOK'
    BY <1>11
       DEF ThreadTypeOK, SetFree, UIOnly, Calls, Release, ResumeLets, dbgVars,
           hookVars, cpuVars, hostVars, uiVars, runVars, histVars
  <2>4. HistTypeOK'
    BY <1>11
       DEF HistTypeOK, SetFree, UIOnly, Calls, Release, ResumeLets, dbgVars, hookVars,
           cpuVars, hostVars, uiVars, runVars, histVars
  <2> QED BY <2>1, <2>2, <2>3, <2>4
<1>12. CASE HostStop
  <2>1. DebugTypeOK'
    BY <1>12
       DEF DebugTypeOK, HostStop, UIOnly, Calls, Release, ResumeLets, dbgVars,
           hookVars, cpuVars, hostVars, uiVars, runVars, histVars
  <2>2. CpuTypeOK'
    BY <1>12
       DEF CpuTypeOK, HostStop, UIOnly, Calls, Release, ResumeLets, dbgVars, hookVars,
           cpuVars, hostVars, uiVars, runVars, histVars
  <2>3. ThreadTypeOK'
    BY <1>12
       DEF ThreadTypeOK, HostStop, UIOnly, Calls, Release, ResumeLets, dbgVars,
           hookVars, cpuVars, hostVars, uiVars, runVars, histVars
  <2>4. HistTypeOK'
    BY <1>12
       DEF HistTypeOK, HostStop, UIOnly, Calls, Release, ResumeLets, dbgVars,
           hookVars, cpuVars, hostVars, uiVars, runVars, histVars
  <2> QED BY <2>1, <2>2, <2>3, <2>4
<1>13. CASE HostJoined
  <2>1. DebugTypeOK'
    BY <1>13
       DEF DebugTypeOK, HostJoined, UIOnly, Calls, Release, ResumeLets, dbgVars,
           hookVars, cpuVars, hostVars, uiVars, runVars, histVars
  <2>2. CpuTypeOK'
    BY <1>13
       DEF CpuTypeOK, HostJoined, UIOnly, Calls, Release, ResumeLets, dbgVars,
           hookVars, cpuVars, hostVars, uiVars, runVars, histVars
  <2>3. ThreadTypeOK'
    BY <1>13
       DEF ThreadTypeOK, HostJoined, UIOnly, Calls, Release, ResumeLets, dbgVars,
           hookVars, cpuVars, hostVars, uiVars, runVars, histVars
  <2>4. HistTypeOK'
    BY <1>13
       DEF HistTypeOK, HostJoined, UIOnly, Calls, Release, ResumeLets, dbgVars,
           hookVars, cpuVars, hostVars, uiVars, runVars, histVars
  <2> QED BY <2>1, <2>2, <2>3, <2>4
<1>14. CASE HostStart
  <2>1. DebugTypeOK'
    BY <1>14
       DEF DebugTypeOK, HostStart, UIOnly, Calls, Release, ResumeLets, dbgVars,
           hookVars, cpuVars, hostVars, uiVars, runVars, histVars
  <2>2. CpuTypeOK'
    BY <1>14
       DEF CpuTypeOK, HostStart, UIOnly, Calls, Release, ResumeLets, dbgVars,
           hookVars, cpuVars, hostVars, uiVars, runVars, histVars
  <2>3. ThreadTypeOK'
    <3>1. over' \in BOOLEAN /\ running' \in BOOLEAN /\ doExit' \in BOOLEAN
      BY <1>14 DEF ThreadTypeOK, HostStart, Calls
    <3>2. /\ emu' \in {"none", "boot", "run", "label", "tick", "parked", "top"}
          /\ slice' \in 0..SliceLen
          /\ emu' = "run" => slice' < SliceLen
          /\ ui' \in {"idle", "pausing", "released", "unhooked", "joining"}
          /\ ncmd' \in 0..MaxCmds
      BY <1>14 DEF ThreadTypeOK, HostStart, Calls
    <3> QED BY <3>1, <3>2 DEF ThreadTypeOK
  <2>4. HistTypeOK'
    BY <1>14
       DEF HistTypeOK, HostStart, UIOnly, Calls, Release, ResumeLets, dbgVars,
           hookVars, cpuVars, hostVars, uiVars, runVars, histVars
  <2> QED BY <2>1, <2>2, <2>3, <2>4
<1> QED BY <1>1, <1>2, <1>3, <1>4, <1>5, <1>6, <1>7, <1>8, <1>9, <1>10, <1>11, <1>12, <1>13, <1>14
    DEF Command, Finishes

\* The types of the engine, the CPU and the threads hold in every reachable
\* state, for every program and every bound.
THEOREM TypeCorrect == Spec => []TypeOK
<1>1. TypeOK /\ [Next]_vars => TypeOK'
  <2> SUFFICES ASSUME TypeOK, [Next]_vars PROVE TypeOK'
    OBVIOUS
  <2>1. CASE UNCHANGED vars
    BY <2>1 DEF TypeOK, DebugTypeOK, CpuTypeOK, ThreadTypeOK, HistTypeOK, vars, dbgVars,
                hookVars, cpuVars, hostVars, uiVars, runVars, histVars
  <2> QED BY <2>1, EmulatorTypeOK, InterfaceTypeOK DEF Next
<1> QED BY <1>1, InitTypeOK, PTL DEF Spec

-----------------------------------------------------------------------------
(* A paused machine is quiet.                                              *)

LEMMA QuietStep == QuietInv /\ [Next]_vars => QuietInv'
<1> SUFFICES ASSUME QuietInv, [Next]_vars PROVE QuietInv'
  OBVIOUS
<1> USE DEF QuietInv, InspectQuiet
<1>1. CASE CpuExec
  BY <1>1 DEF CpuExec, dbgVars, hookVars, cpuVars, hostVars, uiVars, runVars, histVars
<1>2. CASE CpuBreaks
  BY <1>2 DEF CpuBreaks, dbgVars, hookVars, cpuVars, hostVars, uiVars, runVars, histVars
<1>3. CASE CpuLabel
  BY <1>3
     DEF CpuLabel, Continues, dbgVars, hookVars, cpuVars, hostVars, uiVars, runVars,
         histVars
<1>4. CASE TickPasses
  BY <1>4
     DEF TickPasses, Continues, dbgVars, hookVars, cpuVars, hostVars, uiVars,
         runVars, histVars
<1>5. CASE TickParks
  BY <1>5 DEF TickParks, dbgVars, hookVars, cpuVars, hostVars, uiVars, runVars, histVars
<1>6. CASE TickWakes
  BY <1>6
     DEF TickWakes, StepCount, Continues, dbgVars, hookVars, cpuVars, hostVars,
         uiVars, runVars, histVars
<1>7. CASE LoopTop
  BY <1>7 DEF LoopTop, dbgVars, hookVars, cpuVars, hostVars, uiVars, runVars, histVars
<1>8. CASE Boots
  BY <1>8 DEF Boots, dbgVars, hookVars, cpuVars, hostVars, uiVars, runVars, histVars
<1>9. CASE Engage
  BY <1>9
     DEF Engage, UIOnly, dbgVars, hookVars, cpuVars, hostVars, uiVars, runVars,
         histVars
<1>10. CASE Pause \/ PauseCounts
  BY <1>10
     DEF Pause, PauseCounts, UIOnly, dbgVars, hookVars, cpuVars, hostVars, uiVars,
         runVars, histVars
<1>11. CASE Resume \/ Step
  BY <1>11
     DEF Resume, Step, ResumeLets, Release, UIOnly, dbgVars, hookVars, cpuVars,
         hostVars, uiVars, runVars, histVars
<1>12. CASE StepOver \/ StepOut
  BY <1>12
     DEF StepOver, StepOut, Release, UIOnly, dbgVars, hookVars, cpuVars, hostVars,
         uiVars, runVars, histVars
<1>13. CASE Disengage
  BY <1>13
     DEF Disengage, ResumeLets, Release, UIOnly, dbgVars, hookVars, cpuVars,
         hostVars, uiVars, runVars, histVars
<1>14. CASE Unhook \/ SetFree
  BY <1>14
     DEF Unhook, SetFree, UIOnly, dbgVars, hookVars, cpuVars, hostVars, uiVars,
         runVars, histVars
<1>15. CASE BreakClearAll \/ \E a \in BreakAt : BreakToggle(a)
  BY <1>15
     DEF BreakClearAll, BreakToggle, BpOnly, dbgVars, hookVars, cpuVars, hostVars,
         uiVars, runVars, histVars
<1>16. CASE HostStop \/ HostJoined
  BY <1>16
     DEF HostStop, HostJoined, dbgVars, hookVars, cpuVars, hostVars, uiVars,
         runVars, histVars
<1>17. CASE HostStart
  BY <1>17
     DEF HostStart, dbgVars, hookVars, cpuVars, hostVars, uiVars, runVars, histVars
<1>18. CASE UNCHANGED vars
  BY <1>18 DEF vars, dbgVars, hookVars, cpuVars, hostVars, uiVars, runVars, histVars
<1> QED BY <1>1, <1>2, <1>3, <1>4, <1>5, <1>6, <1>7, <1>8, <1>9,
          <1>10, <1>11, <1>12, <1>13, <1>14, <1>15, <1>16, <1>17, <1>18
       DEF Next, Emulator, Finishes, Command

\* While d->paused reads true the emulator thread is inside the hook, after any
\* sequence of calls, stops and starts, for every program.
THEOREM PausedIsQuiet == Spec => []InspectQuiet
<1>1. Init => QuietInv
  BY DEF Init, QuietInv, InspectQuiet
<1>2. QuietInv => InspectQuiet
  BY DEF QuietInv
<1> QED BY <1>1, <1>2, QuietStep, PTL DEF Spec

-----------------------------------------------------------------------------
(* A step is one instruction.                                              *)

LEMMA StepStep == QuietInv /\ StepInv /\ [Next]_vars => StepInv'
<1> SUFFICES ASSUME QuietInv, StepInv, [Next]_vars PROVE StepInv'
  OBVIOUS
<1> USE DEF QuietInv, InspectQuiet, StepInv, StepIsOne, StepUnderway
<1>1. CASE CpuExec
  BY <1>1 DEF CpuExec, dbgVars, hookVars, cpuVars, hostVars, uiVars, runVars, histVars
<1>2. CASE CpuBreaks
  BY <1>2 DEF CpuBreaks, AtBreak, dbgVars, hookVars, cpuVars, hostVars, uiVars, runVars, histVars
<1>3. CASE CpuLabel
  BY <1>3
     DEF CpuLabel, Continues, dbgVars, hookVars, cpuVars, hostVars, uiVars, runVars,
         histVars
<1>4. CASE TickPasses
  BY <1>4
     DEF TickPasses, Continues, dbgVars, hookVars, cpuVars, hostVars, uiVars,
         runVars, histVars
<1>5. CASE TickParks
  BY <1>5 DEF TickParks, dbgVars, hookVars, cpuVars, hostVars, uiVars, runVars, histVars
<1>6. CASE TickWakes
  BY <1>6
     DEF TickWakes, StepCount, Continues, dbgVars, hookVars, cpuVars, hostVars,
         uiVars, runVars, histVars
<1>7. CASE LoopTop
  BY <1>7 DEF LoopTop, dbgVars, hookVars, cpuVars, hostVars, uiVars, runVars, histVars
<1>8. CASE Boots
  BY <1>8 DEF Boots, dbgVars, hookVars, cpuVars, hostVars, uiVars, runVars, histVars
<1>9. CASE Engage
  BY <1>9
     DEF Engage, UIOnly, dbgVars, hookVars, cpuVars, hostVars, uiVars, runVars,
         histVars
<1>10. CASE Pause \/ PauseCounts
  BY <1>10
     DEF Pause, PauseCounts, UIOnly, dbgVars, hookVars, cpuVars, hostVars, uiVars,
         runVars, histVars
<1>11. CASE Resume \/ Step
  BY <1>11
     DEF Calls, Resume, Step, ResumeLets, Release, UIOnly, dbgVars, hookVars, cpuVars,
         hostVars, uiVars, runVars, histVars
<1>12. CASE StepOver \/ StepOut
  BY <1>12
     DEF Calls, StepOver, StepOut, Release, UIOnly, dbgVars, hookVars, cpuVars, hostVars,
         uiVars, runVars, histVars
<1>13. CASE Disengage
  BY <1>13
     DEF Disengage, ResumeLets, Release, UIOnly, dbgVars, hookVars, cpuVars,
         hostVars, uiVars, runVars, histVars
<1>14. CASE Unhook \/ SetFree
  BY <1>14
     DEF Unhook, SetFree, UIOnly, dbgVars, hookVars, cpuVars, hostVars, uiVars,
         runVars, histVars
<1>15. CASE BreakClearAll \/ \E a \in BreakAt : BreakToggle(a)
  BY <1>15
     DEF BreakClearAll, BreakToggle, BpOnly, dbgVars, hookVars, cpuVars, hostVars,
         uiVars, runVars, histVars
<1>16. CASE HostStop \/ HostJoined
  BY <1>16
     DEF HostStop, HostJoined, dbgVars, hookVars, cpuVars, hostVars, uiVars,
         runVars, histVars
<1>17. CASE HostStart
  BY <1>17
     DEF HostStart, dbgVars, hookVars, cpuVars, hostVars, uiVars, runVars, histVars
<1>18. CASE UNCHANGED vars
  BY <1>18 DEF vars, dbgVars, hookVars, cpuVars, hostVars, uiVars, runVars, histVars
<1> QED BY <1>1, <1>2, <1>3, <1>4, <1>5, <1>6, <1>7, <1>8, <1>9,
          <1>10, <1>11, <1>12, <1>13, <1>14, <1>15, <1>16, <1>17, <1>18
       DEF Next, Emulator, Finishes, Command

\* Whatever happens between a step and the stop that follows it, exactly one
\* instruction was executed, for every program and every slice length.
THEOREM StepIsExact == Spec => []StepIsOne
<1>1. Init => QuietInv /\ StepInv
  BY DEF Init, QuietInv, InspectQuiet, StepInv, StepIsOne, StepUnderway
<1>2. StepInv => StepIsOne
  BY DEF StepInv
<1> QED BY <1>1, <1>2, QuietStep, StepStep, PTL DEF Spec

-----------------------------------------------------------------------------
(* A machine that was resumed stops at a breakpoint.                       *)

\* A breakpoint that is pending was met since the machine last woke up; a
\* machine in the hook has none; and one that was told to run is not in the
\* mode that stops it anyway.
BreakInv == /\ NoSpuriousStop
            /\ hit => broke
            /\ emu = "parked" => ~hit
            /\ last = "run" => ~stepMode

LEMMA BreakStep == BreakInv /\ [Next]_vars => BreakInv'
<1> SUFFICES ASSUME BreakInv, [Next]_vars PROVE BreakInv'
  OBVIOUS
<1> USE DEF BreakInv, NoSpuriousStop
<1>1. CASE CpuExec
  BY <1>1 DEF CpuExec, dbgVars, hookVars, cpuVars, hostVars, uiVars, runVars, histVars
<1>2. CASE CpuBreaks
  BY <1>2 DEF CpuBreaks, dbgVars, hookVars, cpuVars, hostVars, uiVars, runVars, histVars
<1>3. CASE CpuLabel
  BY <1>3
     DEF CpuLabel, Continues, dbgVars, hookVars, cpuVars, hostVars, uiVars, runVars,
         histVars
<1>4. CASE TickPasses
  BY <1>4
     DEF TickPasses, Continues, dbgVars, hookVars, cpuVars, hostVars, uiVars,
         runVars, histVars
<1>5. CASE TickParks
  BY <1>5 DEF TickParks, dbgVars, hookVars, cpuVars, hostVars, uiVars, runVars, histVars
<1>6. CASE TickWakes
  BY <1>6
     DEF TickWakes, StepCount, Continues, dbgVars, hookVars, cpuVars, hostVars,
         uiVars, runVars, histVars
<1>7. CASE LoopTop
  BY <1>7 DEF LoopTop, dbgVars, hookVars, cpuVars, hostVars, uiVars, runVars, histVars
<1>8. CASE Boots
  BY <1>8 DEF Boots, dbgVars, hookVars, cpuVars, hostVars, uiVars, runVars, histVars
<1>9. CASE Engage
  BY <1>9
     DEF Engage, UIOnly, dbgVars, hookVars, cpuVars, hostVars, uiVars, runVars,
         histVars
<1>10. CASE Pause \/ PauseCounts
  BY <1>10
     DEF Pause, PauseCounts, UIOnly, dbgVars, hookVars, cpuVars, hostVars, uiVars,
         runVars, histVars
<1>11. CASE Resume \/ Step
  BY <1>11
     DEF Resume, Step, ResumeLets, Release, UIOnly, dbgVars, hookVars, cpuVars,
         hostVars, uiVars, runVars, histVars
<1>12. CASE StepOver \/ StepOut
  BY <1>12
     DEF StepOver, StepOut, Release, UIOnly, dbgVars, hookVars, cpuVars, hostVars,
         uiVars, runVars, histVars
<1>13. CASE Disengage
  BY <1>13
     DEF Disengage, ResumeLets, Release, UIOnly, dbgVars, hookVars, cpuVars,
         hostVars, uiVars, runVars, histVars
<1>14. CASE Unhook \/ SetFree
  BY <1>14
     DEF Unhook, SetFree, UIOnly, dbgVars, hookVars, cpuVars, hostVars, uiVars,
         runVars, histVars
<1>15. CASE BreakClearAll \/ \E a \in BreakAt : BreakToggle(a)
  BY <1>15
     DEF BreakClearAll, BreakToggle, BpOnly, dbgVars, hookVars, cpuVars, hostVars,
         uiVars, runVars, histVars
<1>16. CASE HostStop \/ HostJoined
  BY <1>16
     DEF HostStop, HostJoined, dbgVars, hookVars, cpuVars, hostVars, uiVars,
         runVars, histVars
<1>17. CASE HostStart
  BY <1>17
     DEF HostStart, dbgVars, hookVars, cpuVars, hostVars, uiVars, runVars, histVars
<1>18. CASE UNCHANGED vars
  BY <1>18 DEF vars, dbgVars, hookVars, cpuVars, hostVars, uiVars, runVars, histVars
<1> QED BY <1>1, <1>2, <1>3, <1>4, <1>5, <1>6, <1>7, <1>8, <1>9,
          <1>10, <1>11, <1>12, <1>13, <1>14, <1>15, <1>16, <1>17, <1>18
       DEF Next, Emulator, Finishes, Command

\* After intvdebug_resume the machine stops only at a breakpoint it has come
\* to since, whatever pauses, steps and restarts went before, for every
\* program.
THEOREM ResumedStopsAtBreak == Spec => []NoSpuriousStop
<1>1. Init => BreakInv
  BY DEF Init, BreakInv, NoSpuriousStop
<1>2. BreakInv => NoSpuriousStop
  BY DEF BreakInv
<1> QED BY <1>1, <1>2, BreakStep, PTL DEF Spec

-----------------------------------------------------------------------------
(* What the windows rely on.                                               *)

Armed == hit \/ bkpt \cup once # {}
Marked == {bps[i] : i \in DOMAIN bps}

LEMMA InitStop == Init => Stop!StopInit
BY ListFacts DEF Init, Stop!StopInit

\* A step of the emulator thread is a stop, the end of a breakpoint that was
\* met, or nothing.
LEMMA EmulatorStop ==
    ASSUME QuietInv, Emulator
    PROVE  [Stop!StopNext]_(Stop!stopVars)
<1> USE DEF QuietInv, InspectQuiet
<1>1. CASE CpuExec \/ CpuLabel \/ TickPasses \/ TickWakes
  BY <1>1 DEF CpuExec, CpuLabel, TickPasses, TickWakes, dbgVars, runVars, Stop!stopVars
<1>2. CASE CpuBreaks
  <2>1. Armed /\ hit' /\ UNCHANGED <<paused, stepMode, serial, bps>>
    BY <1>2 DEF CpuBreaks, AtBreak, Armed, dbgVars
  <2> QED BY <2>1 DEF Armed, Stop!stopVars
<1>3. CASE TickParks
  <2>1. ~paused /\ paused' /\ serial' = serial + 1 /\ (stepMode \/ Armed)
    BY <1>3 DEF TickParks, Armed
  <2>2. Armed' \in {Armed, FALSE} /\ UNCHANGED <<stepMode, bps>>
    BY <1>3 DEF TickParks, Armed
  <2>3. Stop!Stops
    BY <1>3, <2>1, <2>2 DEF TickParks, Armed, Stop!Stops
  <2> QED BY <2>3 DEF Stop!StopNext
<1>4. CASE LoopTop \/ Boots
  <2>1. UNCHANGED <<paused, stepMode, serial, bps, bkpt, once>> /\ hit' = FALSE
    BY <1>4 DEF LoopTop, Boots, dbgVars
  <2>2. CASE Armed' = Armed
    BY <2>1, <2>2 DEF Armed, Stop!stopVars
  <2>3. CASE Armed' # Armed
    <3>1. Armed /\ Armed' = FALSE
      BY <2>1, <2>3 DEF Armed
    <3>2. Stop!Lapses
      BY <2>1, <3>1 DEF Armed, Stop!Lapses
    <3> QED BY <3>2 DEF Stop!StopNext
  <2> QED BY <2>2, <2>3
<1> QED BY <1>1, <1>2, <1>3, <1>4 DEF Emulator

\* A command is one of what a window may ask for.
LEMMA ReleaseStop ==
    ASSUME NEW mode \in BOOLEAN, NEW cmd, NEW one \in BOOLEAN,
           Release(mode, cmd), UNCHANGED <<serial, bps, hit, bkpt>>,
           IF one THEN \E a : once' = once \cup {a} ELSE once' = once
    PROVE  Stop!StopNext
<1>1. Stop!LetsGo(mode, one)
  BY DEF Release, Stop!LetsGo
<1> QED BY <1>1 DEF Stop!StopNext

LEMMA CallStop ==
    ASSUME TypeOK, Command \/ Finishes
    PROVE  [Stop!StopNext]_(Stop!stopVars)
<1> USE DEF UIOnly, runVars
<1>1. CASE Engage \/ PauseCounts \/ Unhook \/ SetFree \/ HostJoined \/ HostStop \/ HostStart
  BY <1>1 DEF Engage, PauseCounts, Unhook, SetFree, HostJoined, HostStop, HostStart, dbgVars, Stop!stopVars
<1>2. CASE Pause
  <2>1. Stop!Asks
    BY <1>2 DEF Pause, Stop!Asks
  <2> QED BY <2>1 DEF Stop!StopNext
<1>3. CASE Resume
  BY <1>3, ReleaseStop DEF Resume, ResumeLets
<1>4. CASE Step
  BY <1>4, ReleaseStop DEF Step
<1>5. CASE StepOver
  BY <1>5, ReleaseStop DEF StepOver
<1>6. CASE StepOut
  BY <1>6, ReleaseStop DEF StepOut
<1>7. CASE Disengage
  <2>1. CASE ResumeLets
    BY <1>7, <2>1, ReleaseStop DEF Disengage, ResumeLets
  <2>2. CASE ~ResumeLets
    BY <1>7, <2>2 DEF Disengage, Stop!stopVars
  <2> QED BY <2>1, <2>2
<1>8. CASE \E a \in BreakAt : BreakToggle(a)
  <2> PICK a \in BreakAt : BreakToggle(a)
    BY <1>8
  <2>1. bps \in Seq(Addr) /\ BreakAt \subseteq Addr
    BY DebugAssumption DEF TypeOK, DebugTypeOK
  <2>2. UNCHANGED <<paused, stepMode, serial, once, hit>>
    BY DEF BreakToggle, BpOnly
  <2>3. CASE \E i \in 1..Len(bps) :
               /\ bps[i] = a
               /\ bps' = [j \in 1..(Len(bps) - 1) |-> IF j < i THEN bps[j] ELSE bps[j + 1]]
               /\ bkpt' = bkpt \ {a}
    <3>1. Marked' \subseteq Marked /\ Marked \subseteq Addr
      BY <2>1, <2>3 DEF Marked
    <3>2. Armed' \in {Armed, FALSE}
      BY <2>2, <2>3 DEF Armed
    <3> PICK m \in SUBSET Addr : m = Marked'
      BY <3>1
    <3>3. Stop!Marks(m)
      BY <2>2, <3>1, <3>2 DEF Marked, Armed, Stop!Marks
    <3> QED BY <3>3 DEF Stop!StopNext
  <2>4. CASE /\ \A i \in 1..Len(bps) : bps[i] # a
             /\ bps' = Append(bps, a)
             /\ bkpt' = bkpt \cup {a}
    <3>1. Marked' = Marked \cup {a} /\ a \notin Marked /\ Marked' \subseteq Addr
      BY <2>1, <2>4 DEF Marked
    <3>2. Armed' = TRUE
      BY <2>2, <2>4 DEF Armed
    <3> PICK m \in SUBSET Addr : m = Marked'
      BY <3>1
    <3>3. Stop!Marks(m)
      BY <2>2, <3>1, <3>2 DEF Marked, Armed, Stop!Marks
    <3> QED BY <3>3 DEF Stop!StopNext
  <2> QED BY <2>3, <2>4 DEF BreakToggle
<1>9. CASE BreakClearAll
  <2>1. UNCHANGED <<paused, stepMode, serial, once, hit>>
    BY <1>9 DEF BreakClearAll, BpOnly
  <2>2. Marked' = {}
    BY <1>9, ListFacts DEF BreakClearAll, Marked
  <2>4. Armed' \in {Armed, FALSE}
    <3>1. bkpt' \subseteq bkpt
      BY <1>9 DEF BreakClearAll
    <3> QED BY <2>1, <3>1 DEF Armed
  <2>3. Stop!Marks({})
    BY <2>1, <2>2, <2>4 DEF Marked, Armed, Stop!Marks
  <2> QED BY <2>3 DEF Stop!StopNext
<1> QED BY <1>1, <1>2, <1>3, <1>4, <1>5, <1>6, <1>7, <1>8, <1>9 DEF Command, Finishes

\* The engine with its CPU, its hook and its two threads implements the
\* StopEngine its windows are drawn from, for every program and every table of
\* breakpoints: no stop without a request or a breakpoint, each with a new
\* serial, none while it stands.
THEOREM EngineImplementsStops == Spec => StopSpec
<1>1. QuietInv /\ TypeOK /\ [Next]_vars => [Stop!StopNext]_(Stop!stopVars)
  <2>1. UNCHANGED vars => UNCHANGED Stop!stopVars
    BY DEF vars, dbgVars, runVars, Stop!stopVars
  <2> QED BY <2>1, EmulatorStop, CallStop DEF Next
<1>2. Init => QuietInv
  BY DEF Init, QuietInv, InspectQuiet
<1>3. Spec => []QuietInv
  BY <1>2, QuietStep, PTL DEF Spec
<1> QED BY <1>1, <1>3, InitStop, TypeCorrect, PTL DEF Spec, StopSpec, Stop!StopSpec

=============================================================================
