--------------------------- MODULE RomPush_proofs ---------------------------
(***************************************************************************)
(* What holds of a ROM push for every set of titles, every ROM and .cfg    *)
(* length, every number of transactions and faults: its types, one         *)
(* cartridge on the bus, no stale code in the CPU, a mailbox window with   *)
(* one owner, honest progress, failures that change nothing, and a slot    *)
(* that takes whole cartridges only (CartSlot).                            *)
(***************************************************************************)
EXTENDS RomPush, FiniteSetTheorems, TLAPS

-----------------------------------------------------------------------------
(* The sequences and the numbers of the model have their types.            *)

LEMMA Single ==
    ASSUME NEW S, NEW e \in S
    PROVE  <<e>> \in Seq(S) /\ Len(<<e>>) = 1 /\ <<e>>[1] = e
OBVIOUS

LEMMA FirstAndRest ==
    ASSUME NEW S, NEW s \in Seq(S), s # <<>>
    PROVE  Head(s) \in S /\ Tail(s) \in Seq(S)
OBVIOUS

LEMMA JoinType ==
    ASSUME NEW S, NEW r \in Seq(S), NEW s \in Seq(S)
    PROVE  r \o s \in Seq(S)
OBVIOUS

LEMMA FileType ==
    ASSUME NEW t \in Titles \cup {Start}, NEW n \in Nat
    PROVE  File(t, n) \in Seq(Chunk)
BY DEF File, Chunk

LEMMA LengthType ==
    ASSUME NEW t
    PROVE  Length(t) \in {RomLen, RomLen + 1} /\ Length(t) \in Nat
BY PushAssumption DEF Length

LEMMA RomType ==
    ASSUME NEW t \in Titles \cup {Start}
    PROVE  Rom(t) \in Seq(Chunk)
BY FileType, LengthType DEF Rom

LEMMA FrameTypes ==
    /\ \A s \in {"rom", "cfg"}, n \in {0, RomLen, RomLen + 1} : OpenFrame(s, n) \in Frames
    /\ \A c \in Chunk : [op |-> "write", chunk |-> c] \in Frames
    /\ Close \in Frames /\ Abort \in Frames /\ Reply \in Frames
BY DEF OpenFrame, Close, Abort, Reply, Frames

LEMMA WritesType ==
    ASSUME NEW f \in Seq(Chunk)
    PROVE  Writes(f) \in Seq(Frames)
BY FrameTypes DEF Writes

LEMMA CfgStreamType ==
    ASSUME NEW t \in Titles
    PROVE  CfgStream(t) \in Seq(Frames)
<1>1. CfgLen(t) \in Nat
  BY PushAssumption DEF CfgLen
<1>2. Writes(File(t, CfgLen(t))) \in Seq(Frames)
  BY <1>1, FileType, WritesType
<1>3. <<OpenFrame("cfg", 0)>> \in Seq(Frames) /\ <<Close>> \in Seq(Frames)
  BY FrameTypes
<1> QED
  BY <1>2, <1>3 DEF CfgStream

LEMMA RomStreamType ==
    ASSUME NEW t \in Titles, NEW n \in {0, Length(t)}
    PROVE  RomStream(t, n) \in Seq(Frames)
<1>1. n \in {0, RomLen, RomLen + 1}
  BY LengthType
<1>2. <<OpenFrame("rom", n)>> \in Seq(Frames) /\ <<Close>> \in Seq(Frames)
  BY <1>1, FrameTypes
<1>3. Writes(Rom(t)) \in Seq(Frames)
  BY RomType, WritesType
<1> QED
  BY <1>2, <1>3 DEF RomStream

LEMMA ImageTypes ==
    /\ NoImage \in Image
    /\ StartImage \in Image
BY RomType DEF NoImage, StartImage, Image

\* The progress bar of a push that is not mapped stays under 100.
LEMMA PercentBound ==
    ASSUME expected \in {0, RomLen, RomLen + 1}, NEW n \in Nat
    PROVE  Percent(n) \in 0..99
<1>1. Total \in Nat /\ Total > 0
  BY PushAssumption DEF Total
<1>2. n * 100 \in Nat
  OBVIOUS
<1>3. \A a \in Nat, b \in Nat : b > 0 => a \div b \in Nat
  OBVIOUS
<1>4. (n * 100) \div Total \in Nat
  BY <1>1, <1>2, <1>3
<1> QED
  BY <1>4 DEF Percent, Smaller

-----------------------------------------------------------------------------
(* Type correctness, in the parts the actions touch together.              *)

CellTypes   == /\ bootState \in {"IDLE", "OPENING", "XFER", "MAPPING", "FAILED"}
               /\ pct \in 0..100
               /\ bootErr \in {"none", "TRUNCATED", "NOMAP", "CFGBAD"}
StreamTypes == /\ stream \in {"none", "rom", "cfg"}
               /\ romBuf \in Seq(Chunk) /\ cfgBuf \in Seq(Chunk)
               /\ romTruncated \in BOOLEAN /\ cfgTruncated \in BOOLEAN /\ haveCfg \in BOOLEAN
               /\ expected \in {0, RomLen, RomLen + 1} /\ sofar \in Nat
CartTypes   == /\ active \in BOOLEAN
               /\ icart \in Image /\ legacy \in Image /\ jlp \in Image
               /\ bound \subseteq Image
               /\ jlpSave \in Titles \cup {Start}
CpuTypes    == /\ cacheable \subseteq Image /\ decoded \subseteq Image /\ running \in Image
               /\ cpuPend \in BOOLEAN /\ busPend \in BOOLEAN
PeerTypes   == /\ requests \in Seq(Requests) /\ todo \in Seq(Frames) /\ owed \in BOOLEAN
LinkTypes   == /\ link \in BOOLEAN /\ wait \in BOOLEAN /\ lastPath \in Titles \cup {Start}
               /\ toHost \in Seq(Frames) /\ acks \in Nat
               /\ txns \in 0..MaxTxns /\ faults \in 0..MaxFaults

LEMMA TypeParts ==
    TypeOK <=> /\ CellTypes /\ StreamTypes /\ CartTypes
               /\ CpuTypes /\ PeerTypes /\ LinkTypes
BY DEF TypeOK, CellTypes, StreamTypes, CartTypes, CpuTypes, PeerTypes, LinkTypes

LEMMA EmptyTypes == <<>> \in Seq(Chunk) /\ <<>> \in Seq(Requests) /\ <<>> \in Seq(Frames)
OBVIOUS

LEMMA Bounds == MaxTxns \in Nat /\ MaxFaults \in Nat
BY PushAssumption

LEMMA InitTypes == Init => TypeOK
<1> SUFFICES ASSUME Init PROVE CellTypes /\ StreamTypes /\ CartTypes
                               /\ CpuTypes /\ PeerTypes /\ LinkTypes
  BY TypeParts
<1>1. CellTypes
  BY DEF Init, CellTypes
<1>2. StreamTypes
  BY EmptyTypes DEF Init, StreamTypes
<1>3. CartTypes
  BY ImageTypes DEF Init, CartTypes
<1>4. CpuTypes
  BY ImageTypes DEF Init, CpuTypes
<1>5. PeerTypes
  BY EmptyTypes DEF Init, PeerTypes
<1>6. LinkTypes
  <2>1. txns \in 0..MaxTxns /\ faults \in 0..MaxFaults /\ acks \in Nat
    BY Bounds DEF Init
  <2>2. link \in BOOLEAN /\ wait \in BOOLEAN
        /\ lastPath \in Titles \cup {Start} /\ toHost \in Seq(Frames)
    BY EmptyTypes DEF Init
  <2> QED
    BY <2>1, <2>2 DEF LinkTypes
<1> QED
  BY <1>1, <1>2, <1>3, <1>4, <1>5, <1>6

\* What taking a frame off the connection leaves well typed.
LEMMA RxTypes ==
    ASSUME NEW op, PeerTypes, LinkTypes, Rx(op)
    PROVE  /\ PeerTypes'
           /\ toHost' \in Seq(Frames) /\ Head(toHost) \in Frames /\ Head(toHost).op = op
           /\ txns' \in 0..MaxTxns
BY DEF Rx, PeerTypes, LinkTypes

\* A frame whose op is "open" has a stream and a total, one whose op is
\* "write" a chunk.
LEMMA FrameFields ==
    \A f \in Frames :
        /\ f.op = "open" => f.total \in {0, RomLen, RomLen + 1}
        /\ f.op = "write" => f.chunk \in Chunk
BY DEF Frames

\* A part whose variables a step leaves alone keeps its types.
LEMMA Kept ==
    /\ CellTypes /\ UNCHANGED cellVars => CellTypes'
    /\ StreamTypes /\ UNCHANGED streamVars => StreamTypes'
    /\ CartTypes /\ UNCHANGED <<active, cartVars>> => CartTypes'
    /\ CpuTypes /\ UNCHANGED cpuVars => CpuTypes'
    /\ PeerTypes /\ UNCHANGED peerVars => PeerTypes'
    /\ LinkTypes /\ UNCHANGED <<link, wait, lastPath, toHost, acks, txns, faults>> => LinkTypes'
BY DEF CellTypes, StreamTypes, CartTypes, CpuTypes, PeerTypes, LinkTypes,
       cellVars, streamVars, romVars, cfgVars, cartVars, cpuVars, peerVars

LEMMA KeptConsole ==
    /\ CellTypes /\ StreamTypes /\ CartTypes /\ CpuTypes
    /\ UNCHANGED consoleVars
    => CellTypes' /\ StreamTypes' /\ CartTypes' /\ CpuTypes'
BY Kept DEF consoleVars, cellVars, streamVars, cartVars, cpuVars

\* The budgets stay in their bounds.
LEMMA FaultType == faults \in 0..MaxFaults /\ (Fault \/ UNCHANGED faults)
                   => faults' \in 0..MaxFaults
BY Bounds DEF Fault

\* A DBC frame keeps the types of the link and of the bridge.
LEMMA RxDbcTypes ==
    ASSUME NEW op, PeerTypes, LinkTypes, RxDbc(op), Fault \/ UNCHANGED faults
    PROVE  PeerTypes' /\ LinkTypes'
<1>1. PeerTypes' /\ toHost' \in Seq(Frames) /\ txns' \in 0..MaxTxns
  BY RxTypes DEF RxDbc
<1>2. faults' \in 0..MaxFaults
  BY FaultType DEF LinkTypes
<1>3. acks' \in Nat
  BY DEF LinkTypes, RxDbc
<1>4. link' \in BOOLEAN /\ wait' \in BOOLEAN /\ lastPath' \in Titles \cup {Start}
  BY DEF LinkTypes, RxDbc, Rx
<1> QED
  BY <1>1, <1>2, <1>3, <1>4 DEF LinkTypes

LEMMA NextTypes == TypeOK /\ [Next]_vars => TypeOK'
<1> SUFFICES ASSUME CellTypes, StreamTypes, CartTypes, CpuTypes, PeerTypes, LinkTypes,
                    [Next]_vars
             PROVE  CellTypes' /\ StreamTypes' /\ CartTypes'
                    /\ CpuTypes' /\ PeerTypes' /\ LinkTypes'
  BY TypeParts DEF TypeOK, CellTypes, StreamTypes, CartTypes, CpuTypes, PeerTypes, LinkTypes
<1> USE DEF LinkTypes
<1>1. ASSUME NEW r \in Requests, StartTxn(r)
      PROVE  CellTypes' /\ StreamTypes' /\ CartTypes' /\ CpuTypes' /\ PeerTypes' /\ LinkTypes'
  <2>1. CellTypes' /\ StreamTypes' /\ CartTypes' /\ CpuTypes'
    BY <1>1, Kept DEF StartTxn
  <2>2. PeerTypes'
    <3>1. requests' \in {requests, Append(requests, r)} /\ UNCHANGED <<todo, owed>>
      BY <1>1 DEF StartTxn
    <3>2. requests \in Seq(Requests) /\ Append(requests, r) \in Seq(Requests)
      BY DEF PeerTypes
    <3> QED BY <3>1, <3>2 DEF PeerTypes
  <2>3. txns' \in 0..MaxTxns /\ faults' \in 0..MaxFaults /\ acks' \in Nat
    BY <1>1, Bounds DEF StartTxn
  <2>4. link' \in BOOLEAN /\ wait' \in BOOLEAN
        /\ lastPath' \in Titles \cup {Start} /\ toHost' \in Seq(Frames)
    BY <1>1, EmptyTypes DEF StartTxn, Requests
  <2> QED
    BY <2>1, <2>2, <2>3, <2>4
<1>2. CASE TxnFails
  <2>1. CellTypes' /\ StreamTypes' /\ CartTypes' /\ CpuTypes' /\ PeerTypes'
    BY <1>2, Kept, KeptConsole DEF TxnFails
  <2>2. faults' \in 0..MaxFaults
    BY <1>2, FaultType DEF TxnFails
  <2>3. acks' \in Nat /\ txns' \in 0..MaxTxns
    BY <1>2 DEF TxnFails
  <2>4. toHost' \in Seq(Frames)
    BY <1>2 DEF TxnFails
  <2>5. link' \in BOOLEAN /\ wait' \in BOOLEAN
        /\ lastPath' \in Titles \cup {Start}
    BY <1>2 DEF TxnFails, consoleVars
  <2> QED
    BY <2>1, <2>2, <2>3, <2>4, <2>5
<1>3. CASE LinkDrops
  <2>1. CellTypes' /\ StreamTypes' /\ CartTypes' /\ CpuTypes'
    BY <1>3, KeptConsole DEF LinkDrops
  <2>2. PeerTypes'
    BY <1>3, EmptyTypes DEF LinkDrops, PeerTypes
  <2>3. faults' \in 0..MaxFaults
    BY <1>3, FaultType DEF LinkDrops
  <2>4. acks' \in Nat /\ txns' \in 0..MaxTxns
    BY <1>3 DEF LinkDrops
  <2>5. link' \in BOOLEAN /\ wait' \in BOOLEAN
        /\ lastPath' \in Titles \cup {Start} /\ toHost' \in Seq(Frames)
    BY <1>3, EmptyTypes DEF LinkDrops, consoleVars
  <2> QED
    BY <2>1, <2>2, <2>3, <2>4, <2>5
<1>4. CASE RxReply
  <2>1. PeerTypes' /\ toHost' \in Seq(Frames) /\ txns' \in 0..MaxTxns
    BY <1>4, RxTypes DEF RxReply
  <2>2. CellTypes' /\ StreamTypes' /\ CartTypes' /\ CpuTypes'
    BY <1>4, KeptConsole DEF RxReply
  <2>3. link' \in BOOLEAN /\ wait' \in BOOLEAN /\ lastPath' \in Titles \cup {Start} /\ acks' \in Nat
        /\ faults' \in 0..MaxFaults
    BY <1>4 DEF RxReply, Rx, consoleVars
  <2> QED
    BY <2>1, <2>2, <2>3
<1>5. CASE RxOpenRom
  <2>1. PeerTypes' /\ LinkTypes'
    BY <1>5, RxDbcTypes DEF RxOpenRom
  <2>2. Head(toHost).total \in {0, RomLen, RomLen + 1}
    BY <1>5, RxTypes, FrameFields DEF RxOpenRom, RxDbc
  <2>3. CellTypes'
    BY <1>5 DEF RxOpenRom, CellTypes
  <2>4. StreamTypes'
    BY <1>5, <2>2, EmptyTypes DEF RxOpenRom, StreamTypes, cfgVars
  <2>5. CartTypes' /\ CpuTypes'
    BY <1>5, Kept DEF RxOpenRom
  <2> QED
    BY <2>1, <2>3, <2>4, <2>5
<1>6. CASE RxOpenCfg
  <2>1. PeerTypes' /\ LinkTypes'
    BY <1>6, RxDbcTypes DEF RxOpenCfg
  <2>2. CellTypes'
    BY <1>6 DEF RxOpenCfg, CellTypes
  <2>3. StreamTypes'
    BY <1>6, EmptyTypes DEF RxOpenCfg, StreamTypes, romVars
  <2>4. CartTypes' /\ CpuTypes'
    BY <1>6, Kept DEF RxOpenCfg
  <2> QED
    BY <2>1, <2>2, <2>3, <2>4
<1>7. CASE RxWriteRom
  <2>1. PeerTypes' /\ LinkTypes'
    BY <1>7, RxDbcTypes DEF RxWriteRom
  <2>2. Head(toHost).chunk \in Chunk
    BY <1>7, RxTypes, FrameFields DEF RxWriteRom, RxDbc
  <2>3. sofar' \in Nat
    BY <1>7 DEF RxWriteRom, StreamTypes
  <2>4. pct' \in 0..100
    <3>1. Percent(sofar + 1) \in 0..99
      BY PercentBound DEF StreamTypes
    <3> QED
      BY <1>7, <3>1 DEF RxWriteRom
  <2>5. CellTypes'
    BY <1>7, <2>4 DEF RxWriteRom, CellTypes
  <2>6. romBuf' \in Seq(Chunk)
    <3>1. romBuf' \in {romBuf, Append(romBuf, Head(toHost).chunk)}
      BY <1>7 DEF RxWriteRom
    <3>2. romBuf \in Seq(Chunk)
      BY DEF StreamTypes
    <3> QED
      BY SMTT(30), <2>2, <3>1, <3>2
  <2>7. romTruncated' \in BOOLEAN
    BY <1>7 DEF RxWriteRom, StreamTypes
  <2>8. StreamTypes'
    BY <1>7, <2>3, <2>6, <2>7 DEF RxWriteRom, StreamTypes, cfgVars
  <2>9. CartTypes' /\ CpuTypes'
    BY <1>7, Kept DEF RxWriteRom
  <2> QED
    BY <2>1, <2>5, <2>8, <2>9
<1>8. CASE RxWriteCfg
  <2>1. PeerTypes' /\ LinkTypes'
    BY <1>8, RxDbcTypes DEF RxWriteCfg
  <2>2. Head(toHost).chunk \in Chunk
    BY <1>8, RxTypes, FrameFields DEF RxWriteCfg, RxDbc
  <2>3. cfgBuf' \in Seq(Chunk)
    BY SMTT(30), <1>8, <2>2 DEF RxWriteCfg, StreamTypes
  <2>4. cfgTruncated' \in BOOLEAN
    BY <1>8 DEF RxWriteCfg, StreamTypes
  <2>5. StreamTypes'
    BY <1>8, <2>3, <2>4 DEF RxWriteCfg, StreamTypes, romVars
  <2>6. CellTypes' /\ CartTypes' /\ CpuTypes'
    BY <1>8, Kept DEF RxWriteCfg
  <2> QED
    BY <2>1, <2>5, <2>6
<1>9. CASE RxCloseCfg
  <2>1. PeerTypes' /\ LinkTypes'
    BY <1>9, RxDbcTypes DEF RxCloseCfg
  <2>2. haveCfg' \in BOOLEAN
    BY <1>9 DEF RxCloseCfg, StreamTypes
  <2>3. StreamTypes'
    BY <1>9, <2>2 DEF RxCloseCfg, StreamTypes, romVars
  <2>4. CellTypes' /\ CartTypes' /\ CpuTypes'
    BY <1>9, Kept DEF RxCloseCfg
  <2> QED
    BY <2>1, <2>3, <2>4
<1>10. CASE RxAbort
  <2>1. PeerTypes' /\ LinkTypes'
    BY <1>10, RxDbcTypes DEF RxAbort
  <2>2. CellTypes'
    BY <1>10 DEF RxAbort, Failed, CellTypes, cellVars
  <2>3. StreamTypes'
    BY <1>10, EmptyTypes DEF RxAbort, DropCfg, StreamTypes, romVars
  <2>4. CartTypes' /\ CpuTypes'
    BY <1>10, Kept DEF RxAbort
  <2> QED
    BY <2>1, <2>2, <2>3, <2>4
<1>11. CASE RxCloseRom
  <2>1. Fault \/ UNCHANGED faults
    BY <1>11 DEF RxCloseRom, Boots, BootIcart, BootPair, BootFails
  <2>2. PeerTypes' /\ LinkTypes'
    BY <1>11, <2>1, RxDbcTypes DEF RxCloseRom
  <2>3. StreamTypes'
    BY <1>11, EmptyTypes DEF RxCloseRom, DropCfg, StreamTypes, romVars
  <2>4. CASE Boots
    <3>1. CellTypes'
      BY <2>4 DEF Boots, CellTypes
    <3>2. \A img \in Image : Commit(img) => CpuTypes' /\ bound' \subseteq Image
                                            /\ active' \in BOOLEAN
      BY DEF Commit, SwitchCpu, CpuTypes, CartTypes
    <3>3. CASE BootIcart
      <4> DEFINE img == [rom |-> romBuf, cfg |-> <<>>]
      <4>1. img \in Image
        BY EmptyTypes DEF Image, StreamTypes
      <4>2. Commit(img) /\ icart' = img
        BY <3>3 DEF BootIcart
      <4> QED
        BY <3>1, <3>2, <3>3, <4>1, <4>2, <2>2, <2>3, ImageTypes DEF BootIcart, CartTypes
    <3>4. CASE BootPair
      <4> DEFINE img == [rom |-> romBuf, cfg |-> cfgBuf]
      <4>1. img \in Image
        BY DEF Image, StreamTypes
      <4>2. Commit(img) /\ legacy' = img
        BY <3>4 DEF BootPair
      <4>3. jlp' \in {jlp, img} /\ jlpSave' \in {jlpSave, lastPath} /\ icart' = icart
        BY <3>4 DEF BootPair
      <4> QED
        BY <3>1, <3>2, <4>1, <4>2, <4>3, <2>2, <2>3 DEF CartTypes
    <3> QED
      BY <2>4, <3>3, <3>4 DEF Boots
  <2>5. CASE BootFails
    <3>1. CellTypes'
      BY <2>5 DEF BootFails, Failed, CellTypes
    <3>2. CartTypes' /\ CpuTypes'
      BY <2>5, Kept DEF BootFails
    <3> QED
      BY <2>2, <2>3, <3>1, <3>2
  <2> QED
    BY <1>11, <2>4, <2>5 DEF RxCloseRom
<1>12. CASE CpuRuns
  <2> USE <1>12 DEF CpuRuns, CpuOnly
  <2>1. CpuTypes'
    BY DEF CpuTypes, CartTypes
  <2>2. CellTypes' /\ StreamTypes' /\ CartTypes' /\ PeerTypes' /\ LinkTypes'
    BY Kept
  <2> QED
    BY <2>1, <2>2
<1>13. CASE BusReset
  <2> USE <1>13 DEF BusReset, CpuOnly
  <2>1. CpuTypes'
    BY DEF CpuTypes
  <2>2. CellTypes' /\ StreamTypes' /\ CartTypes' /\ PeerTypes' /\ LinkTypes'
    BY Kept
  <2> QED
    BY <2>1, <2>2
<1>14. CASE BridgeStarts
  <2> USE <1>14 DEF BridgeStarts, BridgeOnly
  <2>1. CellTypes' /\ StreamTypes' /\ CartTypes' /\ CpuTypes'
    BY KeptConsole
  <2>2. Head(requests) \in Requests /\ requests' \in Seq(Requests)
    <3>1. requests \in Seq(Requests)
      BY DEF PeerTypes
    <3>2. requests # <<>> /\ requests' = Tail(requests)
      BY Zenon
    <3> QED BY <3>1, <3>2, FirstAndRest, Zenon
  <2>3. todo' \in Seq(Frames)
    <3>1. <<Reply>> \in Seq(Frames)
      <4>1. Reply \in Frames
        BY FrameTypes
      <4> QED
        BY <4>1, Single, Zenon
    <3>2. \A t \in Titles : \A n \in {0, Length(t)} :
             (CfgStream(t) \o RomStream(t, n) \o <<Reply>>) \in Seq(Frames)
      <4> TAKE t \in Titles
      <4> TAKE n \in {0, Length(t)}
      <4>1. CfgStream(t) \in Seq(Frames) /\ RomStream(t, n) \in Seq(Frames)
        BY CfgStreamType, RomStreamType, Zenon
      <4>2. CfgStream(t) \o RomStream(t, n) \in Seq(Frames)
        BY <4>1, JoinType, Zenon
      <4> QED BY <3>1, <4>2, JoinType, Zenon
    <3> QED
      BY <2>2, <3>1, <3>2 DEF Requests
  <2>4. PeerTypes'
    BY <2>2, <2>3 DEF PeerTypes
  <2>5. LinkTypes'
    BY Kept DEF consoleVars
  <2> QED
    BY <2>1, <2>4, <2>5
<1>15. CASE BridgeSends
  <2> USE <1>15 DEF BridgeSends, BridgeOnly
  <2>1. CellTypes' /\ StreamTypes' /\ CartTypes' /\ CpuTypes'
    BY KeptConsole
  <2>2. Head(todo) \in Frames /\ todo' \in Seq(Frames)
    BY DEF PeerTypes
  <2>3. PeerTypes'
    BY <2>2 DEF PeerTypes
  <2>4. toHost' \in Seq(Frames)
    BY <2>2
  <2>5. LinkTypes'
    BY <2>4 DEF consoleVars
  <2> QED
    BY <2>1, <2>3, <2>5
<1>16. CASE BridgeAcked
  <2> USE <1>16 DEF BridgeAcked, BridgeOnly
  <2>1. CellTypes' /\ StreamTypes' /\ CartTypes' /\ CpuTypes'
    BY KeptConsole
  <2>2. PeerTypes'
    BY DEF PeerTypes
  <2>3. acks' \in Nat
    OBVIOUS
  <2>4. LinkTypes'
    BY <2>3 DEF consoleVars
  <2> QED
    BY <2>1, <2>2, <2>4
<1>17. CASE BridgeAborts
  <2> USE <1>17 DEF BridgeAborts, BridgeOnly
  <2>1. CellTypes' /\ StreamTypes' /\ CartTypes' /\ CpuTypes'
    BY KeptConsole
  <2>2. PeerTypes'
    <3>1. <<Abort, Reply>> \in Seq(Frames)
      BY FrameTypes
    <3> QED
      BY <3>1 DEF PeerTypes
  <2>3. faults' \in 0..MaxFaults
    BY FaultType
  <2>4. LinkTypes'
    BY <2>3 DEF consoleVars
  <2> QED
    BY <2>1, <2>2, <2>4
<1>18. CASE BridgeRefuses
  <2> USE <1>18 DEF BridgeRefuses, BridgeOnly
  <2>1. CellTypes' /\ StreamTypes' /\ CartTypes' /\ CpuTypes'
    BY KeptConsole
  <2>2. PeerTypes'
    BY DEF PeerTypes
  <2>3. LinkTypes'
    BY Kept DEF consoleVars
  <2> QED
    BY <2>1, <2>2, <2>3
<1>19. CASE UNCHANGED vars
  BY <1>19, Kept, KeptConsole DEF vars, consoleVars
<1> QED
  BY <1>1, <1>2, <1>3, <1>4, <1>5, <1>6, <1>7, <1>8, <1>9, <1>10, <1>11, <1>12, <1>13,
     <1>14, <1>15, <1>16, <1>17, <1>18, <1>19 DEF Next, RxFrame, Bridge

\* Every variable of a push has its type in every reachable state, for every
\* set of titles and every bound; the progress percentage and the two budgets
\* are what makes this more than bookkeeping.
THEOREM TypeCorrect == Spec => []TypeOK
<1> QED
  BY InitTypes, NextTypes, PTL DEF Spec

-----------------------------------------------------------------------------
(* The cartridge on the bus.  OneCart alone is not inductive: a commit     *)
(* takes off the bus what fujinet_retire_cart() believes is there, so the  *)
(* invariant must say that this belief is right.  Nor is NoStaleCode: the  *)
(* CPU decodes what it may cache, so that must be on the bus, too.         *)

SlotHolds   == bound = {Outgoing}
CpuInSlot   == /\ cacheable \subseteq bound /\ decoded \subseteq bound
               /\ ~cpuPend => running \in bound
WindowFree  == active => \A img \in bound : ~InWindow(img)
CartInv     == SlotHolds /\ CpuInSlot /\ WindowFree

LEMMA InitCart == ~StartLegacy /\ Init => CartInv
<1> SUFFICES ASSUME ~StartLegacy, Init PROVE CartInv
  OBVIOUS
<1>1. bound = {StartImage} /\ SlotHolds
  BY DEF Init, SlotHolds, Outgoing
<1>2. CpuInSlot
  BY DEF Init, CpuInSlot
<1>3. ~InWindow(StartImage)
  <2>1. Length(Start) \in Nat /\ Length(Start) > 0
    BY PushAssumption DEF Length
  <2>2. Rom(Start)[1].of = Start
    BY <2>1 DEF Rom, File
  <2>3. Mapper(StartImage) = Start
    BY <2>2 DEF Mapper, StartImage
  <2> QED
    BY <2>3, PushAssumption DEF InWindow, WantsJlp, StartImage
<1> QED
  BY <1>1, <1>2, <1>3 DEF CartInv, WindowFree

\* Whatever its loader, a cartridge that is committed is alone on the bus, and
\* the CPU is its own.
LEMMA CommitCart ==
    ASSUME CartInv, NEW img, Commit(img)
    PROVE  /\ bound' = {img}
           /\ CpuInSlot'
           /\ WindowFree'
<1>1. bound' = {img}
  BY DEF Commit, CartInv, SlotHolds
<1>2. CpuInSlot'
  BY <1>1 DEF Commit, SwitchCpu, CpuInSlot
<1>3. WindowFree'
  <2>1. active' => ~InWindow(img)
    BY DEF Commit
  <2> QED
    BY <1>1, <2>1 DEF WindowFree, InWindow, Mapper, WantsJlp
<1> QED
  BY <1>1, <1>2, <1>3

\* A step that leaves the cartridge, the mailbox and the CPU alone.
LEMMA KeptCart ==
    CartInv /\ UNCHANGED <<active, cartVars, cpuVars>> => CartInv'
BY DEF CartInv, SlotHolds, CpuInSlot, WindowFree, Outgoing, cartVars, cpuVars

LEMMA NextCart == CartInv /\ [Next]_vars => CartInv'
<1> SUFFICES ASSUME CartInv, [Next]_vars PROVE CartInv'
  OBVIOUS
<1>1. ASSUME NEW r \in Requests, StartTxn(r) PROVE CartInv'
  BY <1>1, KeptCart DEF StartTxn
<1>2. CASE TxnFails \/ LinkDrops \/ RxReply
  BY <1>2, KeptCart DEF TxnFails, LinkDrops, RxReply, consoleVars
<1>3. CASE RxOpenRom \/ RxOpenCfg \/ RxWriteRom \/ RxWriteCfg \/ RxCloseCfg \/ RxAbort
  BY <1>3, KeptCart DEF RxOpenRom, RxOpenCfg, RxWriteRom, RxWriteCfg, RxCloseCfg, RxAbort
<1>4. CASE RxCloseRom
  <2>1. CASE BootIcart
    <3> DEFINE img == [rom |-> romBuf, cfg |-> <<>>]
    <3>1. Commit(img) /\ icart' = img /\ legacy' = NoImage
      BY <2>1 DEF BootIcart
    <3>2. SlotHolds'
      BY <3>1, CommitCart DEF SlotHolds, Outgoing
    <3> QED
      BY <3>1, <3>2, CommitCart DEF CartInv
  <2>2. CASE BootPair
    <3> DEFINE img == [rom |-> romBuf, cfg |-> cfgBuf]
    <3>1. Commit(img) /\ legacy' = img
      BY <2>2 DEF BootPair
    <3>2. img # NoImage
      BY <2>2 DEF BootPair, IsPair, NoImage
    <3>3. SlotHolds'
      BY <3>1, <3>2, CommitCart DEF SlotHolds, Outgoing, NoImage
    <3> QED
      BY <3>1, <3>3, CommitCart DEF CartInv
  <2>3. CASE BootFails
    BY <2>3, KeptCart DEF BootFails
  <2> QED
    BY <1>4, <2>1, <2>2, <2>3 DEF RxCloseRom, Boots
<1>5. CASE CpuRuns
  <2> USE <1>5 DEF CpuRuns, CpuOnly, cartVars
  <2>1. SlotHolds' /\ WindowFree'
    BY DEF CartInv, SlotHolds, WindowFree, Outgoing
  <2>2. CpuInSlot'
    BY DEF CartInv, CpuInSlot
  <2> QED
    BY <2>1, <2>2 DEF CartInv
<1>6. CASE BusReset
  BY <1>6 DEF BusReset, CpuOnly, cartVars, CartInv, SlotHolds, WindowFree, CpuInSlot, Outgoing
<1>7. CASE Bridge
  BY <1>7, KeptCart DEF Bridge, BridgeStarts, BridgeSends, BridgeAcked, BridgeAborts,
     BridgeRefuses, BridgeOnly, consoleVars
<1>8. CASE UNCHANGED vars
  BY <1>8, KeptCart DEF vars, consoleVars
<1> QED
  BY <1>1, <1>2, <1>3, <1>4, <1>5, <1>6, <1>7, <1>8 DEF Next, RxFrame

LEMMA CartFacts == CartInv => OneCart /\ NoStaleCode /\ WindowIsOnes
BY FS_Singleton DEF CartInv, SlotHolds, CpuInSlot, WindowFree, OneCart, NoStaleCode,
   WindowIsOnes

LEMMA CartAlways ==
    ASSUME ~StartLegacy
    PROVE  Spec => []CartInv
<1>1. Init => CartInv
  BY InitCart
<1> QED
  BY <1>1, NextCart, PTL DEF Spec

\* With a startup cartridge of the icart_t, whatever is pushed after it and
\* however a push fails, fujinet_retire_cart() leaves one cartridge on the bus.
THEOREM OneCartOnBus ==
    ASSUME ~StartLegacy
    PROVE  Spec => []OneCart
BY CartAlways, CartFacts, PTL

\* ... the CPU never holds or runs code of another one ...
THEOREM NoStaleCodeInCpu ==
    ASSUME ~StartLegacy
    PROVE  Spec => []NoStaleCode
BY CartAlways, CartFacts, PTL

\* ... and the mailbox is off while a cartridge covers its window.
THEOREM WindowHasOneOwner ==
    ASSUME ~StartLegacy
    PROVE  Spec => []WindowIsOnes
BY CartAlways, CartFacts, PTL

-----------------------------------------------------------------------------
(* What the boot cells say.                                                *)

\* The bar reaches 100 with the cartridge only, and a failure has a reason.
THEOREM HonestProgress == Spec => []ProgressHonest
<1>1. Init => ProgressHonest
  BY DEF Init, ProgressHonest
<1>2. TypeOK /\ ProgressHonest /\ [Next]_vars => ProgressHonest'
  <2> SUFFICES ASSUME TypeOK, ProgressHonest, [Next]_vars PROVE ProgressHonest'
    OBVIOUS
  <2>1. CASE UNCHANGED cellVars
    BY <2>1 DEF ProgressHonest, cellVars
  <2>2. CASE RxOpenRom \/ RxOpenCfg
    BY <2>2 DEF RxOpenRom, RxOpenCfg, ProgressHonest
  <2>3. CASE RxWriteRom
    <3>1. Percent(sofar + 1) \in 0..99
      BY PercentBound DEF TypeOK
    <3>2. pct' = Percent(sofar + 1)
      BY <2>3 DEF RxWriteRom
    <3>3. pct' # 100
      BY <3>1, <3>2
    <3>4. UNCHANGED <<bootState, bootErr>>
      BY <2>3 DEF RxWriteRom
    <3> QED
      BY <3>3, <3>4 DEF ProgressHonest
  <2>4. CASE RxAbort
    BY <2>1, <2>4 DEF RxAbort, Failed, ProgressHonest
  <2>5. CASE RxCloseRom
    BY <2>5 DEF RxCloseRom, Boots, BootFails, Failed, ProgressHonest
  <2>6. ASSUME NEW r \in Requests, StartTxn(r) PROVE UNCHANGED cellVars
    BY <2>6 DEF StartTxn
  <2>7. ASSUME \/ TxnFails \/ LinkDrops \/ RxReply \/ RxWriteCfg \/ RxCloseCfg
               \/ CpuRuns \/ BusReset \/ Bridge \/ UNCHANGED vars
        PROVE  UNCHANGED cellVars
    BY <2>7 DEF TxnFails, LinkDrops, RxReply, RxWriteCfg, RxCloseCfg, CpuRuns, BusReset,
       CpuOnly, Bridge, BridgeStarts, BridgeSends, BridgeAcked, BridgeAborts, BridgeRefuses,
       BridgeOnly, consoleVars, vars
  <2> QED
    BY <2>1, <2>2, <2>3, <2>4, <2>5, <2>6, <2>7 DEF Next, RxFrame
<1> QED
  BY <1>1, <1>2, TypeCorrect, PTL DEF Spec

\* A push that fails changes nothing but the boot cells and the stream, whatever
\* failed: BOOT_STATE never becomes FAILED in a step that touches the cartridge.
THEOREM FailureHarmless == Spec => FailureKeepsCart
<1> DEFINE Keeps == bootState' = "FAILED" => UNCHANGED <<icart, legacy, bound, jlp, active, cacheable>>
<1>1. [Next]_vars => [Keeps]_vars
  <2> SUFFICES ASSUME [Next]_vars PROVE Keeps \/ UNCHANGED vars
    BY DEF Keeps
  <2>1. ASSUME NEW r \in Requests, StartTxn(r) PROVE Keeps
    BY <2>1 DEF StartTxn, cartVars, cpuVars
  <2>2. ASSUME TxnFails \/ LinkDrops \/ RxReply PROVE Keeps
    BY <2>2 DEF TxnFails, LinkDrops, RxReply, consoleVars, cartVars, cpuVars
  <2>3. ASSUME \/ RxOpenRom \/ RxOpenCfg \/ RxWriteRom \/ RxWriteCfg
               \/ RxCloseCfg \/ RxAbort
        PROVE  Keeps
    BY <2>3 DEF RxOpenRom, RxOpenCfg, RxWriteRom, RxWriteCfg, RxCloseCfg, RxAbort,
       cartVars, cpuVars
  <2>4. ASSUME RxCloseRom PROVE Keeps
    <3>1. CASE Boots
      <4>1. bootState' # "FAILED"
        BY <3>1 DEF Boots
      <4> QED
        BY <4>1
    <3>2. CASE BootFails
      BY <3>2 DEF BootFails, cartVars, cpuVars
    <3> QED
      BY <2>4, <3>1, <3>2 DEF RxCloseRom
  <2>5. ASSUME CpuRuns \/ BusReset PROVE Keeps
    BY <2>5 DEF CpuRuns, BusReset, CpuOnly, cartVars
  <2>6. ASSUME Bridge PROVE Keeps
    BY <2>6 DEF Bridge, BridgeStarts, BridgeSends, BridgeAcked, BridgeAborts, BridgeRefuses,
       BridgeOnly, consoleVars, cartVars, cpuVars
  <2> QED
    BY <2>1, <2>2, <2>3, <2>4, <2>5, <2>6 DEF Next, RxFrame
<1> QED
  BY <1>1, PTL DEF Spec, FailureKeepsCart

-----------------------------------------------------------------------------
(* The frames of a push, place by place.                                   *)

\* What a concatenation is, place by place.
IsJoin(S, a, b) ==
    /\ a \o b \in Seq(S) /\ Len(a) \in Nat /\ Len(b) \in Nat
    /\ Len(a \o b) = Len(a) + Len(b)
    /\ \A i \in 1 .. Len(a) : (a \o b)[i] = a[i]
    /\ \A i \in 1 .. Len(b) : (a \o b)[Len(a) + i] = b[i]

LEMMA Joined ==
    ASSUME NEW S, NEW a \in Seq(S), NEW b \in Seq(S)
    PROVE  IsJoin(S, a, b)
BY DEF IsJoin

\* A sequence one longer.
LEMMA Appended ==
    ASSUME NEW S, NEW s \in Seq(S), NEW e \in S
    PROVE  /\ s = <<>> => Append(s, e) = <<e>> /\ Head(Append(s, e)) = e
           /\ s # <<>> => Append(s, e) # <<>> /\ Head(Append(s, e)) = Head(s)
<1>1. s # <<>> => Append(s, e) # <<>> /\ Head(Append(s, e)) = Head(s)
  OBVIOUS
<1>2. s = <<>> => Append(s, e) = <<e>> /\ Head(Append(s, e)) = e
  <2>1. Append(<<>>, e) = <<e>>
    OBVIOUS
  <2>2. Head(<<e>>) = e
    OBVIOUS
  <2> QED BY <2>1, <2>2
<1> QED BY <1>1, <1>2

\* The last place of a sequence.
LEMMA LastIs ==
    ASSUME NEW S, NEW s \in Seq(S), Len(s) > 0
    PROVE  SubSeq(s, Len(s), Len(s)) = <<s[Len(s)]>>
<1> DEFINE m == Len(s)
           r == SubSeq(s, m, m)
<1>1. m \in Nat /\ m >= 1 /\ s[m] \in S
  OBVIOUS
<1> HIDE DEF m
<1>2. r \in Seq(S) /\ Len(r) = 1 /\ r[1] = s[m]
  BY <1>1 DEF m
<1> HIDE DEF r
<1>3. <<s[m]>> \in Seq(S) /\ Len(<<s[m]>>) = 1 /\ <<s[m]>>[1] = s[m]
  BY <1>1, Single
<1> DEFINE q == <<s[m]>>
<1> HIDE DEF q
<1>4. q \in Seq(S) /\ Len(q) = 1 /\ q[1] = r[1]
  BY <1>2, <1>3 DEF q
<1>5. r = q
  BY <1>2, <1>4
<1> QED BY <1>5 DEF r, q, m

\* The whole of a sequence.
LEMMA WholeIs ==
    ASSUME NEW S, NEW s \in Seq(S)
    PROVE  SubSeq(s, 1, Len(s)) = s
<1> DEFINE m == Len(s)
           r == SubSeq(s, 1, m)
<1>1. m \in Nat
  OBVIOUS
<1> HIDE DEF m
<1>2. r \in Seq(S) /\ Len(r) = m /\ \A j \in 1 .. m : r[j] = s[j]
  BY <1>1 DEF m
<1> HIDE DEF r
<1>3. r = s
  BY <1>1, <1>2 DEF m
<1> QED BY <1>3 DEF r, m

\* The rest of a sequence from a place on.
LEMMA SliceIs ==
    ASSUME NEW S, NEW s \in Seq(S), NEW i \in 1 .. Len(s)
    PROVE  LET r == SubSeq(s, i, Len(s))
           IN  r # <<>> /\ Head(r) = s[i] /\ Tail(r) = SubSeq(s, i + 1, Len(s))
<1> DEFINE m == Len(s)
           r == SubSeq(s, i, m)
           q == SubSeq(s, i + 1, m)
<1>1. m \in Nat /\ i \in Nat /\ 1 <= i /\ i <= m
  OBVIOUS
<1> HIDE DEF m
<1>2. r \in Seq(S) /\ Len(r) = m + 1 - i /\ \A j \in 1 .. m + 1 - i : r[j] = s[j + i - 1]
  BY <1>1 DEF m
<1>3. q \in Seq(S) /\ Len(q) = m - i /\ \A j \in 1 .. m - i : q[j] = s[j + i]
  BY <1>1 DEF m
<1> HIDE DEF r, q
<1>4. r # <<>> /\ Head(r) = s[i]
  BY <1>1, <1>2
<1>5. Tail(r) = q
  <2>1. Tail(r) \in Seq(S) /\ Len(Tail(r)) = m - i /\ \A j \in 1 .. m - i : Tail(r)[j] = r[j + 1]
    BY <1>1, <1>2
  <2>2. ASSUME NEW j \in 1 .. m - i PROVE r[j + 1] = q[j]
    <3>1. j + 1 \in 1 .. m + 1 - i /\ j + 1 + i - 1 = j + i
      BY <1>1
    <3> QED BY <1>2, <1>3, <3>1
  <2> QED BY <1>1, <1>3, <2>1, <2>2
<1> QED BY <1>4, <1>5 DEF r, q, m

Script(t, n) == CfgStream(t) \o RomStream(t, n) \o <<Reply>>

\* Where the .cfg stream ends, and what comes at each place of a script.
CfgEnd(t) == Len(CfgStream(t))

\* A stream between its OPEN and its CLOSE.
Framed(o, w, e) ==
    LET s == <<o>> \o w \o <<e>>
    IN  /\ s \in Seq(Frames) /\ Len(s) = Len(w) + 2
        /\ s[1] = o /\ s[Len(w) + 2] = e
        /\ \A i \in 2 .. Len(w) + 1 : s[i] = w[i - 1]

LEMMA FramedIs ==
    ASSUME NEW o \in Frames, NEW w \in Seq(Frames), NEW e \in Frames
    PROVE  Framed(o, w, e)
<1> DEFINE a == <<o>>
           z == <<e>>
           b == a \o w
           s == b \o z
           l == Len(w)
<1>1. a \in Seq(Frames) /\ Len(a) = 1 /\ a[1] = o /\ z \in Seq(Frames) /\ Len(z) = 1 /\ z[1] = e
  BY Single
<1>2. l \in Nat
  OBVIOUS
<1> HIDE DEF a, z, l
<1>3. /\ b \in Seq(Frames) /\ Len(b) = 1 + l
      /\ b[1] = o
      /\ \A i \in 1 .. l : b[1 + i] = w[i]
  <2>1. IsJoin(Frames, a, w)
    BY <1>1, Joined
  <2> QED BY <1>1, <2>1 DEF l, IsJoin
<1> HIDE DEF b
<1>4. /\ s \in Seq(Frames) /\ Len(s) = (1 + l) + 1
      /\ \A i \in 1 .. 1 + l : s[i] = b[i]
      /\ s[(1 + l) + 1] = e
  <2>1. IsJoin(Frames, b, z)
    BY <1>1, <1>3, Joined
  <2> QED BY <1>1, <1>2, <1>3, <2>1 DEF IsJoin
<1> HIDE DEF s
<1>5. \A i \in 2 .. l + 1 : s[i] = w[i - 1]
  <2> TAKE i \in 2 .. l + 1
  <2>1. i \in 1 .. 1 + l /\ i - 1 \in 1 .. l /\ 1 + (i - 1) = i
    BY <1>2
  <2> QED BY <1>3, <1>4, <2>1
<1>6. s \in Seq(Frames) /\ Len(s) = l + 2 /\ s[1] = o /\ s[l + 2] = e
  BY <1>2, <1>3, <1>4
<1> QED BY <1>5, <1>6 DEF Framed, s, b, a, z, l

LEMMA CfgStreamIs ==
    ASSUME NEW t \in Titles
    PROVE  LET c == CfgStream(t) IN
           /\ Len(c) \in Nat /\ c \in Seq(Frames)
           /\ Len(c) = 0 \/ Len(c) >= 2
           /\ Len(c) > 0 => c[1].op = "open" /\ c[1].stream = "cfg" /\ c[Len(c)].op = "close"
           /\ \A i \in 2 .. Len(c) - 1 : c[i].op = "write"
<1>1. CASE t \notin Paired
  BY <1>1, CfgStreamType DEF CfgStream
<1>2. CASE t \in Paired
  <2> DEFINE f == File(t, CfgLen(t))
             w == Writes(f)
             m == CfgLen(t)
             o == OpenFrame("cfg", 0)
  <2>1. m \in Nat
    BY PushAssumption DEF CfgLen
  <2>2. f \in Seq(Chunk) /\ Len(f) = m
    <3>1. f \in Seq(Chunk)
      BY <2>1, FileType
    <3>2. Len(f) = m
      BY <2>1 DEF File
    <3> QED BY <3>1, <3>2
  <2>3. w \in Seq(Frames) /\ Len(w) = m /\ \A i \in 1 .. m : w[i].op = "write"
    <3> HIDE DEF f, m
    <3> QED BY <2>1, <2>2, WritesType DEF Writes
  <2>4. o \in Frames /\ o.op = "open" /\ o.stream = "cfg" /\ Close \in Frames /\ Close.op = "close"
    BY FrameTypes DEF OpenFrame, Close
  <2>5. CfgStream(t) = <<o>> \o w \o <<Close>>
    BY <1>2 DEF CfgStream
  <2> HIDE DEF w, o, m, f
  <2>6. Framed(o, w, Close)
    BY <2>3, <2>4, FramedIs
  <2> DEFINE c == <<o>> \o w \o <<Close>>
  <2>7. Len(c) = m + 2 /\ c \in Seq(Frames) /\ c[1] = o /\ c[m + 2] = Close
        /\ \A i \in 2 .. m + 1 : c[i] = w[i - 1]
    BY <2>1, <2>3, <2>6 DEF Framed
  <2> HIDE DEF c
  <2>8. \A i \in 2 .. m + 1 : c[i].op = "write"
    <3> TAKE i \in 2 .. m + 1
    <3>1. i - 1 \in 1 .. m
      BY <2>1
    <3> QED BY <2>3, <2>7, <3>1
  <2>9. CfgStream(t) = c
    BY <2>5 DEF c
  <2> QED BY <2>1, <2>4, <2>7, <2>8, <2>9
<1> QED BY <1>1, <1>2

LEMMA RomStreamIs ==
    ASSUME NEW t \in Titles, NEW n \in {0, Length(t)}
    PROVE  LET r == RomStream(t, n)
               l == Length(t)
           IN  /\ r \in Seq(Frames) /\ Len(r) = l + 2
               /\ r[1].op = "open" /\ r[1].stream = "rom" /\ r[l + 2].op = "close"
               /\ \A i \in 2 .. l + 1 : r[i].op = "write" /\ r[i].chunk = [of |-> t, i |-> i - 1]
<1> DEFINE l == Length(t)
           w == Writes(Rom(t))
           o == OpenFrame("rom", n)
<1>1. l \in Nat
  BY LengthType
<1>2. Rom(t) \in Seq(Chunk) /\ Len(Rom(t)) = l /\ \A i \in 1 .. l : Rom(t)[i] = [of |-> t, i |-> i]
  BY <1>1, RomType DEF Rom, File
<1>3. w \in Seq(Frames) /\ Len(w) = l /\ \A i \in 1 .. l : w[i] = [op |-> "write", chunk |-> [of |-> t, i |-> i]]
  <2>1. w \in Seq(Frames)
    BY <1>2, WritesType
  <2> HIDE DEF l
  <2> QED BY <1>1, <1>2, <2>1 DEF Writes
<1>4. o \in Frames /\ o.op = "open" /\ o.stream = "rom" /\ Close \in Frames /\ Close.op = "close"
  BY LengthType, FrameTypes DEF OpenFrame, Close
<1>5. RomStream(t, n) = <<o>> \o w \o <<Close>>
  BY DEF RomStream
<1> HIDE DEF w, o, l
<1>6. Framed(o, w, Close)
  BY <1>3, <1>4, FramedIs
<1> DEFINE c == <<o>> \o w \o <<Close>>
<1>7. Len(c) = l + 2 /\ c \in Seq(Frames) /\ c[1] = o /\ c[l + 2] = Close
      /\ \A i \in 2 .. l + 1 : c[i] = w[i - 1]
  BY <1>1, <1>3, <1>6 DEF Framed
<1> HIDE DEF c
<1>8. \A i \in 2 .. l + 1 : c[i].op = "write" /\ c[i].chunk = [of |-> t, i |-> i - 1]
  <2> TAKE i \in 2 .. l + 1
  <2>1. i \in Int /\ i - 1 \in 1 .. l
    BY <1>1
  <2>2. c[i] = w[i - 1]
    BY <1>7
  <2>3. w[i - 1] = [op |-> "write", chunk |-> [of |-> t, i |-> i - 1]]
    BY <1>3, <2>1
  <2> QED BY <2>2, <2>3
<1> QED BY <1>4, <1>5, <1>7, <1>8 DEF c, l

\* A script s of title t: a .cfg stream of c frames, a ROM of l chunks, the reply.
ScriptParts(s, c, l, t) ==
    /\ s \in Seq(Frames) /\ Len(s) = c + l + 3 /\ l \in Nat
    /\ c \in Nat /\ (c = 0 \/ c >= 2)
    /\ c > 0 => s[1].op = "open" /\ s[1].stream = "cfg" /\ s[c].op = "close"
    /\ \A i \in 2 .. c - 1 : s[i].op = "write"
    /\ s[c + 1].op = "open" /\ s[c + 1].stream = "rom"
    /\ \A i \in c + 2 .. c + l + 1 :
          s[i].op = "write" /\ s[i].chunk = [of |-> t, i |-> i - c - 1]
    /\ s[c + l + 2].op = "close" /\ s[c + l + 3] = Reply

LEMMA ScriptIs ==
    ASSUME NEW t \in Titles, NEW n \in {0, Length(t)}
    PROVE  ScriptParts(Script(t, n), CfgEnd(t), Length(t), t)
<1> DEFINE x == CfgStream(t)
           r == RomStream(t, n)
           c == Len(x)
           l == Length(t)
           s == x \o r \o <<Reply>>
<1>1. l \in Nat
  BY LengthType
<1>2. /\ c \in Nat /\ x \in Seq(Frames)
      /\ c = 0 \/ c >= 2
      /\ c > 0 => x[1].op = "open" /\ x[1].stream = "cfg" /\ x[c].op = "close"
      /\ \A i \in 2 .. c - 1 : x[i].op = "write"
  BY CfgStreamIs
<1>3. /\ r \in Seq(Frames) /\ Len(r) = l + 2
      /\ r[1].op = "open" /\ r[1].stream = "rom" /\ r[l + 2].op = "close"
      /\ \A i \in 2 .. l + 1 : r[i].op = "write" /\ r[i].chunk = [of |-> t, i |-> i - 1]
  BY RomStreamIs
<1>4. Reply \in Frames
  BY FrameTypes
<1> DEFINE y == x \o r
<1> HIDE DEF x, r, l, c
<1>5. /\ y \in Seq(Frames) /\ Len(y) = c + (l + 2)
      /\ \A i \in 1 .. c : y[i] = x[i]
      /\ \A i \in 1 .. l + 2 : y[c + i] = r[i]
  <2>1. IsJoin(Frames, x, r)
    BY <1>2, <1>3, Joined
  <2> QED BY <1>2, <1>3, <2>1 DEF c, IsJoin
<1> HIDE DEF y
<1>6. /\ s \in Seq(Frames) /\ Len(s) = c + l + 3
      /\ \A i \in 1 .. c + (l + 2) : s[i] = y[i]
      /\ s[c + l + 3] = Reply
  <2> DEFINE z == <<Reply>>
  <2>1. z \in Seq(Frames) /\ Len(z) = 1 /\ z[1] = Reply
    BY <1>4, Single
  <2> HIDE DEF z
  <2> DEFINE q == y \o z
  <2>2. /\ q \in Seq(Frames) /\ Len(q) = (c + (l + 2)) + 1
        /\ \A i \in 1 .. c + (l + 2) : q[i] = y[i]
        /\ q[(c + (l + 2)) + 1] = Reply
    <3>1. IsJoin(Frames, y, z)
      BY <1>5, <2>1, Joined
    <3> QED BY <1>1, <1>2, <1>5, <2>1, <3>1 DEF IsJoin
  <2> HIDE DEF q
  <2>3. s = q
    BY DEF q, z, y
  <2>4. (c + (l + 2)) + 1 = c + l + 3
    BY <1>1, <1>2
  <2> HIDE DEF s
  <2> QED BY <2>2, <2>3, <2>4
<1> HIDE DEF s
<1>7. (\A i \in 1 .. c : s[i] = x[i]) /\ \A i \in 1 .. l + 2 : s[c + i] = r[i]
  <2>1. \A i \in 1 .. c : i \in 1 .. c + (l + 2)
    BY <1>1, <1>2
  <2>2. \A i \in 1 .. l + 2 : c + i \in 1 .. c + (l + 2)
    BY <1>1, <1>2
  <2> QED BY <1>5, <1>6, <2>1, <2>2
<1>8. \A i \in c + 2 .. c + l + 1 : s[i].op = "write" /\ s[i].chunk = [of |-> t, i |-> i - c - 1]
  <2> TAKE i \in c + 2 .. c + l + 1
  <2>1. i - c \in 2 .. l + 1 /\ i - c \in 1 .. l + 2 /\ c + (i - c) = i
    BY <1>1, <1>2
  <2>2. s[i] = r[i - c]
    BY <1>7, <2>1
  <2> QED BY <1>3, <2>1, <2>2
<1>9. s[c + 1] = r[1] /\ s[c + l + 2] = r[l + 2]
  <2>1. 1 \in 1 .. l + 2 /\ l + 2 \in 1 .. l + 2 /\ c + (l + 2) = c + l + 2
    BY <1>1, <1>2
  <2> QED BY <1>7, <2>1
<1>10. s = Script(t, n) /\ c = CfgEnd(t)
  BY DEF Script, CfgEnd, s, x, r, c
<1>11. \A i \in 2 .. c - 1 : s[i].op = "write"
  BY <1>2, <1>7
<1>12. c > 0 => s[1].op = "open" /\ s[1].stream = "cfg" /\ s[c].op = "close"
  BY <1>2, <1>7
<1> QED BY <1>1, <1>2, <1>3, <1>6, <1>8, <1>9, <1>10, <1>11, <1>12 DEF l, ScriptParts

\* What can stand at each place of a script before its reply.
LEMMA Places ==
    ASSUME NEW t \in Titles, NEW n \in {0, Length(t)},
           NEW p \in 1 .. CfgEnd(t) + Length(t) + 2
    PROVE  LET f == Script(t, n)[p]
               c == CfgEnd(t)
               l == Length(t)
           IN  /\ f.op # "abort" /\ f.op # "reply"
               /\ f.op = "open" => \/ p = 1 /\ c >= 2 /\ f.stream = "cfg"
                                   \/ p = c + 1 /\ f.stream = "rom"
               /\ f.op = "write" => \/ p \in 2 .. c - 1
                                    \/ /\ p \in c + 2 .. c + l + 1
                                       /\ f.chunk = [of |-> t, i |-> p - c - 1]
               /\ f.op = "close" => (p = c /\ c >= 2) \/ p = c + l + 2
<1> DEFINE s == Script(t, n)
           c == CfgEnd(t)
           l == Length(t)
<1>1. /\ l \in Nat /\ c \in Nat /\ (c = 0 \/ c >= 2)
      /\ c > 0 => s[1].op = "open" /\ s[1].stream = "cfg" /\ s[c].op = "close"
      /\ \A i \in 2 .. c - 1 : s[i].op = "write"
      /\ s[c + 1].op = "open" /\ s[c + 1].stream = "rom"
      /\ \A i \in c + 2 .. c + l + 1 :
            s[i].op = "write" /\ s[i].chunk = [of |-> t, i |-> i - c - 1]
      /\ s[c + l + 2].op = "close"
  <2>1. ScriptParts(s, c, l, t)
    BY ScriptIs
  <2> HIDE DEF s, c, l
  <2> QED BY <2>1 DEF ScriptParts
<1> HIDE DEF s, c, l
<1>2. p \in 1 .. c + l + 2
  BY DEF c, l
<1>3. \/ (p = 1 /\ c >= 2) \/ p \in 2 .. c - 1 \/ (p = c /\ c >= 2) \/ p = c + 1
      \/ p \in c + 2 .. c + l + 1 \/ p = c + l + 2
  BY <1>1, <1>2
<1>4. CASE p = 1 /\ c >= 2
  BY <1>1, <1>4 DEF s, c, l
<1>5. CASE p \in 2 .. c - 1
  BY <1>1, <1>5 DEF s, c, l
<1>6. CASE p = c /\ c >= 2
  BY <1>1, <1>6 DEF s, c, l
<1>7. CASE p = c + 1
  BY <1>1, <1>7 DEF s, c, l
<1>8. CASE p \in c + 2 .. c + l + 1
  BY <1>1, <1>8 DEF s, c, l
<1>9. CASE p = c + l + 2
  BY <1>1, <1>9 DEF s, c, l
<1> QED BY <1>3, <1>4, <1>5, <1>6, <1>7, <1>8, <1>9

-----------------------------------------------------------------------------
(* Why a cartridge that boots is whole.  CartSlot says nothing of frames,   *)
(* so its refinement needs what ties the host to the bridge: the frames on *)
(* the way and those the bridge has yet to send are the rest of one script, *)
(* the host has what the earlier ones brought, and at most one frame is     *)
(* ever on the way to a host that reads.  A frame that nobody will read     *)
(* (Dead) ends the script: the bridge is left with the abort and the reply. *)

\* The frame the bridge waits on an ACK for has not been read yet ...
Out  == owed /\ acks = 0
\* ... and never will be.
Live == wait /\ toHost # <<>> /\ Head(toHost).op # "reply"
Dead == Out /\ ~Live

LinkInv == /\ acks > 0 => owed /\ toHost = <<>> /\ acks = 1
           /\ Live => Len(toHost) = 1 /\ Out

\* What the host has when it has read the first pos - 1 frames of a script.
HostAt(t, pos) ==
    LET c == CfgEnd(t)
        l == Length(t)
    IN  /\ pos \in 2 .. c => stream = "cfg"
        /\ pos \in c + 2 .. c + l + 2 =>
              /\ stream = "rom"
              /\ \/ romTruncated
                 \/ /\ Len(romBuf) = pos - c - 2
                    /\ \A i \in 1 .. pos - c - 2 : romBuf[i] = [of |-> t, i |-> i]

\* The bridge is in the middle of the frames of a cartridge.
InScript(t, n, pos) ==
    LET s == Script(t, n)
    IN  /\ n \in {0, Length(t)}
        /\ pos \in 1 .. Len(s)
        /\ HostAt(t, pos)
        /\ \/ /\ Out
              /\ pos < Len(s)
              /\ toHost = <<s[pos]>>
              /\ todo = SubSeq(s, pos + 1, Len(s))
           \/ /\ ~Out
              /\ todo = SubSeq(s, pos, Len(s))

Trailing == /\ todo \in {<<>>, <<Reply>>, <<Abort, Reply>>}
            /\ Out => toHost = <<Abort>>

PushInv == \/ Dead
           \/ Trailing
           \/ \E t \in Titles, n \in Nat, pos \in Nat :
                 InScript(t, n, pos)

\* Off means that what is left of the transaction is its reply.
MailboxInv ==
    ~active /\ wait =>
        \/ toHost # <<>> /\ Head(toHost).op = "reply"
        \/ todo = <<Reply>> /\ toHost = <<>>
ScriptInv == LinkInv /\ PushInv /\ MailboxInv

LEMMA ReplyOp == \A f \in Frames : f.op = "reply" <=> f = Reply
BY DEF Frames, Reply

LEMMA InitScript == Init => ScriptInv
BY DEF Init, ScriptInv, LinkInv, PushInv, Trailing, Live, Out, MailboxInv

\* A step that leaves the connection, the bridge and the stream alone.
LEMMA KeptScript ==
    ScriptInv /\ UNCHANGED <<wait, active, streamVars, todo, owed, toHost, acks>> => ScriptInv'
BY DEF ScriptInv, LinkInv, PushInv, Trailing, Live, Out, Dead, MailboxInv, InScript, HostAt,
   streamVars, romVars

\* A transaction begins or ends: a frame on the way is not read any more.
LEMMA NotWaited ==
    ASSUME LinkInv, PushInv, UNCHANGED <<streamVars, todo, owed, acks>>, ~Live',
           acks > 0 => toHost' = <<>>
    PROVE  LinkInv' /\ PushInv'
<1>1. LinkInv'
  BY DEF LinkInv, Live
<1>2. ASSUME Out PROVE PushInv'
  BY <1>2 DEF Dead, Out, PushInv
<1>3. ASSUME ~Out PROVE PushInv'
  <2>1. Out' = FALSE
    BY <1>3 DEF Out
  <2>2. CASE Trailing
    BY <2>1, <2>2 DEF Trailing, PushInv
  <2>3. CASE \E t \in Titles, n \in Nat, pos \in Nat : InScript(t, n, pos)
    <3>1. PICK t \in Titles, n \in Nat, pos \in Nat : InScript(t, n, pos)
      BY <2>3
    <3>2. InScript(t, n, pos)'
      BY <1>3, <2>1, <3>1 DEF InScript, HostAt, streamVars, romVars
    <3> QED BY <3>2 DEF PushInv
  <2> QED BY <1>3, <2>2, <2>3 DEF PushInv, Dead
<1> QED BY <1>1, <1>2, <1>3

\* A frame of a stream is read: it was the only one on the way, and it is the
\* abort or the next one of a script.
InFlight(t, n, pos) ==
    LET s == Script(t, n)
    IN  /\ n \in {0, Length(t)}
        /\ pos \in 1 .. Len(s) - 1
        /\ HostAt(t, pos)
        /\ Head(toHost) = s[pos]
        /\ todo = SubSeq(s, pos + 1, Len(s))

LEMMA ReadsFrame ==
    ASSUME TypeOK, ScriptInv, NEW op, op # "reply", RxDbc(op)
    PROVE  /\ LinkInv' /\ ~Out' /\ active /\ toHost' = <<>> /\ UNCHANGED todo
           /\ \/ Trailing /\ Trailing' /\ op = "abort"
              \/ \E t \in Titles, n \in Nat, pos \in Nat :
                    InFlight(t, n, pos)
<1>1. Live /\ Head(toHost).op = op
  BY DEF RxDbc, Rx, Live
<1>2. Out /\ Len(toHost) = 1 /\ ~Dead
  BY <1>1 DEF ScriptInv, LinkInv, Dead
<1>3. toHost' = <<>> /\ acks' = 1 /\ owed' /\ UNCHANGED todo
  BY <1>2 DEF RxDbc, Rx, Out, TypeOK
<1>4. LinkInv' /\ ~Out'
  BY <1>3 DEF LinkInv, Live, Out
<1>5. active
  BY <1>1, <1>2 DEF ScriptInv, MailboxInv, Live, TypeOK
<1>6. CASE Trailing
  <2>1. Head(toHost) = Abort /\ Abort.op = "abort"
    BY <1>2, <1>6 DEF Trailing, Abort
  <2>2. op = "abort" /\ Trailing'
    BY <1>1, <1>3, <1>4, <1>6, <2>1 DEF Trailing
  <2> QED BY <1>3, <1>4, <1>5, <1>6, <2>2
<1>7. ASSUME NEW t \in Titles, NEW n \in Nat, NEW pos \in Nat, InScript(t, n, pos)
      PROVE  InFlight(t, n, pos)
  <2>1. Len(Script(t, n)) \in Nat
    BY <1>7, ScriptIs DEF InScript, ScriptParts
  <2> QED BY <1>2, <1>7, <2>1 DEF InScript, InFlight
<1> QED BY <1>2, <1>3, <1>4, <1>5, <1>6, <1>7 DEF ScriptInv, PushInv

\* ... and when it was the next one of a script, what the handler leaves must
\* be what the host has one frame further.
LEMMA ReadsNext ==
    ASSUME TypeOK, ScriptInv, NEW op, op # "reply", RxDbc(op), op = "abort" => stream' = "none",
           NEW t \in Titles, NEW n \in Nat, NEW pos \in Nat, InFlight(t, n, pos),
           HostAt(t, pos + 1)'
    PROVE  PushInv'
<1>1. ~Out' /\ UNCHANGED todo
  BY ReadsFrame
<1>2. Len(Script(t, n)) \in Nat
  BY ScriptIs DEF InFlight, ScriptParts
<1>3. pos + 1 \in 1 .. Len(Script(t, n)) /\ pos + 1 \in Nat
  BY <1>2 DEF InFlight
<1>4. InScript(t, n, pos + 1)'
  <2>1. todo = SubSeq(Script(t, n), pos + 1, Len(Script(t, n)))
    BY DEF InFlight
  <2>2. n \in {0, Length(t)}
    BY DEF InFlight
  <2> QED BY <1>1, <1>3, <2>1, <2>2 DEF InScript
<1> QED BY <1>3, <1>4 DEF PushInv

\* The numbers of a script that the handlers need.
LEMMA FlightIs ==
    ASSUME NEW t \in Titles, NEW n \in Nat, NEW pos \in Nat, InFlight(t, n, pos)
    PROVE  LET f == Head(toHost)
               c == CfgEnd(t)
               l == Length(t)
           IN  /\ c \in Nat /\ l \in Nat /\ (c = 0 \/ c >= 2)
               /\ Len(Script(t, n)) = c + l + 3
               /\ pos \in 1 .. c + l + 2 /\ HostAt(t, pos)
               /\ f.op # "abort" /\ f.op # "reply"
               /\ f.op = "open" => \/ pos = 1 /\ c >= 2 /\ f.stream = "cfg"
                                   \/ pos = c + 1 /\ f.stream = "rom"
               /\ f.op = "write" => \/ pos \in 2 .. c - 1
                                    \/ /\ pos \in c + 2 .. c + l + 1
                                       /\ f.chunk = [of |-> t, i |-> pos - c - 1]
               /\ f.op = "close" => (pos = c /\ c >= 2) \/ pos = c + l + 2
<1>1. n \in {0, Length(t)} /\ Head(toHost) = Script(t, n)[pos] /\ HostAt(t, pos)
  BY DEF InFlight
<1>2. /\ CfgEnd(t) \in Nat /\ Length(t) \in Nat /\ (CfgEnd(t) = 0 \/ CfgEnd(t) >= 2)
      /\ Len(Script(t, n)) = CfgEnd(t) + Length(t) + 3
  BY <1>1, ScriptIs DEF ScriptParts
<1>3. pos \in 1 .. CfgEnd(t) + Length(t) + 2
  BY <1>2 DEF InFlight
<1> DEFINE f == Script(t, n)[pos]
           c == CfgEnd(t)
           l == Length(t)
<1>4. /\ f.op # "abort" /\ f.op # "reply"
      /\ f.op = "open" => \/ pos = 1 /\ c >= 2 /\ f.stream = "cfg"
                          \/ pos = c + 1 /\ f.stream = "rom"
      /\ f.op = "write" => \/ pos \in 2 .. c - 1
                           \/ /\ pos \in c + 2 .. c + l + 1
                              /\ f.chunk = [of |-> t, i |-> pos - c - 1]
      /\ f.op = "close" => (pos = c /\ c >= 2) \/ pos = c + l + 2
  BY <1>1, <1>3, Places, Zenon
<1>5. Head(toHost) = f
  BY <1>1
<1> HIDE DEF f, c, l
<1> QED BY <1>1, <1>2, <1>3, <1>4, <1>5 DEF c, l

\* The ROM stream is closed at its end.
LEMMA RomClosed ==
    ASSUME TypeOK, ScriptInv, RxDbc("close"), stream = "rom",
           NEW t \in Titles, NEW n \in Nat, NEW pos \in Nat, InFlight(t, n, pos)
    PROVE  /\ CfgEnd(t) \in Nat /\ Length(t) \in Nat
           /\ pos = CfgEnd(t) + Length(t) + 2
           /\ romTruncated \/ romBuf = Rom(t)
<1> DEFINE c == CfgEnd(t)
           l == Length(t)
<1>1. Head(toHost).op = "close"
  BY DEF RxDbc, Rx
<1>2. c \in Nat /\ l \in Nat /\ HostAt(t, pos) /\ ((pos = c /\ c >= 2) \/ pos = c + l + 2)
  BY <1>1, FlightIs
<1>3. pos \in 2 .. c => stream = "cfg"
  BY <1>2 DEF HostAt
<1>4. pos = c + l + 2
  <2> HIDE DEF c, l
  <2> QED BY <1>2, <1>3
<1>5. ASSUME ~romTruncated PROVE romBuf = Rom(t)
  <2>1. romBuf \in Seq(Chunk) /\ Rom(t) \in Seq(Chunk)
    BY RomType DEF TypeOK
  <2>2. pos \in c + 2 .. c + l + 2 /\ pos - c - 2 = l
    <3> HIDE DEF c, l
    <3> QED BY <1>2, <1>4
  <2>3. Len(romBuf) = l /\ \A i \in 1 .. l : romBuf[i] = [of |-> t, i |-> i]
    BY <1>2, <1>5, <2>2 DEF HostAt
  <2>4. Len(Rom(t)) = l /\ \A i \in 1 .. l : Rom(t)[i] = [of |-> t, i |-> i]
    BY <1>2 DEF Rom, File
  <2> DEFINE r == Rom(t)
  <2>5. r \in Seq(Chunk) /\ Len(r) = l /\ \A i \in 1 .. l : r[i] = romBuf[i]
    BY <2>1, <2>3, <2>4
  <2> HIDE DEF l, r
  <2>6. romBuf = r
    BY <2>1, <2>3, <2>5
  <2> QED BY <2>6 DEF r
<1> QED BY <1>2, <1>4, <1>5

\* What the bridge does.
LEMMA BridgeScript ==
    ASSUME TypeOK, ScriptInv, Bridge
    PROVE  ScriptInv'
<1>0. LinkInv /\ PushInv /\ MailboxInv
  BY DEF ScriptInv
<1>K. UNCHANGED <<wait, active, streamVars>>
  BY DEF Bridge, BridgeStarts, BridgeSends, BridgeAcked, BridgeAborts, BridgeRefuses,
     BridgeOnly, consoleVars
<1>1. CASE BridgeStarts
  <2>1. UNCHANGED <<owed, toHost, acks>> /\ ~owed /\ todo = <<>>
    BY <1>1 DEF BridgeStarts
  <2>2. LinkInv'
    BY <1>0, <1>K, <2>1 DEF LinkInv, Live, Out
  <2>3. MailboxInv'
    BY <1>0, <1>K, <2>1 DEF MailboxInv
  <2>4. CASE todo' = <<Reply>>
    BY <2>1, <2>2, <2>3, <2>4 DEF PushInv, Trailing, Out, ScriptInv
  <2>5. CASE todo' # <<Reply>>
    <3>1. PICK t \in Titles : \E n \in {0, Length(t)} : todo' = Script(t, n)
      <4>0. requests \in Seq(Requests) /\ requests # <<>>
        <5>1. requests \in Seq(Requests)
          BY DEF TypeOK
        <5> QED BY <1>1, <5>1 DEF BridgeStarts
      <4>1. Head(requests) \in Requests
        BY <4>0
      <4> DEFINE r == Head(requests)
      <4>2. r.title \in Titles
        BY <4>1 DEF Requests
      <4>3. \/ todo' = <<Reply>>
            \/ \E n \in {0, Length(r.title)} : todo' = Script(r.title, n)
        BY <1>1, Zenon DEF BridgeStarts, Script
      <4> QED BY <2>5, <4>2, <4>3
    <3>2. PICK n \in {0, Length(t)} : todo' = Script(t, n)
      BY <3>1
    <3> DEFINE s == Script(t, n)
    <3>3. /\ s \in Seq(Frames) /\ Len(s) \in Nat /\ Len(s) >= 1
          /\ CfgEnd(t) \in Nat /\ Length(t) \in Nat
      <4>1. ScriptParts(s, CfgEnd(t), Length(t), t)
        BY ScriptIs
      <4> HIDE DEF s
      <4> QED BY <4>1 DEF ScriptParts
    <3>4. HostAt(t, 1)'
      <4>1. 1 \notin 2 .. CfgEnd(t) /\ 1 \notin CfgEnd(t) + 2 .. CfgEnd(t) + Length(t) + 2
        <5> HIDE DEF s
        <5>1. \A c \in Nat, l \in Nat : 1 \notin 2 .. c /\ 1 \notin c + 2 .. c + l + 2
          OBVIOUS
        <5> QED BY <3>3, <5>1
      <4> QED BY <4>1 DEF HostAt
    <3>5. SubSeq(s, 1, Len(s)) = s
      <4> HIDE DEF s
      <4> QED BY <3>3, WholeIs
    <3>6. InScript(t, n, 1)'
      <4>1. 1 \in 1 .. Len(s)
        BY <3>3
      <4>2. ~Out'
        BY <2>1 DEF Out
      <4> HIDE DEF Out
      <4> QED BY <3>2, <3>4, <3>5, <4>1, <4>2, Zenon DEF InScript
    <3>7. n \in Nat
      BY <3>3
    <3> QED BY <2>2, <2>3, <3>6, <3>7 DEF PushInv, ScriptInv
  <2> QED BY <2>4, <2>5
<1>2. CASE BridgeSends
  <2> DEFINE h == Head(todo)
  <2>1. /\ todo # <<>> /\ ~owed /\ toHost' = Append(toHost, h) /\ todo' = Tail(todo)
        /\ owed' = (h # Reply) /\ acks' = acks
    BY <1>2 DEF BridgeSends
  <2>2. todo \in Seq(Frames) /\ toHost \in Seq(Frames) /\ h \in Frames /\ acks = 0
    BY <1>0, <2>1 DEF TypeOK, LinkInv
  <2>3. (h.op = "reply") <=> (h = Reply)
    BY <2>2, ReplyOp
  <2>4. ~Live /\ ~Out /\ (Out' <=> h # Reply)
    BY <1>0, <2>1, <2>2 DEF LinkInv, Out
  <2> HIDE DEF h
  <2>5. /\ toHost = <<>> => toHost' = <<h>> /\ Head(toHost') = h
        /\ toHost # <<>> => toHost' # <<>> /\ Head(toHost') = Head(toHost)
    BY <2>1, <2>2, Appended
  <2>6. /\ toHost = <<>> => (Live' <=> wait /\ h.op # "reply")
        /\ toHost # <<>> => ~Live'
    BY <1>K, <2>4, <2>5 DEF Live
  <2>7. LinkInv'
    <3>1. Live' => toHost' = <<h>> /\ Out'
      BY <2>3, <2>4, <2>5, <2>6
    <3> QED BY <2>1, <2>2, <3>1 DEF LinkInv
  <2>8. MailboxInv'
    <3>1. SUFFICES ASSUME ~active', wait' PROVE toHost' # <<>> /\ Head(toHost').op = "reply"
      BY DEF MailboxInv
    <3>2. CASE toHost # <<>>
      BY <1>0, <1>K, <2>5, <3>1, <3>2 DEF MailboxInv
    <3>3. CASE toHost = <<>>
      <4>1. todo = <<Reply>>
        BY <1>0, <1>K, <3>1, <3>3 DEF MailboxInv
      <4>2. h = Reply
        BY <4>1 DEF h
      <4> QED BY <2>3, <2>5, <3>3, <4>2
    <3> QED BY <3>2, <3>3
  <2>9. PushInv'
    <3>1. CASE toHost # <<>> /\ h # Reply
      BY <2>4, <2>6, <3>1 DEF PushInv, Dead
    <3>2. ASSUME Trailing, toHost = <<>> \/ h = Reply PROVE Trailing'
      <4>1. CASE todo = <<Reply>>
        BY <2>1, <2>4, <4>1 DEF Trailing, h
      <4>2. CASE todo = <<Abort, Reply>>
        <5>1. h = Abort /\ Abort # Reply /\ todo' = <<Reply>>
          BY <2>1, <4>2 DEF h, Abort, Reply
        <5> QED BY <2>5, <3>2, <5>1 DEF Trailing
      <4> QED BY <2>1, <3>2, <4>1, <4>2 DEF Trailing
    <3>3. ASSUME NEW t \in Titles, NEW n \in Nat, NEW pos \in Nat, InScript(t, n, pos),
                 toHost = <<>> \/ h = Reply
          PROVE  PushInv'
      <4> DEFINE s == Script(t, n)
                 m == Len(s)
      <4>1. /\ s \in Seq(Frames) /\ m \in Nat /\ pos \in 1 .. m
            /\ todo = SubSeq(s, pos, m) /\ n \in {0, Length(t)} /\ HostAt(t, pos)
        BY <2>4, <3>3, ScriptIs DEF InScript, ScriptParts
      <4>2. h = s[pos] /\ todo' = SubSeq(s, pos + 1, m)
        <5> HIDE DEF s
        <5>1. /\ SubSeq(s, pos, m) # <<>> /\ Head(SubSeq(s, pos, m)) = s[pos]
              /\ Tail(SubSeq(s, pos, m)) = SubSeq(s, pos + 1, m)
          BY <4>1, SliceIs
        <5> QED BY <2>1, <4>1, <5>1 DEF h
      <4>3. CASE h = Reply
        <5>1. pos = m
          <6>1. m = CfgEnd(t) + Length(t) + 3 /\ CfgEnd(t) \in Nat /\ Length(t) \in Nat
            <7>1. ScriptParts(s, CfgEnd(t), Length(t), t)
              BY <4>1, ScriptIs
            <7> HIDE DEF s
            <7> QED BY <7>1 DEF ScriptParts
          <6>2. pos \in 1 .. CfgEnd(t) + Length(t) + 2 => s[pos].op # "reply"
            BY <4>1, Places
          <6>3. s[pos].op = "reply"
            BY <2>3, <4>2, <4>3
          <6>4. pos \in 1 .. m
            BY <4>1
          <6> HIDE DEF m, s
          <6> QED BY <6>1, <6>2, <6>3, <6>4
        <5>2. todo' = <<>>
          <6> HIDE DEF s
          <6> QED BY <4>1, <4>2, <5>1
        <5> QED BY <2>4, <4>3, <5>2 DEF PushInv, Trailing
      <4>4. CASE h # Reply
        <5>1. toHost' = <<s[pos]>> /\ Out'
          BY <2>4, <2>5, <3>3, <4>2, <4>4
        <5>2. pos < m
          <6>1. s[m] = Reply
            BY <4>1, ScriptIs DEF ScriptParts
          <6> HIDE DEF s
          <6> QED BY <4>1, <4>2, <4>4, <6>1
        <5>3. HostAt(t, pos)'
          BY <1>K, <4>1 DEF HostAt, streamVars, romVars
        <5>4. InScript(t, n, pos)'
          BY <4>1, <4>2, <5>1, <5>2, <5>3 DEF InScript
        <5> QED BY <5>4 DEF PushInv
      <4> QED BY <4>3, <4>4
    <3> QED BY <1>0, <2>4, <3>1, <3>2, <3>3 DEF PushInv, Dead
  <2> QED BY <2>7, <2>8, <2>9 DEF ScriptInv
<1>3. CASE BridgeAcked
  <2>1. UNCHANGED <<todo, toHost>> /\ ~owed' /\ ~Out /\ acks = 1 /\ acks' = 0 /\ toHost = <<>>
    BY <1>0, <1>3 DEF BridgeAcked, Out, LinkInv
  <2>2. LinkInv' /\ MailboxInv' /\ ~Out'
    BY <1>0, <1>K, <2>1 DEF LinkInv, Live, Out, MailboxInv
  <2>3. ASSUME NEW t \in Titles, NEW n \in Nat, NEW pos \in Nat, InScript(t, n, pos)
        PROVE  InScript(t, n, pos)'
    BY <1>K, <2>1, <2>2, <2>3 DEF InScript, HostAt, streamVars, romVars
  <2>4. Trailing => Trailing'
    BY <2>1, <2>2 DEF Trailing
  <2> QED BY <1>0, <2>1, <2>2, <2>3, <2>4 DEF PushInv, Dead, ScriptInv
<1>4. CASE BridgeAborts
  <2>1. /\ todo' = <<Abort, Reply>> /\ ~owed' /\ UNCHANGED <<toHost, acks>> /\ acks = 0
        /\ ~Live /\ Len(todo) > 1
    BY <1>0, <1>4 DEF BridgeAborts, Unanswered, LinkInv, Live, Out, TypeOK
  <2>2. LinkInv'
    BY <1>K, <2>1 DEF LinkInv, Live
  <2>3. MailboxInv'
    <3>1. todo # <<Reply>>
      <4>1. Len(<<Reply>>) = 1
        OBVIOUS
      <4> QED BY <2>1, <4>1
    <3> QED BY <1>0, <1>K, <2>1, <3>1 DEF MailboxInv
  <2> QED BY <2>1, <2>2, <2>3 DEF ScriptInv, PushInv, Trailing, Out
<1>5. CASE BridgeRefuses
  <2>1. todo = <<Reply>> /\ ~owed' /\ UNCHANGED <<todo, toHost, acks>> /\ acks = 0 /\ ~Live
    BY <1>0, <1>5 DEF BridgeRefuses, Unanswered, Live
  <2>2. LinkInv' /\ MailboxInv'
    BY <1>0, <1>K, <2>1 DEF LinkInv, Live, MailboxInv
  <2> QED BY <2>1, <2>2 DEF ScriptInv, PushInv, Trailing, Out
<1> QED BY <1>1, <1>2, <1>3, <1>4, <1>5 DEF Bridge

LEMMA NextScript == TypeOK /\ ScriptInv /\ [Next]_vars => ScriptInv'
<1> SUFFICES ASSUME TypeOK, ScriptInv, [Next]_vars PROVE ScriptInv'
  OBVIOUS
<1>0. LinkInv /\ PushInv /\ MailboxInv
  BY DEF ScriptInv
<1>1. ASSUME NEW r \in Requests, StartTxn(r) PROVE ScriptInv'
  <2>1. LinkInv' /\ PushInv'
    BY <1>0, <1>1, NotWaited DEF StartTxn, Live
  <2>2. MailboxInv'
    BY <1>1 DEF StartTxn, MailboxInv
  <2> QED BY <2>1, <2>2 DEF ScriptInv
<1>2. ASSUME TxnFails \/ RxReply PROVE ScriptInv'
  <2>1. UNCHANGED <<streamVars, todo, owed, acks>> /\ ~wait'
    BY <1>2 DEF TxnFails, RxReply, Rx, consoleVars, peerVars
  <2>2. acks > 0 => toHost' = <<>>
    <3>1. acks > 0 => toHost = <<>>
      BY <1>0 DEF LinkInv
    <3> QED BY <1>2, <3>1 DEF TxnFails, RxReply, Rx
  <2>3. LinkInv' /\ PushInv'
    BY <1>0, <2>1, <2>2, NotWaited DEF Live
  <2>4. MailboxInv'
    BY <2>1 DEF MailboxInv
  <2> QED BY <2>3, <2>4 DEF ScriptInv
<1>3. ASSUME LinkDrops PROVE ScriptInv'
  BY <1>3 DEF LinkDrops, ScriptInv, LinkInv, PushInv, Trailing, Live, Out, MailboxInv
<1>4. ASSUME RxOpenRom PROVE LinkInv' /\ PushInv' /\ MailboxInv'
  <2>1. RxDbc("open") /\ stream' = "rom" /\ romBuf' = <<>> /\ Head(toHost).stream = "rom"
    BY <1>4 DEF RxOpenRom
  <2>2. LinkInv' /\ active' = TRUE
    BY <1>4, <2>1, ReadsFrame DEF RxOpenRom, TypeOK
  <2>3. PICK t \in Titles, n \in Nat, pos \in Nat : InFlight(t, n, pos)
    BY <2>1, ReadsFrame
  <2>4. Head(toHost).op = "open"
    BY <2>1 DEF RxDbc, Rx
  <2>5. pos = CfgEnd(t) + 1 /\ CfgEnd(t) \in Nat /\ Length(t) \in Nat
    BY <2>1, <2>3, <2>4, FlightIs
  <2>6. HostAt(t, pos + 1)'
    BY <2>1, <2>5 DEF HostAt
  <2> QED BY <2>1, <2>2, <2>3, <2>6, ReadsNext DEF MailboxInv
<1>5. ASSUME RxOpenCfg PROVE LinkInv' /\ PushInv' /\ MailboxInv'
  <2>1. RxDbc("open") /\ stream' = "cfg" /\ Head(toHost).stream = "cfg"
    BY <1>5 DEF RxOpenCfg
  <2>2. LinkInv' /\ active' = TRUE
    BY <1>5, <2>1, ReadsFrame DEF RxOpenCfg, TypeOK
  <2>3. PICK t \in Titles, n \in Nat, pos \in Nat : InFlight(t, n, pos)
    BY <2>1, ReadsFrame
  <2>4. Head(toHost).op = "open"
    BY <2>1 DEF RxDbc, Rx
  <2>5. pos = 1 /\ CfgEnd(t) \in Nat /\ CfgEnd(t) >= 2 /\ Length(t) \in Nat
    BY <2>1, <2>3, <2>4, FlightIs
  <2>6. HostAt(t, pos + 1)'
    BY <2>1, <2>5 DEF HostAt
  <2> QED BY <2>1, <2>2, <2>3, <2>6, ReadsNext DEF MailboxInv
<1>6. ASSUME RxWriteRom PROVE LinkInv' /\ PushInv' /\ MailboxInv'
  <2>1. RxDbc("write") /\ stream = "rom" /\ stream' = "rom"
    BY <1>6 DEF RxWriteRom
  <2>2. LinkInv' /\ active' = TRUE
    BY <1>6, <2>1, ReadsFrame DEF RxWriteRom, TypeOK
  <2>3. PICK t \in Titles, n \in Nat, pos \in Nat : InFlight(t, n, pos)
    BY <2>1, ReadsFrame
  <2>4. Head(toHost).op = "write"
    BY <2>1 DEF RxDbc, Rx
  <2> DEFINE c == CfgEnd(t)
             l == Length(t)
             h == Head(toHost).chunk
             k == pos - c - 2
  <2>5. c \in Nat /\ l \in Nat /\ (pos \in 2 .. c => stream = "cfg")
    BY <2>3, <2>4, FlightIs DEF HostAt
  <2>6. pos \in c + 2 .. c + l + 1 /\ h = [of |-> t, i |-> pos - c - 1]
    <3> HIDE DEF c, l
    <3>1. pos \in 2 .. c - 1 \/ (pos \in c + 2 .. c + l + 1 /\ h = [of |-> t, i |-> pos - c - 1])
      BY <2>3, <2>4, FlightIs DEF c, l
    <3> QED BY <2>1, <2>5, <3>1
  <2>7. \/ romTruncated
        \/ /\ Len(romBuf) = k
           /\ \A i \in 1 .. k : romBuf[i] = [of |-> t, i |-> i]
    <3> HIDE DEF c, l
    <3>1. HostAt(t, pos) /\ pos \in c + 2 .. c + l + 2
      BY <2>3, <2>5, <2>6 DEF InFlight
    <3> QED BY <3>1 DEF HostAt, c, l
  <2>8. romTruncated' \/ (~romTruncated /\ romBuf' = Append(romBuf, h))
    BY <1>6 DEF RxWriteRom
  <2> HIDE DEF c, l, h
  <2>9. \/ romTruncated'
        \/ /\ Len(romBuf') = k + 1
           /\ \A i \in 1 .. k + 1 : romBuf'[i] = [of |-> t, i |-> i]
    <3>1. romBuf \in Seq(Chunk)
      BY DEF TypeOK
    <3>2. k \in Nat /\ pos - c - 1 = k + 1
      BY <2>5, <2>6
    <3> HIDE DEF k
    <3>3. ASSUME Len(romBuf) = k, \A i \in 1 .. k : romBuf[i] = [of |-> t, i |-> i],
                 romBuf' = Append(romBuf, h)
          PROVE  Len(romBuf') = k + 1
                 /\ \A i \in 1 .. k + 1 : romBuf'[i] = [of |-> t, i |-> i]
      <4>1. Len(romBuf') = k + 1 /\ romBuf'[k + 1] = h
            /\ \A i \in 1 .. k : romBuf'[i] = romBuf[i]
        BY <3>1, <3>2, <3>3
      <4>2. h = [of |-> t, i |-> k + 1]
        BY <2>6, <3>2
      <4>3. \A i \in 1 .. k + 1 : i \in 1 .. k \/ i = k + 1
        BY <3>2
      <4> QED BY <3>3, <4>1, <4>2, <4>3
    <3> QED BY <2>7, <2>8, <3>3
  <2>10. HostAt(t, pos + 1)'
    <3>1. (pos + 1) - c - 2 = k + 1 /\ pos + 1 > c
      BY <2>5, <2>6
    <3> QED BY <2>1, <2>5, <2>9, <3>1 DEF HostAt, c, l
  <2> QED BY <2>1, <2>2, <2>3, <2>10, ReadsNext DEF MailboxInv
<1>7. ASSUME RxWriteCfg PROVE LinkInv' /\ PushInv' /\ MailboxInv'
  <2>1. RxDbc("write") /\ stream = "cfg" /\ stream' = "cfg"
    BY <1>7 DEF RxWriteCfg
  <2>2. LinkInv' /\ active' = TRUE
    BY <1>7, <2>1, ReadsFrame DEF RxWriteCfg, TypeOK
  <2>3. PICK t \in Titles, n \in Nat, pos \in Nat : InFlight(t, n, pos)
    BY <2>1, ReadsFrame
  <2>4. Head(toHost).op = "write"
    BY <2>1 DEF RxDbc, Rx
  <2>5. CfgEnd(t) \in Nat /\ Length(t) \in Nat /\ HostAt(t, pos)
    BY <2>3, <2>4, FlightIs
  <2>6. pos \in 2 .. CfgEnd(t) - 1
    <3>1. pos \in 2 .. CfgEnd(t) - 1 \/ pos \in CfgEnd(t) + 2 .. CfgEnd(t) + Length(t) + 1
      BY <2>3, <2>4, FlightIs
    <3>2. pos \in CfgEnd(t) + 2 .. CfgEnd(t) + Length(t) + 2 => stream = "rom"
      BY <2>5 DEF HostAt
    <3> QED BY <2>1, <2>5, <3>1, <3>2
  <2>7. HostAt(t, pos + 1)'
    <3>1. pos + 1 \notin CfgEnd(t) + 2 .. CfgEnd(t) + Length(t) + 2
      BY <2>5, <2>6
    <3> QED BY <2>1, <3>1 DEF HostAt
  <2> QED BY <2>1, <2>2, <2>3, <2>7, ReadsNext DEF MailboxInv
<1>8. ASSUME RxCloseCfg PROVE LinkInv' /\ PushInv' /\ MailboxInv'
  <2>1. RxDbc("close") /\ stream # "rom"
    BY <1>8 DEF RxCloseCfg
  <2>2. LinkInv' /\ active' = TRUE
    BY <1>8, <2>1, ReadsFrame DEF RxCloseCfg, TypeOK
  <2>3. PICK t \in Titles, n \in Nat, pos \in Nat : InFlight(t, n, pos)
    BY <2>1, ReadsFrame
  <2>4. Head(toHost).op = "close"
    BY <2>1 DEF RxDbc, Rx
  <2>5. CfgEnd(t) \in Nat /\ Length(t) \in Nat /\ HostAt(t, pos)
        /\ (pos = CfgEnd(t) \/ pos = CfgEnd(t) + Length(t) + 2)
    BY <2>3, <2>4, FlightIs
  <2>6. pos = CfgEnd(t)
    <3>1. pos \in CfgEnd(t) + 2 .. CfgEnd(t) + Length(t) + 2 => stream = "rom"
      BY <2>5 DEF HostAt
    <3> QED BY <2>1, <2>5, <3>1
  <2>7. HostAt(t, pos + 1)'
    <3>1. pos + 1 \notin CfgEnd(t) + 2 .. CfgEnd(t) + Length(t) + 2
          /\ pos + 1 \notin 2 .. CfgEnd(t)
      BY <2>5, <2>6
    <3> QED BY <3>1 DEF HostAt
  <2> QED BY <2>1, <2>2, <2>3, <2>7, ReadsNext DEF MailboxInv
<1>9. ASSUME RxAbort PROVE LinkInv' /\ PushInv' /\ MailboxInv'
  <2>1. RxDbc("abort")
    BY <1>9 DEF RxAbort
  <2>2. LinkInv' /\ active' = TRUE
    BY <1>9, <2>1, ReadsFrame DEF RxAbort, TypeOK
  <2>3. Head(toHost).op = "abort"
    BY <2>1 DEF RxDbc, Rx
  <2>4. Trailing'
    BY <2>1, <2>3, ReadsFrame, FlightIs
  <2> QED BY <2>2, <2>4 DEF PushInv, MailboxInv
<1>10. ASSUME RxCloseRom PROVE LinkInv' /\ PushInv' /\ MailboxInv'
  <2>1. RxDbc("close") /\ stream = "rom"
    BY <1>10 DEF RxCloseRom
  <2>2. PICK t \in Titles, n \in Nat, pos \in Nat : InFlight(t, n, pos)
    BY <2>1, ReadsFrame
  <2>3. pos = CfgEnd(t) + Length(t) + 2 /\ CfgEnd(t) \in Nat /\ Length(t) \in Nat
    BY <2>1, <2>2, RomClosed
  <2>4. HostAt(t, pos + 1)'
    <3>1. pos + 1 \notin CfgEnd(t) + 2 .. CfgEnd(t) + Length(t) + 2
          /\ pos + 1 \notin 2 .. CfgEnd(t)
      BY <2>3
    <3> QED BY <3>1 DEF HostAt
  <2>5. todo' = <<Reply>> /\ toHost' = <<>>
    <3> DEFINE s == Script(t, n)
               m == CfgEnd(t) + Length(t) + 3
    <3>1. s \in Seq(Frames) /\ Len(s) = m /\ s[m] = Reply /\ n \in {0, Length(t)}
      <4>1. n \in {0, Length(t)}
        BY <2>2 DEF InFlight
      <4>2. ScriptParts(s, CfgEnd(t), Length(t), t)
        BY <4>1, ScriptIs
      <4> HIDE DEF s
      <4> QED BY <4>1, <4>2 DEF ScriptParts
    <3>2. todo = SubSeq(s, pos + 1, Len(s))
      BY <2>2 DEF InFlight
    <3>3. m \in Nat /\ m > 0 /\ pos + 1 = m
      BY <2>3
    <3> HIDE DEF s, m
    <3>4. SubSeq(s, m, m) = <<s[m]>>
      BY <3>1, <3>3, LastIs
    <3> QED BY <2>1, <3>1, <3>2, <3>3, <3>4, ReadsFrame
  <2>6. LinkInv'
    BY <2>1, ReadsFrame
  <2> QED BY <2>1, <2>2, <2>4, <2>5, <2>6, ReadsNext DEF MailboxInv
<1>11. ASSUME CpuRuns \/ BusReset \/ UNCHANGED vars PROVE ScriptInv'
  BY <1>11, KeptScript DEF CpuRuns, BusReset, CpuOnly, vars, consoleVars, peerVars
<1>12. ASSUME Bridge PROVE ScriptInv'
  BY <1>12, BridgeScript
<1> QED
  BY <1>1, <1>2, <1>3, <1>4, <1>5, <1>6, <1>7, <1>8, <1>9, <1>10, <1>11, <1>12
  DEF Next, RxFrame, ScriptInv

LEMMA ScriptAlways == Spec => []ScriptInv
BY InitScript, NextScript, TypeCorrect, PTL DEF Spec

\* With a startup cartridge of the icart_t, the console keeps the promise of
\* CartSlot: the slot changes in one step of fujinet_apply_rom() or not at all,
\* it takes only the whole ROM of one title, whatever transactions fail, links
\* drop and pushes are broken off on the way, and the mailbox goes with it.
THEOREM KeepsSlot ==
    ASSUME ~StartLegacy
    PROVE  Spec => SlotSpec
<1>1. Init => Slot!SlotInit
  BY DEF Init, Slot!SlotInit
<1>2. TypeOK /\ CartInv /\ ScriptInv /\ [Next]_vars => [Slot!SlotNext]_(Slot!svars)
  <2> SUFFICES ASSUME TypeOK, CartInv, ScriptInv, [Next]_vars, ~(UNCHANGED <<bound, active>>)
               PROVE  Slot!SlotNext
    BY DEF Slot!svars
  <2>1. RxCloseRom /\ Boots
    <3>1. \A r \in Requests : ~StartTxn(r)
      BY DEF StartTxn, cartVars
    <3>2. ~(TxnFails \/ LinkDrops \/ RxReply \/ CpuRuns \/ BusReset \/ Bridge \/ UNCHANGED vars)
      BY DEF TxnFails, LinkDrops, RxReply, CpuRuns, BusReset, CpuOnly, Bridge, BridgeStarts,
         BridgeSends, BridgeAcked, BridgeAborts, BridgeRefuses, BridgeOnly, consoleVars,
         cartVars, vars
    <3>3. ~(RxOpenRom \/ RxOpenCfg \/ RxWriteRom \/ RxWriteCfg \/ RxCloseCfg \/ RxAbort)
      BY DEF RxOpenRom, RxOpenCfg, RxWriteRom, RxWriteCfg, RxCloseCfg, RxAbort, cartVars
    <3>4. ~BootFails
      BY DEF BootFails, cartVars
    <3> QED BY <3>1, <3>2, <3>3, <3>4 DEF Next, RxFrame, RxCloseRom
  <2>2. RxDbc("close") /\ stream = "rom" /\ ~romTruncated
    BY <2>1 DEF RxCloseRom, Boots
  <2>3. active = TRUE
    BY <2>2, ReadsFrame DEF TypeOK
  <2>4. PICK t \in Titles : romBuf = Rom(t)
    BY <2>2, ReadsFrame, RomClosed
  <2>5. PICK img : Commit(img) /\ img.rom = romBuf
    BY <2>1 DEF Boots, BootIcart, BootPair
  <2>6. bound' = {img} /\ active' = ~InWindow(img)
    BY <2>3, <2>5, CommitCart DEF Commit
  <2>7. Slot!Boot(img)
    BY <2>3, <2>4, <2>5, <2>6 DEF Slot!Boot, WholeRom
  <2> QED BY <2>6, <2>7 DEF Slot!SlotNext
<1> QED
  BY <1>1, <1>2, TypeCorrect, CartAlways, ScriptAlways, PTL DEF Spec, SlotSpec, Slot!SlotSpec
=============================================================================
