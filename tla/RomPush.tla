------------------------------- MODULE RomPush -------------------------------
(***************************************************************************)
(* fujinet.c: a ROM push.  While a MOUNT_IMAGE transaction waits for its   *)
(* reply, the bridge sends the cartridge to the host in DBC frames, an     *)
(* optional .cfg stream and then the ROM stream, and the CLOSE of the ROM  *)
(* stream replaces the cartridge of the running console.  Each frame is    *)
(* one action of fujinet_handle_dbc_frame() with everything it calls; the  *)
(* CPU, which runs between the ticks, and the bridge are actors of their   *)
(* own.  The transaction itself is in FujiMailbox; here it is the flag     *)
(* `wait', which says whether fujinet_tick() reads frames.                 *)
(*                                                                         *)
(* Data are chunks, [of |-> title, i |-> n]: the n-th part of a file.  A   *)
(* cartridge on the bus is an image, the ROM and the .cfg it was made from.*)
(***************************************************************************)
EXTENDS Integers, Sequences, FiniteSets

CONSTANTS Titles,       \* the cartridges the bridge can push
          Start,        \* the startup cartridge; also, no title at all
          Hdr,          \* those with an Intellicart/CC3 header
          Paired,       \* those pushed with a .cfg
          BigCfg,       \* those whose .cfg is longer than cfg_buf
          Covers,       \* those whose map covers the mailbox window
          Jlp,          \* those whose .cfg asks for JLP
          Odd,          \* those whose ROM is one chunk longer than the others
          RomLen,       \* chunks of a ROM
          KnownLens,    \* lengths in the table of sizes
          CfgRoom,      \* chunks that fit in cfg_buf
          GuessLen,     \* denominator of the progress bar without a size
          StartLegacy,  \* is the startup cartridge a BIN+CFG?
          MaxTxns,      \* bound: transactions
          MaxFaults     \* bound: lost links, garbled frames, failed allocations and writes

ASSUME PushAssumption ==
    /\ Start \notin Titles
    /\ Hdr \subseteq Titles /\ Paired \subseteq Titles /\ BigCfg \subseteq Paired
    /\ Covers \subseteq Titles /\ Jlp \subseteq Paired /\ Odd \subseteq Titles
    /\ RomLen \in Nat \ {0} /\ GuessLen \in Nat \ {0} /\ CfgRoom \in Nat \ {0}
    /\ KnownLens \subseteq Nat
    /\ StartLegacy \in BOOLEAN
    /\ MaxTxns \in Nat /\ MaxFaults \in Nat

Chunk      == [of : Titles \cup {Start}, i : Nat]
File(t, n) == [k \in 1..n |-> [of |-> t, i |-> k]]
Length(t)  == IF t \in Odd THEN RomLen + 1 ELSE RomLen
Rom(t)     == File(t, Length(t))
CfgLen(t)  == IF t \in BigCfg THEN CfgRoom + 1 ELSE CfgRoom

Image      == [rom : Seq(Chunk), cfg : Seq(Chunk)]
NoImage    == [rom |-> <<>>, cfg |-> <<>>]
StartImage == [rom |-> Rom(Start), cfg |-> <<>>]

\* Whose memory map the image has: its .cfg's, or else its own.
Mapper(img)   == IF img.cfg = <<>> THEN img.rom[1].of ELSE img.cfg[1].of
WantsJlp(img) == img.cfg # <<>> /\ Mapper(img) \in Jlp
InWindow(img) == Mapper(img) \in Covers \/ WantsJlp(img)

Frames == [op : {"open"}, stream : {"rom", "cfg"}, total : {0, RomLen, RomLen + 1}]
             \cup [op : {"write"}, chunk : Chunk]
             \cup [op : {"close", "abort", "reply"}]
Requests == [kind : {"path", "mount"}, title : Titles]

VARIABLES
    \* the connection, the transaction, and the cells of the boot progress
    link, wait, active, bootState, pct, bootErr,
    \* the stream being received: fujinet_t's bootdump_*, rom_*, cfg_*
    stream, romBuf, romTruncated, expected, sofar, cfgBuf, haveCfg, cfgTruncated,
    \* the cartridge: the image in the icart_t, the legacy_t in use, the images
    \* that answer on the bus, the one JLP was set up for, whose save file that
    \* opened, and the name for the next one
    icart, legacy, bound, jlp, jlpSave, lastPath,
    \* the CPU: images whose ranges it may cache, those it holds decoded
    \* instructions of, the one it runs, and the resets that are pending
    cacheable, decoded, running, cpuPend, busPend,
    \* the bridge: its requests, the frames it has yet to send, whether it is
    \* owed an ACK; and the two directions of the connection
    requests, todo, owed, toHost, acks,
    \* budgets
    txns, faults

cellVars   == <<bootState, pct, bootErr>>
romVars    == <<romBuf, romTruncated, expected, sofar>>
cfgVars    == <<cfgBuf, haveCfg, cfgTruncated>>
streamVars == <<stream, romVars, cfgVars>>
cartVars   == <<icart, legacy, bound, jlp, jlpSave>>
cpuVars    == <<cacheable, decoded, running, cpuPend, busPend>>
peerVars   == <<requests, todo, owed>>
consoleVars == <<active, cellVars, streamVars, cartVars, lastPath, cpuVars>>
vars == <<link, wait, consoleVars, peerVars, toHost, acks, txns, faults>>

TypeOK ==
    /\ link \in BOOLEAN /\ wait \in BOOLEAN /\ active \in BOOLEAN
    /\ bootState \in {"IDLE", "OPENING", "XFER", "MAPPING", "FAILED"}
    /\ pct \in 0..100
    /\ bootErr \in {"none", "TRUNCATED", "NOMAP", "CFGBAD"}
    /\ stream \in {"none", "rom", "cfg"}
    /\ romBuf \in Seq(Chunk) /\ cfgBuf \in Seq(Chunk)
    /\ romTruncated \in BOOLEAN /\ cfgTruncated \in BOOLEAN /\ haveCfg \in BOOLEAN
    /\ expected \in {0, RomLen, RomLen + 1} /\ sofar \in Nat
    /\ icart \in Image /\ legacy \in Image /\ jlp \in Image
    /\ bound \subseteq Image
    /\ jlpSave \in Titles \cup {Start} /\ lastPath \in Titles \cup {Start}
    /\ cacheable \subseteq Image /\ decoded \subseteq Image /\ running \in Image
    /\ cpuPend \in BOOLEAN /\ busPend \in BOOLEAN
    /\ requests \in Seq(Requests) /\ todo \in Seq(Frames) /\ owed \in BOOLEAN
    /\ toHost \in Seq(Frames) /\ acks \in Nat
    /\ txns \in 0..MaxTxns /\ faults \in 0..MaxFaults

\* fujinet_init(), after cfg_init() has put the startup cartridge on the bus.
Init ==
    /\ link = TRUE /\ wait = FALSE /\ active = TRUE
    /\ bootState = "IDLE" /\ pct = 0 /\ bootErr = "none"
    /\ stream = "none"
    /\ romBuf = <<>> /\ romTruncated = FALSE /\ expected = 0 /\ sofar = 0
    /\ cfgBuf = <<>> /\ haveCfg = FALSE /\ cfgTruncated = FALSE
    /\ icart = IF StartLegacy THEN NoImage ELSE StartImage
    /\ legacy = NoImage /\ jlp = NoImage
    /\ bound = {StartImage}
    /\ jlpSave = Start /\ lastPath = Start
    /\ cacheable = {StartImage} /\ decoded = {} /\ running = StartImage
    /\ cpuPend = TRUE /\ busPend = FALSE
    /\ requests = <<>> /\ todo = <<>> /\ owed = FALSE
    /\ toHost = <<>> /\ acks = 0
    /\ txns = 0 /\ faults = 0

-----------------------------------------------------------------------------
(* The transaction (FujiMailbox), as far as a push can see it.             *)

\* fujinet_start_txn(): what has already arrived is drained; without a
\* connection the transaction is over at once (FB_ENOLINK).  The path is kept
\* whatever becomes of it.  The program sends the path of a cartridge before
\* it mounts it.
StartTxn(r) ==
    /\ active
    /\ ~wait /\ txns < MaxTxns
    /\ r.kind = "mount" => lastPath = r.title
    /\ txns' = txns + 1
    /\ \/ link /\ wait' = TRUE /\ requests' = Append(requests, r)
       \/ ~link /\ UNCHANGED <<wait, requests>>
    /\ toHost' = <<>>
    /\ lastPath' = IF r.kind = "path" THEN r.title ELSE lastPath
    /\ UNCHANGED <<link, active, cellVars, streamVars, cartVars, cpuVars, todo, owed, acks, faults>>

Fault == faults < MaxFaults /\ faults' = faults + 1

\* A deadline that passes, or a frame that does not parse and is gone.
TxnFails ==
    /\ wait
    /\ Fault
    /\ wait' = FALSE
    /\ \/ UNCHANGED toHost
       \/ toHost # <<>> /\ toHost' = Tail(toHost)
    /\ UNCHANGED <<link, consoleVars, peerVars, acks, txns>>

\* The connection is lost, with all that either side had under way, and for
\* good: fujinet_fail_link() ends in fujinet_finish_txn(), which leaves IDLE
\* with a closed socket (LinkRecovers, in FujiMailbox).  A loss while no
\* transaction waits is noticed by the next one, which fails likewise.
LinkDrops ==
    /\ link /\ link' = FALSE
    /\ Fault
    /\ wait' = FALSE
    /\ toHost' = <<>> /\ acks' = 0
    /\ requests' = <<>> /\ todo' = <<>> /\ owed' = FALSE
    /\ UNCHANGED <<consoleVars, txns>>

\* fujinet_tick() takes a frame off the connection ...
Rx(op) == /\ wait
          /\ toHost # <<>>
          /\ Head(toHost).op = op
          /\ toHost' = Tail(toHost)
          /\ UNCHANGED <<link, requests, todo, owed, txns>>

RxReply ==
    /\ Rx("reply")
    /\ wait' = FALSE
    /\ UNCHANGED <<consoleVars, acks, faults>>

\* ... and a DBC frame ends with fujinet_dbc_send_ack().
RxDbc(op) == /\ Rx(op)
             /\ acks' = acks + 1
             /\ UNCHANGED <<wait, lastPath>>

-----------------------------------------------------------------------------
(* fujinet_handle_dbc_frame(): NETCMD_OPEN and NETCMD_WRITE.  A bridge that *)
(* waits for each ACK never writes to a stream that is not open.           *)

\* Mutant: the buffer keeps what an unfinished push left in it.
RxOpenRomKeeps ==
    /\ RxDbc("open")
    /\ Head(toHost).stream = "rom"
    /\ stream' = "rom"
    /\ romTruncated' = FALSE
    /\ expected' = Head(toHost).total /\ sofar' = 0
    /\ bootState' = "XFER" /\ pct' = 0 /\ bootErr' = "none"
    /\ UNCHANGED <<active, romBuf, cfgVars, cartVars, cpuVars, faults>>

RxOpenRom ==
    /\ RxDbc("open")
    /\ Head(toHost).stream = "rom"
    /\ stream' = "rom"
    /\ romBuf' = <<>> /\ romTruncated' = FALSE
    /\ expected' = Head(toHost).total /\ sofar' = 0
    /\ bootState' = "XFER" /\ pct' = 0 /\ bootErr' = "none"
    /\ UNCHANGED <<active, cfgVars, cartVars, cpuVars, faults>>

RxOpenCfg ==
    /\ RxDbc("open")
    /\ Head(toHost).stream = "cfg"
    /\ stream' = "cfg"
    /\ cfgBuf' = <<>> /\ haveCfg' = FALSE /\ cfgTruncated' = FALSE
    /\ bootState' = "OPENING"
    /\ UNCHANGED <<active, pct, bootErr, romVars, cartVars, cpuVars, faults>>

Smaller(m, n) == IF m < n THEN m ELSE n

Total == IF expected = 0 THEN GuessLen ELSE expected

\* Mutant: nothing holds the bar back.
PercentUnclamped(done) == (done * 100) \div Total

\* The bar stops at 99 until the cartridge is mapped.
Percent(done) == Smaller((done * 100) \div Total, 99)

RxWriteRom ==
    /\ RxDbc("write")
    /\ stream = "rom"
    /\ \/ /\ ~romTruncated
          /\ romBuf' = Append(romBuf, Head(toHost).chunk)
          /\ UNCHANGED <<romTruncated, faults>>
       \/ /\ ~romTruncated /\ Fault          \* realloc() fails
          /\ romTruncated' = TRUE
          /\ UNCHANGED romBuf
       \/ /\ romTruncated
          /\ UNCHANGED <<romBuf, romTruncated, faults>>
    /\ sofar' = sofar + 1
    /\ pct' = Percent(sofar + 1)
    /\ UNCHANGED <<active, bootState, bootErr, stream, expected, cfgVars, cartVars, cpuVars>>

RxWriteCfg ==
    /\ RxDbc("write")
    /\ stream = "cfg"
    /\ \/ /\ Len(cfgBuf) < CfgRoom
          /\ cfgBuf' = Append(cfgBuf, Head(toHost).chunk)
          /\ UNCHANGED cfgTruncated
       \/ /\ Len(cfgBuf) = CfgRoom
          /\ cfgTruncated' = TRUE
          /\ UNCHANGED cfgBuf
    /\ UNCHANGED <<active, cellVars, stream, romVars, haveCfg, cartVars, cpuVars, faults>>

-----------------------------------------------------------------------------
(* NETCMD_CLOSE, of the .cfg stream, of none, or as an abort.              *)

RxCloseCfg ==
    /\ RxDbc("close")
    /\ stream # "rom"
    /\ stream' = "none"
    /\ haveCfg' = IF stream = "cfg" THEN cfgBuf # <<>> ELSE haveCfg
    /\ UNCHANGED <<active, cellVars, romVars, cfgBuf, cfgTruncated, cartVars, cpuVars, faults>>

DropCfg == haveCfg' = FALSE /\ cfgBuf' = <<>> /\ UNCHANGED cfgTruncated

Failed(e) == /\ bootState' = "FAILED"
             /\ bootErr' = e
             /\ UNCHANGED pct

RxAbort ==
    /\ RxDbc("abort")
    /\ stream' = "none"
    /\ DropCfg
    /\ \/ stream = "rom" /\ Failed("TRUNCATED")
       \/ stream # "rom" /\ UNCHANGED cellVars
    /\ UNCHANGED <<active, romVars, cartVars, cpuVars, faults>>

-----------------------------------------------------------------------------
(* NETCMD_CLOSE of the ROM stream: fujinet_apply_rom().                    *)

IsHeader == \E t \in Hdr : romBuf = Rom(t)      \* icartrom_decode(): table and CRCs
IsPair   == ~IsHeader /\ haveCfg /\ romBuf # <<>>
IsFlat   == ~IsHeader /\ ~IsPair /\ Len(romBuf) \in KnownLens /\ romBuf # <<>>

\* Mutant: only the icart_t is ever taken off the bus.
OutgoingIcart == icart

\* fujinet_retire_cart(): what it takes off the bus.
Outgoing == IF legacy = NoImage THEN icart ELSE legacy

\* Mutant: the CPU is left running until the reset of the bus.
SwitchCpuRunning(img) ==
    /\ cacheable' = {img}
    /\ decoded' = {}
    /\ busPend' = TRUE
    /\ UNCHANGED <<cpuPend, running>>

\* cp1600_uncacheable_all(), the new cartridge's own ranges,
\* cp1600_invalidate(), cp1600_reset(), and periph_reset(), which is latched.
SwitchCpu(img) ==
    /\ cacheable' = {img}
    /\ decoded' = {}
    /\ cpuPend' = TRUE /\ busPend' = TRUE
    /\ UNCHANGED running

\* Mutant: the mailbox stays on whatever the cartridge maps.
CommitMailboxOn(img) ==
    /\ bound' = (bound \ {Outgoing}) \cup {img}
    /\ SwitchCpu(img)
    /\ UNCHANGED active

Commit(img) ==
    /\ bound' = (bound \ {Outgoing}) \cup {img}
    /\ active' = (active /\ ~InWindow(img))
    /\ SwitchCpu(img)

\* A header or a length in the table: the image goes into the icart_t.
BootIcart ==
    /\ IsHeader \/ IsFlat
    /\ LET img == [rom |-> romBuf, cfg |-> <<>>]
       IN  Commit(img) /\ icart' = img
    /\ legacy' = NoImage
    /\ UNCHANGED <<jlp, jlpSave, faults>>

\* fujinet_apply_bincfg(): a legacy_t, and JLP when the .cfg asks for it
\* (fujinet_apply_jlp(), whose failure leaves the cartridge running).
BootPair ==
    /\ IsPair
    /\ LET img == [rom |-> romBuf, cfg |-> cfgBuf]
       IN  /\ Commit(img) /\ legacy' = img
           /\ \/ /\ WantsJlp(img)
                 /\ jlp' = img /\ jlpSave' = lastPath
                 /\ UNCHANGED faults
              \/ /\ WantsJlp(img) /\ jlp = NoImage /\ Fault
                 /\ UNCHANGED <<jlp, jlpSave>>
              \/ /\ ~WantsJlp(img)
                 /\ UNCHANGED <<jlp, jlpSave, faults>>
    /\ UNCHANGED icart

Boots ==
    /\ ~romTruncated
    /\ BootIcart \/ BootPair
    /\ bootState' = "MAPPING" /\ pct' = 100
    /\ UNCHANGED bootErr

\* Mutant: the push is decoded into the live icart_t.
BootFailsInPlace ==
    /\ ~romTruncated /\ ~IsHeader /\ ~IsPair /\ ~IsFlat
    /\ Failed("NOMAP")
    /\ icart' = NoImage
    /\ UNCHANGED <<active, legacy, bound, jlp, jlpSave, cpuVars, faults>>

\* Every way to fail comes before the commit.
BootFails ==
    /\ \/ romTruncated /\ Failed("TRUNCATED") /\ UNCHANGED faults
       \/ ~romTruncated /\ IsPair /\ Failed("CFGBAD") /\ UNCHANGED faults
       \/ ~romTruncated /\ IsPair /\ Failed("TRUNCATED") /\ Fault   \* staging
       \/ ~romTruncated /\ ~IsHeader /\ ~IsPair /\ ~IsFlat
             /\ Failed("NOMAP") /\ UNCHANGED faults
       \/ ~romTruncated /\ Failed("NOMAP") /\ Fault                 \* scratch, words
    /\ UNCHANGED <<active, cartVars, cpuVars>>

RxCloseRom ==
    /\ RxDbc("close")
    /\ stream = "rom"
    /\ stream' = "none"
    /\ DropCfg
    /\ Boots \/ BootFails
    /\ UNCHANGED romVars

-----------------------------------------------------------------------------
(* The CPU runs between two ticks; the latched reset of the bus comes at   *)
(* the end of the batch of peripherals.                                    *)

CpuOnly == UNCHANGED <<link, wait, active, cellVars, streamVars, cartVars, lastPath, cacheable,
                       peerVars, toHost, acks, txns, faults>>

CpuRuns ==
    /\ \/ /\ cpuPend
          /\ cpuPend' = FALSE
          /\ running' \in bound
          /\ UNCHANGED decoded
       \/ /\ ~cpuPend
          /\ decoded' = decoded \cup cacheable
          /\ UNCHANGED <<cpuPend, running>>
    /\ UNCHANGED busPend
    /\ CpuOnly

BusReset ==
    /\ busPend
    /\ busPend' = FALSE /\ cpuPend' = TRUE
    /\ UNCHANGED <<decoded, running>>
    /\ CpuOnly

-----------------------------------------------------------------------------
(* The bridge: one request at a time, one unacknowledged frame at a time.  *)

OpenFrame(s, n) == [op |-> "open", stream |-> s, total |-> n]
Writes(f)       == [k \in 1..Len(f) |-> [op |-> "write", chunk |-> f[k]]]
Close           == [op |-> "close"]
Abort           == [op |-> "abort"]
Reply           == [op |-> "reply"]

CfgStream(t) == IF t \in Paired
                THEN <<OpenFrame("cfg", 0)>> \o Writes(File(t, CfgLen(t))) \o <<Close>>
                ELSE <<>>
RomStream(t, n) == <<OpenFrame("rom", n)>> \o Writes(Rom(t)) \o <<Close>>

BridgeOnly == UNCHANGED <<link, wait, consoleVars, txns>>

\* An older bridge does not send the size of the ROM.
BridgeStarts ==
    /\ requests # <<>> /\ todo = <<>> /\ ~owed
    /\ requests' = Tail(requests)
    /\ LET r == Head(requests)
       IN  \/ r.kind = "path" /\ todo' = <<Reply>>
           \/ r.kind = "mount" /\ \E n \in {0, Length(r.title)} :
                 todo' = CfgStream(r.title) \o RomStream(r.title, n) \o <<Reply>>
    /\ UNCHANGED <<owed, toHost, acks, faults>>
    /\ BridgeOnly

BridgeSends ==
    /\ todo # <<>> /\ ~owed
    /\ toHost' = Append(toHost, Head(todo))
    /\ todo' = Tail(todo)
    /\ owed' = (Head(todo) # Reply)
    /\ UNCHANGED <<requests, acks, faults>>
    /\ BridgeOnly

BridgeAcked ==
    /\ owed /\ acks > 0
    /\ owed' = FALSE
    /\ acks' = acks - 1
    /\ UNCHANGED <<requests, todo, toHost, faults>>
    /\ BridgeOnly

\* The ACK does not come: the frame is gone, or the host reads none.  An ACK
\* says nothing of the frame it is for, so one that came after the bridge had
\* given up would be taken for the next frame's; here an ACK is never that late.
Unanswered == owed /\ acks = 0 /\ (toHost = <<>> \/ ~wait)

\* It does not come, or the file cannot be read any further: the stream is
\* aborted and the mount refused.
BridgeAborts ==
    /\ Len(todo) > 1 /\ Head(todo) # Abort
    /\ \/ Unanswered /\ UNCHANGED faults
       \/ ~owed /\ Fault
    /\ todo' = <<Abort, Reply>>
    /\ owed' = FALSE
    /\ UNCHANGED <<requests, toHost, acks>>
    /\ BridgeOnly

\* No ACK for the last frame, or for the abort: the mount is refused.
BridgeRefuses ==
    /\ Unanswered /\ todo = <<Reply>>
    /\ owed' = FALSE
    /\ UNCHANGED <<requests, todo, toHost, acks, faults>>
    /\ BridgeOnly

-----------------------------------------------------------------------------
RxFrame == \/ RxReply \/ RxOpenRom \/ RxOpenCfg \/ RxWriteRom \/ RxWriteCfg
           \/ RxCloseCfg \/ RxAbort \/ RxCloseRom

Bridge == BridgeStarts \/ BridgeSends \/ BridgeAcked \/ BridgeAborts \/ BridgeRefuses

Next == \/ \E r \in Requests : StartTxn(r)
        \/ TxnFails \/ LinkDrops
        \/ RxFrame
        \/ CpuRuns \/ BusReset
        \/ Bridge

Spec == Init /\ [][Next]_vars
-----------------------------------------------------------------------------
(* Properties.                                                             *)

\* Exactly one cartridge answers on the bus, whichever loader brought it there
\* (fujinet_retire_cart(), periph_unregister()): two at a time and the CPU
\* reads the AND of them.
OneCart == Cardinality(bound) = 1

\* The CPU holds no decoded instruction of a cartridge that is gone, and never
\* executes one: from the commit on it is in reset until it starts in the new
\* cartridge.
NoStaleCode == /\ decoded \subseteq bound
               /\ ~cpuPend => running \in bound

\* The mailbox and a cartridge that covers its window never both answer there.
WindowIsOnes == active => \A img \in bound : ~InWindow(img)

\* JLP answers at $8000-$9FFF for a cartridge that asked for it.
JlpForCart == jlp # NoImage => bound = {jlp}

\* ... and saves its games in that cartridge's file.
SavesOwn == jlp # NoImage => jlpSave = jlp.rom[1].of

\* BOOT_PCT says 100 only of a ROM that was mapped, and a failure has a reason.
ProgressHonest == /\ pct = 100 => bootState # "XFER"
                  /\ bootState = "FAILED" => bootErr # "none"

\* A push that fails leaves the running cartridge, its image and the mailbox
\* exactly as they were.
FailureKeepsCart ==
    [][bootState' = "FAILED" => UNCHANGED <<icart, legacy, bound, jlp, active, cacheable>>]_vars

\* A cartridge boots with a whole ROM, the ROM of one title, and it is the
\* last one when it covers the mailbox: CartSlot says what that means.
WholeRom(img) == \E t \in Titles : img.rom = Rom(t)
Slot == INSTANCE CartSlot WITH First <- StartImage,
            Complete <- WholeRom, CoversWindow <- InWindow,
            slot <- bound, mailbox <- active
SlotSpec == Slot!SlotSpec

\* A pushed cartridge is mapped by no other cartridge's .cfg: "consume the cfg
\* so the next push starts clean" (fujinet.c, fujinet_handle_dbc_frame()).
\* A mount that fails between the two streams, by its deadline or by a frame
\* that does not parse, with the connection up, consumes nothing.
OwnCfg == \A img \in bound : img.cfg # <<>> => Mapper(img) = img.rom[1].of

\* "cfg didn't fit -- fail TRUNCATED later" (fujinet.c, fujinet_dbc_stream_write()).
WholeCfg == \A img \in bound : img.cfg # <<>> => Len(img.cfg) = CfgLen(Mapper(img))
=============================================================================
