----------------------------- MODULE FujiMailbox -----------------------------
(***************************************************************************)
(* fujinet.c: the mailbox peripheral that the Intellivision program talks  *)
(* to through a window of RAM cells, and that talks to a FujiNet bridge    *)
(* over one TCP connection.  fujinet_tick() is one action per case of its  *)
(* switch and per way out of the case.  The program (the guest), the       *)
(* bridge and the passing of time are actions of their own, interleaved    *)
(* with the ticks in every order.                                          *)
(*                                                                         *)
(* A request is a number and a kind.  The request cells are two halves,    *)
(* because the program pokes them one at a time; the frame that goes out   *)
(* is a snapshot of both.  A frame coming in is two pieces, its head (the  *)
(* leading END and some bytes) and its tail (the rest and the closing      *)
(* END), because the receiver can find itself between the two.             *)
(***************************************************************************)
EXTENDS FnSock

CONSTANTS SeqMod,        \* how many values a SEQ cell has (256 in the code)
          MaxReq,        \* bound: requests the program makes
          ConnectTicks, BackoffTicks, TxnTicks, MountTicks, \* timeouts, in time units
          Chunks,        \* bound: send() calls a request frame needs
          MaxFaults,     \* bound: connections dropped, frames garbled, DNS failures
          MaxResets,     \* bound: console resets by the user
          MaxPushes,     \* bound: frames of ROM pushes
          LatePeer,      \* may the bridge answer a transaction that is over?
          Abandon        \* may the program drop a request it gave up on?

ASSUME MailboxAssumption ==
    /\ SeqMod \in Nat /\ SeqMod >= 3
    /\ MaxReq \in Nat
    /\ MaxFaults \in Nat /\ MaxResets \in Nat /\ MaxPushes \in Nat
    /\ ConnectTicks \in Nat \ {0} /\ BackoffTicks \in Nat \ {0}
    /\ TxnTicks \in Nat \ {0} /\ MountTicks \in Nat
    /\ TxnTicks <= MountTicks
    /\ Chunks \in Nat \ {0}
    /\ LatePeer \in BOOLEAN /\ Abandon \in BOOLEAN

Seqs    == 0..(SeqMod - 1)
Kinds   == {"cmd", "mount", "big"}     \* "big" does not fit in txbuf
Req     == [n : 1..MaxReq, kind : Kinds]
NoReq   == [n |-> 0, kind |-> "none"]
Cells   == [hd : Req \cup {NoReq}, tl : Req \cup {NoReq}]
NoCells == [hd |-> NoReq, tl |-> NoReq]
Whole(r) == [hd |-> r, tl |-> r]

Errs    == {"OK", "ENOLINK", "ETOOBIG", "ETIMEOUT", "EBADFRAME"}

\* Inbound frames: a reply, something that does not parse, a frame of a ROM
\* push, and the CLOSE of a push that boots, with or without the mailbox.
FrameKinds == {"reply", "bad", "push", "boot", "bootoff"}
Frames     == [kind : FrameKinds, of : Cells]
Frame(k)   == [kind |-> k, of |-> NoCells]
NoFrame    == [kind |-> "none", of |-> NoCells]
Piece      == [part : {"head", "tail", "flood"}, frame : Frames]
Piece2(f)  == <<[part |-> "head", frame |-> f], [part |-> "tail", frame |-> f]>>

VARIABLES
    \* the cells of the window
    seq, ackseq, status, err, link, rxcell, cells,
    \* the rest of fujinet_t
    state, inflight, txreq, txleft, rx, deadline, backoff, active,
    \* the two directions of the connection, and a frame half sent
    toPeer, toHost, half,
    \* the guest program: what it is doing, its copy of SEQ, its request
    pc, gseq, greq,
    \* requests made, and the budgets used
    nreq, faults, resets, pushes,
    \* history: the request frames that were sent
    sent

ramVars   == <<seq, ackseq, status, err, link, rxcell, cells>>
outVars   == <<status, err, rxcell>>
txnVars   == <<inflight, txreq, txleft, rx>>
timeVars  == <<deadline, backoff>>
wireVars  == <<toPeer, toHost, half>>
guestVars == <<pc, gseq, greq, nreq>>
budget    == <<faults, resets, pushes>>
vars == <<sockVars, ramVars, state, txnVars, timeVars, active, wireVars,
          guestVars, budget, sent>>

States == {"DISCONNECTED", "CONNECTING", "IDLE", "SENDING", "RXWAIT"}
InTxn  == state \in {"SENDING", "RXWAIT"}

RamTypeOK ==
    /\ seq \in Seqs
    /\ ackseq \in Seqs
    /\ status \in {"IDLE", "BUSY", "OK", "ERR"}
    /\ err \in Errs
    /\ link \in BOOLEAN
    /\ rxcell \in Cells
    /\ cells \in Cells

TxnTypeOK ==
    /\ state \in States
    /\ inflight \in Seqs
    /\ txreq \in Cells
    /\ txleft \in 0..Chunks
    /\ state = "SENDING" => txleft > 0
    /\ rx \in [st : {"empty", "head", "junk"}, frame : Frames \cup {NoFrame}]
    /\ active \in BOOLEAN
    /\ sent \subseteq Cells

TimeTypeOK ==
    /\ deadline \in Nat /\ deadline <= ConnectTicks + MountTicks
    /\ backoff \in Nat /\ backoff <= BackoffTicks

WireTypeOK ==
    /\ toPeer \in Seq(Cells)
    /\ toHost \in Seq(Piece)
    /\ half \in Frames \cup {NoFrame}

GuestTypeOK ==
    /\ pc \in {"ready", "poking", "waiting", "gaveup"}
    /\ gseq \in Seqs
    /\ greq \in Req \cup {NoReq}
    /\ pc # "ready" => greq \in Req
    /\ nreq \in 0..MaxReq

BudgetTypeOK ==
    /\ faults \in 0..MaxFaults
    /\ resets \in 0..MaxResets
    /\ pushes \in 0..MaxPushes

TypeOK == /\ SockTypeOK
          /\ RamTypeOK
          /\ TxnTypeOK
          /\ TimeTypeOK
          /\ WireTypeOK
          /\ GuestTypeOK
          /\ BudgetTypeOK

Init ==
    /\ SockInit
    /\ seq = 0 /\ ackseq = 0 /\ inflight = 0 /\ gseq = 0
    /\ status = "IDLE" /\ err = "OK" /\ link = FALSE
    /\ rxcell = NoCells /\ cells = NoCells /\ txreq = NoCells
    /\ state = "DISCONNECTED" /\ backoff = 0 /\ deadline = 0
    /\ txleft = 0
    /\ rx = [st |-> "empty", frame |-> NoFrame]
    /\ active = TRUE
    /\ toPeer = <<>> /\ toHost = <<>> /\ half = NoFrame
    /\ pc = "ready" /\ greq = NoReq /\ nreq = 0
    /\ faults = 0 /\ resets = 0 /\ pushes = 0
    /\ sent = {}

-----------------------------------------------------------------------------
(* Helpers of fujinet_tick().                                              *)

\* fujinet_finish_txn(): on success the reply goes out with the command cell
\* it carries (ACK or NAK); otherwise the reply cells are cleared.  Publishing
\* ACKSEQ and going IDLE is common to both.
PublishReply(of) == /\ err' = "OK"
                    /\ rxcell' = of
                    /\ status' \in {"OK", "ERR"}

PublishFailure(e) == /\ err' = e
                     /\ rxcell' = NoCells
                     /\ status' = "ERR"

\* Mutant: publishes ACKSEQ and forgets to leave the transaction.
AcknowledgeOnly(s) == /\ ackseq' = s
                      /\ UNCHANGED state

Acknowledge(s) == /\ ackseq' = s
                  /\ state' = "IDLE"

\* The connection goes away with everything on it.
DropWires == /\ toPeer' = <<>>
             /\ toHost' = <<>>
             /\ half' = NoFrame

\* Mutant: a failed connect closes the socket and stays CONNECTING.
FailLinkStays ==
    /\ ~InTxn
    /\ Close
    /\ DropWires
    /\ link' = FALSE
    /\ backoff' = BackoffTicks
    /\ UNCHANGED <<state, outVars, ackseq, up, seq, cells, txnVars, deadline, active,
                   guestVars, budget, sent>>

\* fujinet_fail_link(): the state it sets is overwritten by
\* fujinet_finish_txn() when a transaction was in flight.
FailLink ==
    /\ Close
    /\ DropWires
    /\ link' = FALSE
    /\ backoff' = BackoffTicks
    /\ \/ /\ InTxn
          /\ PublishFailure("ENOLINK")
          /\ Acknowledge(inflight)
       \/ /\ ~InTxn
          /\ state' = "DISCONNECTED"
          /\ UNCHANGED <<outVars, ackseq>>
    /\ UNCHANGED <<up, seq, cells, txnVars, deadline, active, guestVars, budget, sent>>

\* Mutant: a failed transaction is not acknowledged.
FailTxnUnacked(e) ==
    /\ PublishFailure(e)
    /\ state' = "IDLE"
    /\ UNCHANGED <<ackseq, sockVars, seq, link, cells, txreq, inflight, txleft, timeVars,
                   active, guestVars, budget, sent>>

\* fujinet_finish_txn() from a transaction in flight that has no reply.
FailTxn(e) ==
    /\ PublishFailure(e)
    /\ Acknowledge(inflight)
    /\ UNCHANGED <<sockVars, seq, link, cells, txreq, inflight, txleft, timeVars,
                   active, guestVars, budget, sent>>

-----------------------------------------------------------------------------
(* case FUJINET_ST_DISCONNECTED                                            *)

ConnectBegins ==
    /\ state = "DISCONNECTED" /\ backoff = 0
    /\ TryNext(1)
    /\ deadline' = ConnectTicks
    /\ state' = "CONNECTING"
    /\ UNCHANGED <<up, net, ramVars, txnVars, backoff, active, wireVars, guestVars,
                   budget, sent>>

\* getaddrinfo() fails, or every address refuses at once.
ConnectFails ==
    /\ state = "DISCONNECTED" /\ backoff = 0
    /\ \/ /\ NoneLeft(1)
          /\ UNCHANGED faults
       \/ /\ faults < MaxFaults
          /\ faults' = faults + 1
    /\ backoff' = BackoffTicks
    /\ UNCHANGED <<sockVars, ramVars, state, txnVars, deadline, active, wireVars,
                   guestVars, resets, pushes, sent>>

(* case FUJINET_ST_CONNECTING                                              *)

ConnectDone ==
    /\ state = "CONNECTING"
    /\ PollConnected
    /\ link' = TRUE
    /\ state' = "IDLE"
    /\ UNCHANGED <<up, seq, ackseq, outVars, cells, txnVars, timeVars, active,
                   wireVars, guestVars, budget, sent>>

ConnectFallback ==
    /\ state = "CONNECTING"
    /\ PollFallback
    /\ deadline > 0
    /\ UNCHANGED <<up, net, ramVars, state, txnVars, timeVars, active, wireVars,
                   guestVars, budget, sent>>

ConnectGivesUp ==
    /\ state = "CONNECTING"
    /\ ~Accepts(cand)
    /\ PollFailed \/ deadline = 0
    /\ FailLink

(* case FUJINET_ST_IDLE: fujinet_start_txn()                               *)

Pending == state = "IDLE" /\ seq # ackseq

TooBig == cells.tl.kind = "big"

\* No link, or a frame that does not fit txbuf: acknowledged at once.
StartRefused ==
    /\ Pending
    /\ \/ ~Connected /\ PublishFailure("ENOLINK")
       \/ Connected /\ TooBig /\ PublishFailure("ETOOBIG")
    /\ inflight' = seq
    /\ Acknowledge(seq)
    /\ UNCHANGED <<sockVars, seq, link, cells, txreq, txleft, rx, timeVars, active,
                   wireVars, guestVars, budget, sent>>

\* Mutant: what has already arrived is not drained.
StartSendUndrained ==
    /\ Pending
    /\ Connected
    /\ ~TooBig
    /\ inflight' = seq
    /\ status' = "BUSY"
    /\ txreq' = cells
    /\ txleft' = Chunks
    /\ rx' = [st |-> "empty", frame |-> NoFrame]
    /\ deadline' = IF cells.hd.kind = "mount" THEN MountTicks ELSE TxnTicks
    /\ state' = "SENDING"
    /\ sent' = sent \cup {cells}
    /\ UNCHANGED <<sockVars, seq, ackseq, err, link, rxcell, cells, backoff, active,
                   toPeer, toHost, half, guestVars, budget>>

\* The request is framed, what has already arrived is drained, and the clock
\* of the transaction starts.
StartSend ==
    /\ Pending
    /\ Connected
    /\ ~TooBig
    /\ inflight' = seq
    /\ status' = "BUSY"
    /\ txreq' = cells
    /\ txleft' = Chunks
    /\ toHost' = <<>>
    /\ rx' = [st |-> "empty", frame |-> NoFrame]
    /\ deadline' = IF cells.hd.kind = "mount" THEN MountTicks ELSE TxnTicks
    /\ state' = "SENDING"
    /\ sent' = sent \cup {cells}
    /\ UNCHANGED <<sockVars, seq, ackseq, err, link, rxcell, cells, backoff, active,
                   toPeer, half, guestVars, budget>>

(* case FUJINET_ST_SENDING                                                 *)

\* Mutant: the deadline is not looked at while the frame is going out.
SendTimeoutMissing == FALSE

SendTimeout ==
    /\ state = "SENDING" /\ deadline = 0
    /\ FailTxn("ETIMEOUT")
    /\ UNCHANGED <<rx, wireVars>>

SendChunk ==
    /\ state = "SENDING" /\ deadline > 0
    /\ txleft' = txleft - 1
    /\ state' = IF txleft = 1 THEN "RXWAIT" ELSE "SENDING"
    /\ toPeer' = IF txleft = 1 /\ net = "est" THEN Append(toPeer, txreq) ELSE toPeer
    /\ UNCHANGED <<sockVars, ramVars, inflight, txreq, rx, timeVars, active,
                   toHost, half, guestVars, budget, sent>>

SendFails ==
    /\ state = "SENDING" /\ deadline > 0
    /\ net = "fin"
    /\ FailLink

(* case FUJINET_ST_RXWAIT                                                  *)

\* Mutant: a transaction that runs out of time gets more of it.
RxTimeoutRearmed ==
    /\ state = "RXWAIT" /\ deadline = 0
    /\ deadline' = TxnTicks
    /\ UNCHANGED <<sockVars, ramVars, state, txnVars, backoff, active, wireVars, guestVars,
                   budget, sent>>

RxTimeout ==
    /\ state = "RXWAIT" /\ deadline = 0
    /\ FailTxn("ETIMEOUT")
    /\ UNCHANGED <<rx, wireVars>>

\* recv() finds the end of the connection, after the bytes before it.
RxEof ==
    /\ state = "RXWAIT" /\ deadline > 0
    /\ net = "fin" /\ toHost = <<>>
    /\ FailLink

\* The next piece is read from the socket.
Rx(part) == /\ state = "RXWAIT" /\ deadline > 0
            /\ toHost # <<>>
            /\ Head(toHost).part = part
            /\ toHost' = Tail(toHost)
            /\ UNCHANGED <<toPeer, half>>

\* The first bytes of a frame, in an empty buffer; or the last bytes of one
\* whose beginning was thrown away, which the buffer keeps with their END.
RxAccumulate ==
    /\ \/ /\ Rx("head")
          /\ rx' = [st |-> "head", frame |-> Head(toHost).frame]
       \/ /\ Rx("tail")
          /\ rx' = [st |-> "junk", frame |-> NoFrame]
    /\ rx.st = "empty"
    /\ UNCHANGED <<sockVars, ramVars, state, inflight, txreq, txleft, timeVars,
                   active, guestVars, budget, sent>>

\* The buffer fills without a closing END: fujinet_rx_resync(), keep waiting.
RxOverflow ==
    /\ Rx("flood")
    /\ rx' = [st |-> "empty", frame |-> NoFrame]
    /\ UNCHANGED <<sockVars, ramVars, state, inflight, txreq, txleft, timeVars,
                   active, guestVars, budget, sent>>

\* Two ENDs around something that is not a frame: resync and FB_EBADFRAME.
RxBadFrame ==
    /\ \/ Rx("tail") /\ rx.st = "head" /\ rx.frame.kind = "bad"
       \/ Rx("tail") /\ rx.st = "junk"
       \/ Rx("head") /\ rx.st # "empty"
    /\ rx' = [st |-> "empty", frame |-> NoFrame]
    /\ FailTxn("EBADFRAME")

\* The frame is a reply: whatever it replies to, it ends this transaction.
RxReply ==
    /\ Rx("tail")
    /\ rx.st = "head" /\ rx.frame.kind = "reply"
    /\ PublishReply(rx.frame.of)
    /\ Acknowledge(inflight)
    /\ UNCHANGED <<sockVars, seq, link, cells, txnVars, timeVars, active, guestVars,
                   budget, sent>>

\* Mutant: the LINK cell ignores that a connect() is still in progress.
ResetCellsAnySocket ==
    /\ status' = "IDLE"
    /\ err' = "OK"
    /\ rxcell' = NoCells
    /\ link' = Connected
    /\ UNCHANGED <<seq, ackseq, cells>>

\* Mutant: a console reset clears ACKSEQ as well.
ResetCellsAck ==
    /\ status' = "IDLE"
    /\ err' = "OK"
    /\ rxcell' = NoCells
    /\ link' = (Connected /\ state # "CONNECTING")
    /\ ackseq' = 0
    /\ UNCHANGED <<seq, cells>>

\* fujinet_reset(): the cells the peripheral owns, not the transaction.
ResetCells ==
    /\ status' = "IDLE"
    /\ err' = "OK"
    /\ rxcell' = NoCells
    /\ link' = (Connected /\ state # "CONNECTING")
    /\ UNCHANGED <<seq, ackseq, cells>>

\* ... and the program starts again from nothing.
ResetGuest ==
    /\ pc' = "ready"
    /\ gseq' = 0
    /\ greq' = NoReq
    /\ UNCHANGED nreq

\* The frame belongs to a ROM push: fujinet_handle_dbc_frame(), then wait on
\* with a fresh deadline.  The CLOSE that boots resets the console, and leaves
\* the mailbox off when the new cartridge covers its window.
RxDbcFrame ==
    /\ Rx("tail")
    /\ rx.st = "head" /\ rx.frame.kind \in {"push", "boot", "bootoff"}
    /\ rx' = [st |-> "empty", frame |-> NoFrame]
    /\ deadline' = MountTicks
    /\ \/ /\ rx.frame.kind = "push"
          /\ UNCHANGED <<ramVars, active, guestVars>>
       \/ /\ rx.frame.kind # "push"
          /\ active' = (active /\ rx.frame.kind = "boot")
          /\ ResetCells
          /\ ResetGuest
    /\ UNCHANGED <<sockVars, state, inflight, txreq, txleft, backoff, budget, sent>>

-----------------------------------------------------------------------------
(* Time.  Only the timer that the current state compares with the clock is *)
(* counted down; the others are set again before they are read.  A tick    *)
(* comes every few milliseconds (min_tick, max_tick) and a unit of time is *)
(* seconds, so time does not pass while a tick has something to do.        *)

Runnable == \/ state = "CONNECTING" /\ (Accepts(cand) \/ Refuses(cand))
            \/ state = "RXWAIT" /\ (toHost # <<>> \/ net = "fin")

Elapse ==
    /\ ~Runnable
    /\ \/ /\ state = "DISCONNECTED" /\ backoff > 0
          /\ backoff' = backoff - 1
          /\ UNCHANGED deadline
       \/ /\ state \in {"CONNECTING", "SENDING", "RXWAIT"} /\ deadline > 0
          /\ deadline' = deadline - 1
          /\ UNCHANGED backoff
    /\ UNCHANGED <<sockVars, ramVars, state, txnVars, active, wireVars, guestVars,
                   budget, sent>>

(* The user resets the console (intv_host_reset).                          *)

ConsoleReset ==
    /\ resets < MaxResets
    /\ resets' = resets + 1
    /\ ResetCells
    /\ ResetGuest
    /\ UNCHANGED <<sockVars, state, txnVars, timeVars, active, wireVars, faults,
                   pushes, sent>>

-----------------------------------------------------------------------------
(* The guest: the program in the cartridge (fujitest.bas, the config ROM). *)
(* With the mailbox off its pokes are dropped and its peeks read nothing,  *)
(* so it has no step.                                                      *)

\* Mutant: the number does not wrap.
NextSeqUnwrapped(s) == s + 1

\* seq = peek(FN_ACKSEQ) + 1, skipping 0.
NextSeq(s) == IF s = SeqMod - 1 THEN 1 ELSE s + 1

GuestPokes ==
    /\ active
    /\ pc = "ready" /\ nreq < MaxReq
    /\ nreq' = nreq + 1
    /\ greq' \in [n : {nreq + 1}, kind : Kinds]
    /\ cells' = [cells EXCEPT !.hd = greq']
    /\ pc' = "poking"
    /\ UNCHANGED <<gseq, sockVars, seq, ackseq, status, err, link, rxcell, state,
                   txnVars, timeVars, active, wireVars, budget, sent>>

GuestPosts ==
    /\ active
    /\ pc = "poking"
    /\ cells' = [cells EXCEPT !.tl = greq]
    /\ gseq' = NextSeq(ackseq)
    /\ seq' = gseq'
    /\ pc' = "waiting"
    /\ UNCHANGED <<greq, nreq, sockVars, ackseq, status, err, link, rxcell, state,
                   txnVars, timeVars, active, wireVars, budget, sent>>

GuestOnly == UNCHANGED <<greq, gseq, nreq, sockVars, ackseq, status, err, link,
                         rxcell, cells, state, txnVars, timeVars, active, wireVars,
                         budget, sent>>

Answered == pc = "waiting" /\ ackseq = gseq

GuestAccepts ==
    /\ active
    /\ Answered
    /\ pc' = "ready"
    /\ UNCHANGED seq
    /\ GuestOnly

\* The bounded wait runs out.  What follows is up to the program: poke the
\* same number again, or (Abandon) go on to something else.
GuestGivesUp ==
    /\ active
    /\ pc = "waiting" /\ ackseq # gseq
    /\ pc' = "gaveup"
    /\ UNCHANGED seq
    /\ GuestOnly

GuestRepokes ==
    /\ active
    /\ pc = "gaveup"
    /\ seq' = gseq
    /\ pc' = "waiting"
    /\ GuestOnly

GuestAbandons ==
    /\ active
    /\ Abandon
    /\ pc = "gaveup"
    /\ pc' = "ready"
    /\ UNCHANGED seq
    /\ GuestOnly

-----------------------------------------------------------------------------
(* The bridge at the other end.                                            *)

BridgeOnly == UNCHANGED <<fd, cand, ramVars, state, txnVars, timeVars, active,
                          guestVars, resets, sent>>

BridgeComesUp ==
    /\ ~up
    /\ up' = TRUE
    /\ UNCHANGED <<net, wireVars, faults, pushes>>
    /\ BridgeOnly

\* The connection is dropped, by a bridge that dies or one that goes on; what
\* it had sent may be lost or not.
BridgeDrops ==
    /\ faults < MaxFaults
    /\ up \/ net = "est"
    /\ faults' = faults + 1
    /\ up' \in BOOLEAN
    /\ net' = IF net = "est" THEN "fin" ELSE net
    /\ toPeer' = <<>>
    /\ toHost' \in {toHost, <<>>}
    /\ half' = NoFrame
    /\ UNCHANGED pushes
    /\ BridgeOnly

\* The frame goes out whole, or (LatePeer) its tail follows later.
BridgeSends(f) ==
    /\ net = "est" /\ half = NoFrame
    /\ \/ /\ toHost' = toHost \o Piece2(f)
          /\ UNCHANGED half
       \/ /\ LatePeer
          /\ toHost' = Append(toHost, Piece2(f)[1])
          /\ half' = f
    /\ UNCHANGED <<up, net>>
    /\ BridgeOnly

BridgeSendsTail ==
    /\ net = "est" /\ half # NoFrame
    /\ toHost' = Append(toHost, Piece2(half)[2])
    /\ half' = NoFrame
    /\ UNCHANGED <<up, net, toPeer, faults, pushes>>
    /\ BridgeOnly

\* Is the first unanswered request the one the host is waiting for?
Current == toPeer # <<>> /\ state = "RXWAIT" /\ Head(toPeer) = txreq

BridgeReplies ==
    /\ toPeer # <<>>
    /\ LatePeer \/ Current
    /\ BridgeSends([kind |-> "reply", of |-> Head(toPeer)])
    /\ toPeer' = Tail(toPeer)
    /\ UNCHANGED <<faults, pushes>>

\* The bridge never answers this one.
BridgeIgnores ==
    /\ toPeer # <<>>
    /\ toPeer' = Tail(toPeer)
    /\ UNCHANGED <<up, net, toHost, half, faults, pushes>>
    /\ BridgeOnly

\* While it works on a mount it pushes the ROM.
BridgePushes ==
    /\ toPeer # <<>> /\ Head(toPeer).hd.kind = "mount"
    /\ LatePeer \/ Current
    /\ pushes < MaxPushes
    /\ pushes' = pushes + 1
    /\ \E k \in {"push", "boot", "bootoff"} : BridgeSends(Frame(k))
    /\ UNCHANGED <<toPeer, faults>>

\* A frame that does not parse, or more bytes than the buffer holds.
BridgeGarbles ==
    /\ faults < MaxFaults
    /\ faults' = faults + 1
    /\ \/ BridgeSends(Frame("bad"))
       \/ /\ net = "est" /\ half = NoFrame
          /\ toHost' = Append(toHost, [part |-> "flood", frame |-> Frame("bad")])
          /\ UNCHANGED <<half, up, net>>
          /\ BridgeOnly
    /\ UNCHANGED <<toPeer, pushes>>

-----------------------------------------------------------------------------
\* A tick that may be held up by nothing but the clock.
Tick == \/ ConnectBegins \/ ConnectFails \/ ConnectDone \/ ConnectFallback
        \/ ConnectGivesUp
        \/ StartRefused \/ StartSend
        \/ SendTimeout
        \/ RxTimeout \/ RxEof \/ RxAccumulate \/ RxOverflow \/ RxBadFrame
        \/ RxReply \/ RxDbcFrame

\* send() may block for as long as the other end does not read.
Send == SendChunk \/ SendFails

Guest == \/ GuestPokes \/ GuestPosts \/ GuestAccepts
         \/ GuestGivesUp \/ GuestRepokes \/ GuestAbandons

Bridge == \/ BridgeComesUp \/ BridgeDrops \/ BridgeReplies \/ BridgeSendsTail
          \/ BridgeIgnores \/ BridgePushes \/ BridgeGarbles

Next == Tick \/ Send \/ Elapse \/ ConsoleReset \/ Guest \/ Bridge

Spec == Init /\ [][Next]_vars

\* The emulator thread runs the ticks and the clock for as long as the session
\* does.  Nothing is asked of the bridge.
FairSpec == Spec /\ WF_vars(Tick) /\ WF_vars(Elapse)

\* ... and here the bridge always comes back.
FairBridgeSpec == FairSpec /\ WF_vars(BridgeComesUp)
-----------------------------------------------------------------------------
(* Properties.                                                             *)

\* The LINK cell says 1 exactly when a connection is established: it is
\* written by the connect, by every link failure and by every console reset,
\* which may come while a connect() is still in progress.
LinkHonest == link <=> (fd = "open" /\ state # "CONNECTING")

\* LinkHonest holds because the descriptor and the state move together, except
\* that IDLE says nothing of the descriptor: a transaction that loses its link
\* ends IDLE with the socket closed.
LinkInv == /\ LinkHonest
           /\ fd = "pending" <=> state = "CONNECTING"
           /\ state = "DISCONNECTED" => fd = "closed"
           /\ InTxn => fd = "open"

\* The request in flight is the one the waiting program posted, whole: never
\* half of an older one, never one the program has moved on from.
OwnTxn == InTxn => txreq = Whole(greq)

\* A program that reads FB_OK under its own sequence number reads the reply to
\* its own request, whatever earlier transactions left on the wire.
AcceptOwn == (Answered /\ active /\ err = "OK") => rxcell = Whole(greq)

\* The bridge is never sent the same request twice: a program whose wait ran
\* out and that pokes the same number again replays nothing
\* (fuji_mailbox.h, the handshake).
NoReplay == [][StartSend => cells \notin sent]_vars

\* At most one transaction, ACKSEQ moved only by its end, outcome published
\* with it; MailboxTxn says what that means.
MT == INSTANCE MailboxTxn WITH
          Outcomes <- Errs, Good <- "OK", NoSeq <- SeqMod,
          ack <- ackseq, outcome <- err,
          flight <- IF InTxn THEN inflight ELSE SeqMod

TxnSafe == MT!SafeSpec
TxnSpec == MT!Spec

\* Every posted request is answered, with the reply or with an error, as long
\* as a bridge comes back after each failure.
PostedIsAnswered == (seq # ackseq) ~> (seq = ackseq)

\* A host without a connection tries until it has one.
RetriesUntilConnected == state = "DISCONNECTED" ~> state = "IDLE"

\* fujinet.c, the diagram above the state machine: a socket error at any point
\* leads back to DISCONNECTED, from where the host reconnects.
LinkRecovers == fd = "closed" ~> fd = "open"

=============================================================================
