------------------------- MODULE FujiMailbox_proofs -------------------------
(***************************************************************************)
(* What holds of the mailbox for every number of sequence values, every    *)
(* timeout and every bound: its types, that the LINK cell tells the truth, *)
(* and that it implements MailboxTxn.                                      *)
(***************************************************************************)
EXTENDS FujiMailbox, TLAPS

-----------------------------------------------------------------------------
(* Types.                                                                  *)

\* Zero is a sequence number, and the number after one is one.
LEMMA SeqsFacts ==
    /\ 0 \in Seqs
    /\ \A s \in Seqs : NextSeq(s) \in Seqs
    /\ SeqMod \notin Seqs
BY MailboxAssumption DEF Seqs, NextSeq

\* The snapshots and the frames the actions build have their types.
LEMMA DataFacts ==
    /\ NoCells \in Cells
    /\ \A c \in Cells, r \in Req \cup {NoReq} :
           /\ [c EXCEPT !.hd = r] \in Cells
           /\ [c EXCEPT !.tl = r] \in Cells
    /\ \A k \in FrameKinds : Frame(k) \in Frames
    /\ \A c \in Cells : [kind |-> "reply", of |-> c] \in Frames
    /\ \A f \in Frames : /\ Piece2(f)[1] \in Piece
                         /\ Piece2(f)[2] \in Piece
                         /\ Piece2(f) \in Seq(Piece)
                         /\ [part |-> "flood", frame |-> f] \in Piece
BY DEF NoCells, Cells, Frame, Frames, FrameKinds, Piece, Piece2

\* Taking from the front of a sequence of pieces and adding to its end.
LEMMA SequenceFacts ==
    /\ \A s \in Seq(Piece) : s # <<>> => Head(s) \in Piece /\ Tail(s) \in Seq(Piece)
    /\ \A s \in Seq(Piece), p \in Piece : Append(s, p) \in Seq(Piece)
    /\ <<>> \in Seq(Piece) /\ <<>> \in Seq(Cells)
    /\ \A s, t \in Seq(Piece) : s \o t \in Seq(Piece)
    /\ \A s \in Seq(Cells) : s # <<>> => Head(s) \in Cells /\ Tail(s) \in Seq(Cells)
    /\ \A s \in Seq(Cells), c \in Cells : Append(s, c) \in Seq(Cells)
OBVIOUS

LEMMA InitTypeOK == Init => TypeOK
<1> SUFFICES ASSUME Init PROVE TypeOK
  OBVIOUS
<1>1. SockTypeOK
  BY AddrAssumption DEF Init, SockInit, SockTypeOK
<1>2. RamTypeOK
  BY SeqsFacts, DataFacts DEF Init, RamTypeOK, Errs
<1>3. TxnTypeOK
  BY SeqsFacts, DataFacts, MailboxAssumption DEF Init, TxnTypeOK, States
<1>4. TimeTypeOK
  BY MailboxAssumption DEF Init, TimeTypeOK
<1>5. WireTypeOK /\ GuestTypeOK
  BY SeqsFacts, MailboxAssumption DEF Init, WireTypeOK, GuestTypeOK
<1>6. BudgetTypeOK
  BY MailboxAssumption DEF Init, BudgetTypeOK
<1> QED BY <1>1, <1>2, <1>3, <1>4, <1>5, <1>6 DEF TypeOK

\* A link failure keeps the types, in a transaction or out of one.
LEMMA FailLinkTypes == TypeOK /\ FailLink => TypeOK'
<1> SUFFICES ASSUME TypeOK, FailLink PROVE TypeOK'
  OBVIOUS
<1> USE DEF FailLink
<1>1. SockTypeOK' /\ WireTypeOK'
  BY AddrAssumption DEF TypeOK, SockTypeOK, WireTypeOK, Close, DropWires
<1>2. RamTypeOK'
  BY DataFacts DEF TypeOK, RamTypeOK, TxnTypeOK, PublishFailure, Acknowledge, Errs,
     outVars
<1>3. TxnTypeOK'
  BY DEF TypeOK, TxnTypeOK, Acknowledge, States, txnVars
<1>4. TimeTypeOK' /\ GuestTypeOK' /\ BudgetTypeOK'
  BY MailboxAssumption DEF TypeOK, TimeTypeOK, GuestTypeOK, BudgetTypeOK, guestVars,
     budget
<1> QED BY <1>1, <1>2, <1>3, <1>4 DEF TypeOK

\* A transaction that fails without a reply keeps all types but those of the
\* receiver, which each caller sees to.
LEMMA FailTxnTypes ==
    ASSUME TypeOK, NEW e \in Errs, FailTxn(e),
           WireTypeOK', rx' \in [st : {"empty", "head", "junk"},
              frame : Frames \cup {NoFrame}]
    PROVE  TypeOK'
<1> USE DEF FailTxn
<1>1. SockTypeOK' /\ TimeTypeOK' /\ GuestTypeOK' /\ BudgetTypeOK'
  BY DEF TypeOK, SockTypeOK, TimeTypeOK, GuestTypeOK, BudgetTypeOK, sockVars, timeVars,
         guestVars, budget
<1>2. RamTypeOK'
  BY DataFacts DEF TypeOK, RamTypeOK, TxnTypeOK, PublishFailure, Acknowledge
<1>3. TxnTypeOK'
  BY DEF TypeOK, TxnTypeOK, Acknowledge, States
<1> QED BY <1>1, <1>2, <1>3 DEF TypeOK

\* What is left of the wire after a piece was read.
LEMMA RxTypes ==
    ASSUME TypeOK, NEW part, Rx(part)
    PROVE  /\ Head(toHost) \in Piece
           /\ WireTypeOK'
BY SequenceFacts DEF TypeOK, WireTypeOK, Rx

\* What the bridge puts on the wire.
LEMMA BridgeSendsTypes ==
    ASSUME TypeOK, NEW f \in Frames, BridgeSends(f)
    PROVE  /\ toHost' \in Seq(Piece)
           /\ half' \in Frames \cup {NoFrame}
BY SequenceFacts, DataFacts DEF TypeOK, WireTypeOK, BridgeSends

LEMMA NextTypeOK == TypeOK /\ [Next]_vars => TypeOK'
<1> SUFFICES ASSUME TypeOK, [Next]_vars PROVE TypeOK'
  OBVIOUS
<1> USE DEF TypeOK
<1>1. CASE ConnectBegins
  <2> USE <1>1 DEF ConnectBegins
  <2>1. SockTypeOK'
    BY AddrAssumption DEF SockTypeOK, sockVars, TryNext
  <2>2. TxnTypeOK'
    BY DEF TxnTypeOK, txnVars, States
  <2>3. TimeTypeOK'
    BY MailboxAssumption DEF TimeTypeOK, timeVars
  <2>4. RamTypeOK' /\ WireTypeOK' /\ GuestTypeOK' /\ BudgetTypeOK'
    BY DEF RamTypeOK, WireTypeOK, GuestTypeOK, BudgetTypeOK, ramVars, outVars,
       wireVars, guestVars, budget
  <2> QED BY <2>1, <2>2, <2>3, <2>4
<1>2. CASE ConnectFails
  <2> USE <1>2 DEF ConnectFails
  <2>1. TimeTypeOK'
    BY MailboxAssumption DEF TimeTypeOK, timeVars
  <2>2. BudgetTypeOK'
    BY MailboxAssumption DEF BudgetTypeOK, budget
  <2>3. SockTypeOK' /\ RamTypeOK' /\ TxnTypeOK' /\ WireTypeOK' /\ GuestTypeOK'
    BY DEF SockTypeOK, RamTypeOK, TxnTypeOK, WireTypeOK, GuestTypeOK, sockVars,
       ramVars, outVars, txnVars, wireVars, guestVars
  <2> QED BY <2>1, <2>2, <2>3
<1>3. CASE ConnectDone
  <2> USE <1>3 DEF ConnectDone
  <2>1. SockTypeOK'
    BY AddrAssumption DEF SockTypeOK, sockVars, PollConnected
  <2>2. RamTypeOK'
    BY DEF RamTypeOK, ramVars, outVars
  <2>3. TxnTypeOK'
    BY DEF TxnTypeOK, txnVars, States
  <2>4. TimeTypeOK' /\ WireTypeOK' /\ GuestTypeOK' /\ BudgetTypeOK'
    BY DEF TimeTypeOK, WireTypeOK, GuestTypeOK, BudgetTypeOK, timeVars, wireVars,
       guestVars, budget
  <2> QED BY <2>1, <2>2, <2>3, <2>4
<1>4. CASE ConnectFallback
  <2> USE <1>4 DEF ConnectFallback
  <2>1. SockTypeOK'
    BY AddrAssumption DEF SockTypeOK, sockVars, PollFallback, TryNext
  <2>2. RamTypeOK' /\ TxnTypeOK' /\ TimeTypeOK' /\ WireTypeOK' /\ GuestTypeOK'
       /\ BudgetTypeOK'
    BY DEF RamTypeOK, TxnTypeOK, TimeTypeOK, WireTypeOK, GuestTypeOK, BudgetTypeOK,
       ramVars, outVars, txnVars, timeVars, wireVars, guestVars, budget
  <2> QED BY <2>1, <2>2
<1>5. CASE ConnectGivesUp
  BY <1>5, FailLinkTypes DEF ConnectGivesUp
<1>6. CASE StartRefused
  <2> USE <1>6 DEF StartRefused, Acknowledge
  <2>1. RamTypeOK'
    BY DataFacts DEF RamTypeOK, ramVars, outVars, PublishFailure, Errs
  <2>2. TxnTypeOK'
    BY DEF TxnTypeOK, txnVars, RamTypeOK, States
  <2>3. SockTypeOK' /\ TimeTypeOK' /\ WireTypeOK' /\ GuestTypeOK' /\ BudgetTypeOK'
    BY DEF SockTypeOK, TimeTypeOK, WireTypeOK, GuestTypeOK, BudgetTypeOK, sockVars,
       timeVars, wireVars, guestVars, budget
  <2> QED BY <2>1, <2>2, <2>3
<1>7. CASE StartSend
  <2> USE <1>7 DEF StartSend
  <2>1. RamTypeOK'
    BY DEF RamTypeOK, ramVars, outVars
  <2>2. TxnTypeOK'
    BY MailboxAssumption DEF TxnTypeOK, txnVars, RamTypeOK, States
  <2>3. TimeTypeOK'
    BY MailboxAssumption DEF TimeTypeOK, timeVars
  <2>4. WireTypeOK'
    BY DEF WireTypeOK, wireVars
  <2>5. SockTypeOK' /\ GuestTypeOK' /\ BudgetTypeOK'
    BY DEF SockTypeOK, GuestTypeOK, BudgetTypeOK, sockVars, guestVars, budget
  <2> QED BY <2>1, <2>2, <2>3, <2>4, <2>5
<1>8. CASE SendTimeout
  BY <1>8, FailTxnTypes DEF SendTimeout, WireTypeOK, wireVars, TxnTypeOK, Errs
<1>9. CASE RxTimeout
  BY <1>9, FailTxnTypes DEF RxTimeout, WireTypeOK, wireVars, TxnTypeOK, Errs
<1>10. CASE RxEof
  BY <1>10, FailLinkTypes DEF RxEof
<1>11. CASE RxAccumulate
  <2> USE <1>11 DEF RxAccumulate
  <2>1. WireTypeOK'
    BY RxTypes DEF WireTypeOK, wireVars
  <2>2. TxnTypeOK'
    BY RxTypes DEF TxnTypeOK, txnVars, Piece, Rx
  <2>3. SockTypeOK' /\ RamTypeOK' /\ TimeTypeOK' /\ GuestTypeOK' /\ BudgetTypeOK'
    BY DEF SockTypeOK, RamTypeOK, TimeTypeOK, GuestTypeOK, BudgetTypeOK, sockVars,
       ramVars, outVars, timeVars, guestVars, budget, Rx
  <2> QED BY <2>1, <2>2, <2>3
<1>12. CASE RxOverflow
  <2> USE <1>12 DEF RxOverflow
  <2>1. WireTypeOK'
    BY RxTypes DEF WireTypeOK, wireVars
  <2>2. TxnTypeOK'
    BY DEF TxnTypeOK, txnVars
  <2>3. SockTypeOK' /\ RamTypeOK' /\ TimeTypeOK' /\ GuestTypeOK' /\ BudgetTypeOK'
    BY DEF SockTypeOK, RamTypeOK, TimeTypeOK, GuestTypeOK, BudgetTypeOK, sockVars,
       ramVars, outVars, timeVars, guestVars, budget, Rx
  <2> QED BY <2>1, <2>2, <2>3
<1>13. CASE RxBadFrame
  BY <1>13, FailTxnTypes, RxTypes DEF RxBadFrame, Errs
<1>14. CASE RxReply
  <2> USE <1>14 DEF RxReply, Acknowledge
  <2>1. WireTypeOK'
    BY RxTypes DEF WireTypeOK, wireVars
  <2>2. RamTypeOK'
    BY DEF RamTypeOK, ramVars, outVars, PublishReply, TxnTypeOK, Frames, NoFrame, Errs
  <2>3. TxnTypeOK'
    BY DEF TxnTypeOK, txnVars, States
  <2>4. SockTypeOK' /\ TimeTypeOK' /\ GuestTypeOK' /\ BudgetTypeOK'
    BY DEF SockTypeOK, TimeTypeOK, GuestTypeOK, BudgetTypeOK, sockVars, timeVars,
       guestVars, budget, Rx
  <2> QED BY <2>1, <2>2, <2>3, <2>4
<1>15. CASE RxDbcFrame
  <2> USE <1>15 DEF RxDbcFrame
  <2>1. WireTypeOK'
    BY RxTypes DEF WireTypeOK, wireVars
  <2>2. RamTypeOK'
    BY DataFacts DEF RamTypeOK, ramVars, outVars, ResetCells, Errs
  <2>3. TxnTypeOK'
    BY DEF TxnTypeOK, txnVars
  <2>4. TimeTypeOK'
    BY MailboxAssumption DEF TimeTypeOK, timeVars
  <2>5. GuestTypeOK'
    BY SeqsFacts DEF GuestTypeOK, guestVars, ResetGuest
  <2>6. SockTypeOK' /\ BudgetTypeOK'
    BY DEF SockTypeOK, BudgetTypeOK, sockVars, budget, ResetCells, ResetGuest
  <2> QED BY <2>1, <2>2, <2>3, <2>4, <2>5, <2>6
<1>16. CASE SendChunk
  <2> USE <1>16 DEF SendChunk
  <2>1. TxnTypeOK'
    BY MailboxAssumption DEF TxnTypeOK, txnVars, States
  <2>2. WireTypeOK'
    BY SequenceFacts DEF WireTypeOK, wireVars, TxnTypeOK
  <2>3. SockTypeOK' /\ RamTypeOK' /\ TimeTypeOK' /\ GuestTypeOK' /\ BudgetTypeOK'
    BY DEF SockTypeOK, RamTypeOK, TimeTypeOK, GuestTypeOK, BudgetTypeOK, sockVars,
       ramVars, outVars, timeVars, guestVars, budget
  <2> QED BY <2>1, <2>2, <2>3
<1>17. CASE SendFails
  BY <1>17, FailLinkTypes DEF SendFails
<1>18. CASE Elapse
  <2> USE <1>18 DEF Elapse
  <2>1. TimeTypeOK'
    BY MailboxAssumption DEF TimeTypeOK, timeVars
  <2>2. SockTypeOK' /\ RamTypeOK' /\ TxnTypeOK' /\ WireTypeOK' /\ GuestTypeOK'
       /\ BudgetTypeOK'
    BY DEF SockTypeOK, RamTypeOK, TxnTypeOK, WireTypeOK, GuestTypeOK, BudgetTypeOK,
       sockVars, ramVars, outVars, txnVars, wireVars, guestVars, budget
  <2> QED BY <2>1, <2>2
<1>19. CASE ConsoleReset
  <2> USE <1>19 DEF ConsoleReset
  <2>1. RamTypeOK'
    BY DataFacts DEF RamTypeOK, ramVars, outVars, ResetCells, Errs
  <2>2. GuestTypeOK'
    BY SeqsFacts DEF GuestTypeOK, guestVars, ResetGuest
  <2>3. BudgetTypeOK'
    BY MailboxAssumption DEF BudgetTypeOK, budget
  <2>4. SockTypeOK' /\ TxnTypeOK' /\ TimeTypeOK' /\ WireTypeOK'
    BY DEF SockTypeOK, TxnTypeOK, TimeTypeOK, WireTypeOK, sockVars, txnVars, timeVars,
       wireVars, ResetCells, ResetGuest
  <2> QED BY <2>1, <2>2, <2>3, <2>4
<1>20. CASE GuestPokes
  <2> USE <1>20 DEF GuestPokes
  <2>1. GuestTypeOK'
    BY MailboxAssumption DEF GuestTypeOK, guestVars, Req
  <2>2. RamTypeOK'
    BY DataFacts, <2>1 DEF RamTypeOK, ramVars, outVars, GuestTypeOK
  <2>3. SockTypeOK' /\ TxnTypeOK' /\ TimeTypeOK' /\ WireTypeOK' /\ BudgetTypeOK'
    BY DEF SockTypeOK, TxnTypeOK, TimeTypeOK, WireTypeOK, BudgetTypeOK, sockVars,
       txnVars, timeVars, wireVars, budget
  <2> QED BY <2>1, <2>2, <2>3
<1>21. CASE GuestPosts
  <2> USE <1>21 DEF GuestPosts
  <2>1. RamTypeOK'
    BY SeqsFacts, DataFacts DEF RamTypeOK, ramVars, outVars, GuestTypeOK
  <2>2. GuestTypeOK'
    BY SeqsFacts DEF GuestTypeOK, guestVars, RamTypeOK
  <2>3. SockTypeOK' /\ TxnTypeOK' /\ TimeTypeOK' /\ WireTypeOK' /\ BudgetTypeOK'
    BY DEF SockTypeOK, TxnTypeOK, TimeTypeOK, WireTypeOK, BudgetTypeOK, sockVars,
       txnVars, timeVars, wireVars, budget
  <2> QED BY <2>1, <2>2, <2>3
<1>22. CASE GuestAccepts
  <2> USE <1>22 DEF GuestAccepts, GuestOnly
  <2>1. RamTypeOK'
    BY DEF RamTypeOK, ramVars, outVars
  <2>2. GuestTypeOK'
    BY DEF GuestTypeOK, guestVars
  <2>3. SockTypeOK' /\ TxnTypeOK' /\ TimeTypeOK' /\ WireTypeOK' /\ BudgetTypeOK'
    BY DEF SockTypeOK, TxnTypeOK, TimeTypeOK, WireTypeOK, BudgetTypeOK, sockVars,
       txnVars, timeVars, wireVars, budget
  <2> QED BY <2>1, <2>2, <2>3
<1>23. CASE GuestGivesUp
  <2> USE <1>23 DEF GuestGivesUp, GuestOnly
  <2>1. RamTypeOK'
    BY DEF RamTypeOK, ramVars, outVars
  <2>2. GuestTypeOK'
    BY DEF GuestTypeOK, guestVars
  <2>3. SockTypeOK' /\ TxnTypeOK' /\ TimeTypeOK' /\ WireTypeOK' /\ BudgetTypeOK'
    BY DEF SockTypeOK, TxnTypeOK, TimeTypeOK, WireTypeOK, BudgetTypeOK, sockVars,
       txnVars, timeVars, wireVars, budget
  <2> QED BY <2>1, <2>2, <2>3
<1>24. CASE GuestRepokes
  <2> USE <1>24 DEF GuestRepokes, GuestOnly
  <2>1. RamTypeOK'
    BY DEF RamTypeOK, ramVars, outVars, GuestTypeOK
  <2>2. GuestTypeOK'
    BY DEF GuestTypeOK, guestVars
  <2>3. SockTypeOK' /\ TxnTypeOK' /\ TimeTypeOK' /\ WireTypeOK' /\ BudgetTypeOK'
    BY DEF SockTypeOK, TxnTypeOK, TimeTypeOK, WireTypeOK, BudgetTypeOK, sockVars,
       txnVars, timeVars, wireVars, budget
  <2> QED BY <2>1, <2>2, <2>3
<1>25. CASE GuestAbandons
  <2> USE <1>25 DEF GuestAbandons, GuestOnly
  <2>1. RamTypeOK'
    BY DEF RamTypeOK, ramVars, outVars
  <2>2. GuestTypeOK'
    BY DEF GuestTypeOK, guestVars
  <2>3. SockTypeOK' /\ TxnTypeOK' /\ TimeTypeOK' /\ WireTypeOK' /\ BudgetTypeOK'
    BY DEF SockTypeOK, TxnTypeOK, TimeTypeOK, WireTypeOK, BudgetTypeOK, sockVars,
       txnVars, timeVars, wireVars, budget
  <2> QED BY <2>1, <2>2, <2>3
<1>26. CASE BridgeComesUp
  <2> USE <1>26 DEF BridgeComesUp, BridgeOnly
  <2>1. SockTypeOK'
    BY DEF SockTypeOK, sockVars
  <2>2. BudgetTypeOK'
    BY MailboxAssumption DEF BudgetTypeOK, budget
  <2>3. RamTypeOK' /\ TxnTypeOK' /\ TimeTypeOK' /\ WireTypeOK' /\ GuestTypeOK'
    BY DEF RamTypeOK, TxnTypeOK, TimeTypeOK, WireTypeOK, GuestTypeOK, ramVars, outVars,
       txnVars, timeVars, wireVars, guestVars
  <2> QED BY <2>1, <2>2, <2>3
<1>27. CASE BridgeDrops
  <2> USE <1>27 DEF BridgeDrops, BridgeOnly
  <2>1. SockTypeOK'
    BY DEF SockTypeOK, sockVars
  <2>2. WireTypeOK'
    BY SequenceFacts DEF WireTypeOK, wireVars
  <2>3. BudgetTypeOK'
    BY MailboxAssumption DEF BudgetTypeOK, budget
  <2>4. RamTypeOK' /\ TxnTypeOK' /\ TimeTypeOK' /\ GuestTypeOK'
    BY DEF RamTypeOK, TxnTypeOK, TimeTypeOK, GuestTypeOK, ramVars, outVars, txnVars,
       timeVars, guestVars
  <2> QED BY <2>1, <2>2, <2>3, <2>4
<1>28. CASE BridgeReplies
  <2> USE <1>28 DEF BridgeReplies, BridgeOnly
  <2>1. SockTypeOK'
    BY DEF SockTypeOK, sockVars, BridgeSends
  <2>2. WireTypeOK'
    BY SequenceFacts, DataFacts, BridgeSendsTypes DEF WireTypeOK, wireVars
  <2>3. BudgetTypeOK'
    BY MailboxAssumption DEF BudgetTypeOK, budget, BridgeSends
  <2>4. RamTypeOK' /\ TxnTypeOK' /\ TimeTypeOK' /\ GuestTypeOK'
    BY DEF RamTypeOK, TxnTypeOK, TimeTypeOK, GuestTypeOK, ramVars, outVars, txnVars,
       timeVars, guestVars, BridgeSends
  <2> QED BY <2>1, <2>2, <2>3, <2>4
<1>29. CASE BridgeSendsTail
  <2> USE <1>29 DEF BridgeSendsTail, BridgeOnly
  <2>1. SockTypeOK'
    BY DEF SockTypeOK, sockVars
  <2>2. WireTypeOK'
    BY SequenceFacts, DataFacts DEF WireTypeOK, wireVars
  <2>3. BudgetTypeOK'
    BY MailboxAssumption DEF BudgetTypeOK, budget
  <2>4. RamTypeOK' /\ TxnTypeOK' /\ TimeTypeOK' /\ GuestTypeOK'
    BY DEF RamTypeOK, TxnTypeOK, TimeTypeOK, GuestTypeOK, ramVars, outVars, txnVars,
       timeVars, guestVars
  <2> QED BY <2>1, <2>2, <2>3, <2>4
<1>30. CASE BridgeIgnores
  <2> USE <1>30 DEF BridgeIgnores, BridgeOnly
  <2>1. SockTypeOK'
    BY DEF SockTypeOK, sockVars
  <2>2. WireTypeOK'
    BY SequenceFacts DEF WireTypeOK, wireVars
  <2>3. BudgetTypeOK'
    BY MailboxAssumption DEF BudgetTypeOK, budget
  <2>4. RamTypeOK' /\ TxnTypeOK' /\ TimeTypeOK' /\ GuestTypeOK'
    BY DEF RamTypeOK, TxnTypeOK, TimeTypeOK, GuestTypeOK, ramVars, outVars, txnVars,
       timeVars, guestVars
  <2> QED BY <2>1, <2>2, <2>3, <2>4
<1>31. CASE BridgePushes
  <2> USE <1>31 DEF BridgePushes, BridgeOnly
  <2>1. SockTypeOK'
    BY DEF SockTypeOK, sockVars, BridgeSends
  <2>2. WireTypeOK'
    BY DataFacts, BridgeSendsTypes DEF WireTypeOK, wireVars, FrameKinds
  <2>3. BudgetTypeOK'
    BY MailboxAssumption DEF BudgetTypeOK, budget, BridgeSends
  <2>4. RamTypeOK' /\ TxnTypeOK' /\ TimeTypeOK' /\ GuestTypeOK'
    BY DEF RamTypeOK, TxnTypeOK, TimeTypeOK, GuestTypeOK, ramVars, outVars, txnVars,
       timeVars, guestVars, BridgeSends
  <2> QED BY <2>1, <2>2, <2>3, <2>4
<1>32. CASE BridgeGarbles
  <2> USE <1>32 DEF BridgeGarbles, BridgeOnly
  <2>1. SockTypeOK'
    BY DEF SockTypeOK, sockVars, BridgeSends
  <2>2. WireTypeOK'
    BY SequenceFacts, DataFacts, BridgeSendsTypes DEF WireTypeOK, wireVars, FrameKinds
  <2>3. BudgetTypeOK'
    BY MailboxAssumption DEF BudgetTypeOK, budget, BridgeSends
  <2>4. RamTypeOK' /\ TxnTypeOK' /\ TimeTypeOK' /\ GuestTypeOK'
    BY DEF RamTypeOK, TxnTypeOK, TimeTypeOK, GuestTypeOK, ramVars, outVars, txnVars,
       timeVars, guestVars, BridgeSends
  <2> QED BY <2>1, <2>2, <2>3, <2>4
<1>33. CASE UNCHANGED vars
  BY <1>33 DEF vars, SockTypeOK, RamTypeOK, TxnTypeOK, TimeTypeOK, WireTypeOK,
     GuestTypeOK, BudgetTypeOK, sockVars, ramVars, outVars, txnVars, timeVars,
     wireVars, guestVars, budget
<1> QED BY <1>1, <1>2, <1>3, <1>4, <1>5, <1>6, <1>7, <1>8, <1>9, <1>10, <1>11, <1>12,
   <1>13, <1>14, <1>15, <1>16, <1>17, <1>18, <1>19, <1>20, <1>21, <1>22, <1>23, <1>24, <1>25, <1>26, <1>27, <1>28, <1>29, <1>30, <1>31, <1>32, <1>33
     DEF Next, Tick, Send, Guest, Bridge

\* In every reachable state every cell, timer and buffer of the mailbox has its
\* type: in particular a sequence number derived from ACKSEQ is a cell value.
THEOREM TypeCorrect == Spec => []TypeOK
<1> QED BY InitTypeOK, NextTypeOK, PTL DEF Spec
-----------------------------------------------------------------------------
(* The LINK cell.                                                          *)

LEMMA InitLinkInv == Init => LinkInv
BY DEF Init, SockInit, LinkInv, LinkHonest, InTxn

LEMMA NextLinkInv == TypeOK /\ LinkInv /\ [Next]_vars => LinkInv'
<1> SUFFICES ASSUME TypeOK, LinkInv, [Next]_vars PROVE LinkInv'
  OBVIOUS
<1> USE DEF LinkInv, LinkHonest, InTxn, TypeOK, SockTypeOK, RamTypeOK, sockVars, ramVars
<1>1. CASE ConnectBegins
  BY <1>1 DEF ConnectBegins, TryNext
<1>2. CASE ConnectFails
  BY <1>2 DEF ConnectFails
<1>3. CASE ConnectDone
  BY <1>3 DEF ConnectDone, PollConnected
<1>4. CASE ConnectFallback
  BY <1>4 DEF ConnectFallback, PollFallback, TryNext
<1>5. CASE ConnectGivesUp
  BY <1>5 DEF ConnectGivesUp, FailLink, Close
<1>6. CASE StartRefused
  BY <1>6 DEF StartRefused, Pending, Acknowledge
<1>7. CASE StartSend
  BY <1>7 DEF StartSend, Pending, Connected
<1>8. CASE SendTimeout
  BY <1>8 DEF SendTimeout, FailTxn, Acknowledge
<1>9. CASE SendChunk
  BY <1>9 DEF SendChunk
<1>10. CASE SendFails
  BY <1>10 DEF SendFails, FailLink, Close, Acknowledge
<1>11. CASE RxTimeout
  BY <1>11 DEF RxTimeout, FailTxn, Acknowledge
<1>12. CASE RxEof
  BY <1>12 DEF RxEof, FailLink, Close, Acknowledge
<1>13. CASE RxAccumulate
  BY <1>13 DEF RxAccumulate
<1>14. CASE RxOverflow
  BY <1>14 DEF RxOverflow
<1>15. CASE RxBadFrame
  BY <1>15 DEF RxBadFrame, Rx, FailTxn, Acknowledge
<1>16. CASE RxReply
  BY <1>16 DEF RxReply, Rx, Acknowledge
<1>17. CASE RxDbcFrame
  <2>1. fd' = fd /\ state' = state /\ state = "RXWAIT" /\ fd = "open"
    BY <1>17 DEF RxDbcFrame, Rx
  <2>2. link' = link \/ link' = TRUE
    BY <1>17, <2>1 DEF RxDbcFrame, ResetCells, Connected
  <2> QED BY <2>1, <2>2
<1>18. CASE Elapse
  BY <1>18 DEF Elapse
<1>19. CASE ConsoleReset
  BY <1>19 DEF ConsoleReset, ResetCells, Connected
<1>20. CASE Guest
  BY <1>20 DEF Guest, GuestPokes, GuestPosts, GuestAccepts, GuestGivesUp, GuestRepokes, GuestAbandons, GuestOnly
<1>21. CASE Bridge
  BY <1>21 DEF Bridge, BridgeComesUp, BridgeDrops, BridgeReplies, BridgeSendsTail, BridgeIgnores, BridgePushes, BridgeGarbles, BridgeSends, BridgeOnly
<1>22. CASE UNCHANGED vars
  BY <1>22 DEF vars
<1> QED BY <1>1, <1>2, <1>3, <1>4, <1>5, <1>6, <1>7, <1>8, <1>9, <1>10, <1>11, <1>12, <1>13, <1>14, <1>15, <1>16, <1>17, <1>18, <1>19, <1>20, <1>21, <1>22 DEF Next, Tick, Send

\* In every reachable state the LINK cell is 1 exactly when a connection is
\* established, whatever resets and failures came before.
THEOREM LinkCorrect == Spec => []LinkHonest
<1>1. LinkInv => LinkHonest
  BY DEF LinkInv
<1> QED BY InitTypeOK, NextTypeOK, InitLinkInv, NextLinkInv, <1>1, PTL DEF Spec

-----------------------------------------------------------------------------
(* The refinement.                                                         *)

LEMMA InitRefines == Init => MT!Init
BY DEF Init, MT!Init, InTxn

LEMMA NextRefines == TypeOK /\ [Next]_vars => [MT!Next]_(MT!vars)
<1> SUFFICES ASSUME TypeOK, [Next]_vars PROVE [MT!Next]_(MT!vars)
  OBVIOUS
<1>0. SeqMod \notin Seqs /\ seq \in Seqs /\ ackseq \in Seqs /\ inflight \in Seqs /\ err \in Errs
  BY SeqsFacts DEF TypeOK, RamTypeOK, TxnTypeOK
<1> USE DEF InTxn, MT!vars
\* A transaction in flight ends.
<1>1. ASSUME InTxn, ackseq' = inflight, state' = "IDLE", err' \in Errs
      PROVE  MT!Next
  BY <1>0, <1>1 DEF MT!Next, MT!Finish
\* Nothing the abstraction sees has changed.
<1>2. ASSUME UNCHANGED <<ackseq, err, inflight>>, InTxn' = InTxn
      PROVE  UNCHANGED MT!vars
  BY <1>2
\* The outcome was wiped.
<1>3. ASSUME UNCHANGED <<ackseq, inflight, state>>, err' = "OK"
      PROVE  MT!Next
  BY <1>3 DEF MT!Next, MT!Reset
<1>4. CASE FailLink
  <2>1. CASE InTxn
    BY <1>1, <1>4, <2>1 DEF FailLink, PublishFailure, Acknowledge, Errs
  <2>2. CASE ~InTxn
    BY <1>2, <1>4, <2>2 DEF FailLink, outVars, txnVars
  <2> QED BY <2>1, <2>2
<1>5. ASSUME InTxn, NEW e \in Errs, FailTxn(e)
      PROVE  MT!Next
  BY <1>1, <1>5 DEF FailTxn, PublishFailure, Acknowledge
<1>6. CASE StartRefused
  <2>1. MT!Refuse(seq, err')
    BY <1>0, <1>6 DEF StartRefused, Pending, PublishFailure, Acknowledge, MT!Refuse
  <2>2. err' \in Errs
    BY <1>6 DEF StartRefused, PublishFailure, Errs
  <2> QED BY <1>0, <2>1, <2>2 DEF MT!Next
<1>7. CASE StartSend
  BY <1>0, <1>7 DEF StartSend, Pending, MT!Next, MT!Begin
<1>8. CASE RxReply
  BY <1>1, <1>8 DEF RxReply, Rx, PublishReply, Acknowledge, Errs
<1>9. CASE RxDbcFrame
  BY <1>2, <1>3, <1>9 DEF RxDbcFrame, ResetCells, ramVars
<1>10. CASE ConsoleReset
  BY <1>3, <1>10 DEF ConsoleReset, ResetCells, txnVars
<1>11. CASE ConnectBegins \/ ConnectFails \/ ConnectDone \/ ConnectFallback
  BY <1>2, <1>11 DEF ConnectBegins, ConnectFails, ConnectDone, ConnectFallback, ramVars, outVars,
     txnVars
<1>12. CASE SendChunk \/ RxAccumulate \/ RxOverflow \/ Elapse
  BY <1>2, <1>12 DEF SendChunk, RxAccumulate, RxOverflow, Rx, Elapse, ramVars, txnVars
<1>13. CASE Guest
  BY <1>2, <1>13 DEF Guest, GuestPokes, GuestPosts, GuestAccepts, GuestGivesUp, GuestRepokes,
     GuestAbandons, GuestOnly, txnVars
<1>14. CASE Bridge
  BY <1>2, <1>14 DEF Bridge, BridgeComesUp, BridgeDrops, BridgeReplies, BridgeSendsTail,
     BridgeIgnores, BridgePushes, BridgeGarbles, BridgeSends, BridgeOnly, ramVars, txnVars
<1>15. CASE SendTimeout \/ RxTimeout \/ RxBadFrame
  BY <1>5, <1>15 DEF SendTimeout, RxTimeout, RxBadFrame, Rx, Errs
<1>16. CASE ConnectGivesUp \/ SendFails \/ RxEof
  BY <1>4, <1>16 DEF ConnectGivesUp, SendFails, RxEof
<1>17. CASE UNCHANGED vars
  BY <1>2, <1>17 DEF vars, ramVars, txnVars
<1> QED
  BY <1>6, <1>7, <1>8, <1>9, <1>10, <1>11, <1>12, <1>13, <1>14, <1>15, <1>16, <1>17
  DEF Next, Tick, Send

\* The peripheral implements the mailbox contract: one transaction at a time,
\* ACKSEQ moved by its end only and together with its outcome, in every order of
\* ticks, program steps, resets and failures of the connection.
THEOREM Refinement == Spec => TxnSafe
<1> QED BY InitTypeOK, NextTypeOK, InitRefines, NextRefines, PTL
        DEF Spec, TxnSafe, MT!SafeSpec

-----------------------------------------------------------------------------
(* A program that is left alone gets its own answers.                      *)

\* Nobody resets the console, by hand or by a ROM push, and the program does
\* not go on to another request before the one it gave up on is answered.
Undisturbed == MaxResets = 0 /\ MaxPushes = 0 /\ ~Abandon

\* The bridge answers nothing that is over.
Prompt == ~LatePeer

LEMMA SeqOf ==
    ASSUME NEW S
    PROVE  /\ <<>> \in Seq(S)
           /\ \A s \in Seq(S) : s # <<>> => Head(s) \in S /\ Tail(s) \in Seq(S)
           /\ \A s \in Seq(S), x \in S : Append(s, x) \in Seq(S)
           /\ \A s \in Seq(S), x, y \in S : s \o <<x, y>> \in Seq(S)
OBVIOUS

\* Program and peripheral take turns: SEQ differs from ACKSEQ only while the
\* program waits, and then the request cells stand still.
Turn ==
    /\ pc \in {"ready", "poking"} => seq = ackseq
    /\ pc = "poking" => cells.hd = greq
    /\ pc \in {"waiting", "gaveup"} => cells = Whole(greq) /\ seq = gseq
    /\ InTxn => inflight = seq /\ seq # ackseq /\ txreq = Whole(greq)

\* The requests that were sent are older than the one that is not yet.
Older == \A c \in sent : c.hd.n < nreq
Once == /\ \A c \in sent : c.hd.n <= nreq
        /\ pc # "ready" => greq.n = nreq
        /\ pc = "poking" \/ (seq # ackseq /\ ~InTxn) => Older

\* No frame of a push is under way.
Plain == {p \in Piece : p.frame.kind \in {"reply", "bad"}}
NoPushes == /\ toHost \in Seq(Plain)
            /\ rx.frame.kind \in {"reply", "bad", "none"}
            /\ half.kind \in {"reply", "bad", "none"}

OwnInv == Turn /\ Once /\ NoPushes

\* The kinds of steps that the argument tells apart, besides the program's.
Aside == /\ UNCHANGED <<seq, ackseq, cells, err, rxcell, inflight, txreq, sent>>
         /\ UNCHANGED <<pc, gseq, greq, nreq>>
         /\ InTxn' <=> InTxn
Ends == /\ InTxn /\ ~InTxn'
        /\ ackseq' = inflight
        /\ err' # "OK" \/ RxReply
        /\ UNCHANGED <<seq, cells, inflight, txreq, sent>>
        /\ UNCHANGED <<pc, gseq, greq, nreq>>

LEMMA NoPushStep == ASSUME TypeOK, NoPushes, Undisturbed PROVE ~RxDbcFrame /\ ~BridgePushes /\ ~ConsoleReset
<1>1. ~RxDbcFrame
  BY DEF RxDbcFrame, NoPushes
<1>2. ~BridgePushes /\ ~ConsoleReset
  BY DEF BridgePushes, ConsoleReset, TypeOK, BudgetTypeOK, Undisturbed
<1> QED BY <1>1, <1>2

LEMMA StepKinds ==
    ASSUME TypeOK, NoPushes, Undisturbed, [Next]_vars
    PROVE  Aside \/ Ends \/ StartRefused \/ StartSend \/ Guest
<1> USE DEF Aside, Ends, InTxn
<1>1. CASE ConnectBegins \/ ConnectFails \/ ConnectDone \/ ConnectFallback
  BY <1>1 DEF ConnectBegins, ConnectFails, ConnectDone, ConnectFallback, ramVars, outVars, txnVars, guestVars
<1>2. CASE FailLink
  BY <1>2 DEF FailLink, PublishFailure, Acknowledge, outVars, txnVars, guestVars
<1>3. CASE ConnectGivesUp \/ SendFails \/ RxEof
  BY <1>2, <1>3 DEF ConnectGivesUp, SendFails, RxEof
<1>4. CASE SendTimeout \/ RxTimeout \/ RxBadFrame
  BY <1>4 DEF SendTimeout, RxTimeout, RxBadFrame, Rx, FailTxn, PublishFailure, Acknowledge, guestVars
<1>5. CASE RxReply
  BY <1>5 DEF RxReply, Rx, Acknowledge, txnVars, guestVars
<1>6. CASE SendChunk \/ RxAccumulate \/ RxOverflow \/ Elapse
  BY <1>6 DEF SendChunk, RxAccumulate, RxOverflow, Rx, Elapse, ramVars, txnVars, guestVars
<1>7. CASE Bridge
  BY <1>7 DEF Bridge, BridgeComesUp, BridgeDrops, BridgeReplies, BridgeSendsTail,
     BridgeIgnores, BridgePushes, BridgeGarbles, BridgeSends, BridgeOnly, ramVars, txnVars, guestVars
<1>8. CASE UNCHANGED vars
  BY <1>8 DEF vars, ramVars, txnVars, guestVars
<1> QED
  BY <1>1, <1>3, <1>4, <1>5, <1>6, <1>7, <1>8, NoPushStep DEF Next, Tick, Send

LEMMA InitOwnInv == Init => OwnInv
<1> SUFFICES ASSUME Init PROVE OwnInv
  OBVIOUS
<1>1. Turn /\ Once
  BY DEF Init, Turn, Once, Older, InTxn
<1>2. NoPushes
  BY SeqOf DEF Init, NoPushes, NoFrame
<1> QED BY <1>1, <1>2 DEF OwnInv

\* What a piece of a plain frame is.
LEMMA PlainFacts ==
    /\ \A c \in Cells : /\ Piece2([kind |-> "reply", of |-> c])[1] \in Plain
                        /\ Piece2([kind |-> "reply", of |-> c])[2] \in Plain
    /\ Piece2(Frame("bad"))[1] \in Plain /\ Piece2(Frame("bad"))[2] \in Plain
    /\ [part |-> "flood", frame |-> Frame("bad")] \in Plain
    /\ \A f \in Frames : f.kind \in {"reply", "bad"} =>
          /\ Piece2(f)[1] \in Plain /\ Piece2(f)[2] \in Plain
          /\ Piece2(f) = <<Piece2(f)[1], Piece2(f)[2]>>
BY DEF Plain, Piece, Piece2, Frame, Frames, FrameKinds, NoCells, Cells

LEMMA BridgeSendsPlain ==
    ASSUME NoPushes, NEW f \in Frames, f.kind \in {"reply", "bad"}, BridgeSends(f)
    PROVE  toHost' \in Seq(Plain) /\ half'.kind \in {"reply", "bad", "none"}
<1>1. CASE toHost' = toHost \o Piece2(f) /\ UNCHANGED half
  BY <1>1, SeqOf, PlainFacts DEF NoPushes
<1>2. CASE toHost' = Append(toHost, Piece2(f)[1]) /\ half' = f
  BY <1>2, SeqOf, PlainFacts DEF NoPushes
<1> QED BY <1>1, <1>2 DEF BridgeSends

LEMMA NextNoPushes == TypeOK /\ NoPushes /\ Undisturbed /\ [Next]_vars => NoPushes'
<1> SUFFICES ASSUME TypeOK, NoPushes, Undisturbed, [Next]_vars PROVE NoPushes'
  OBVIOUS
<1>1. CASE UNCHANGED <<toHost, rx, half>>
  BY <1>1 DEF NoPushes
<1>2. CASE ConnectBegins \/ ConnectFails \/ ConnectDone \/ ConnectFallback
           \/ StartRefused \/ SendTimeout \/ SendChunk \/ RxTimeout \/ Elapse \/ Guest
  BY <1>1, <1>2 DEF ConnectBegins, ConnectFails, ConnectDone, ConnectFallback, StartRefused,
     SendTimeout, SendChunk, RxTimeout, Elapse, Guest, GuestPokes, GuestPosts, GuestAccepts,
     GuestGivesUp, GuestRepokes, GuestAbandons, GuestOnly, txnVars, wireVars
<1>3. CASE FailLink
  <2>1. toHost' = <<>> /\ half' = NoFrame /\ rx' = rx
    BY <1>3 DEF FailLink, DropWires, txnVars
  <2> QED BY <2>1, SeqOf DEF NoPushes, NoFrame
<1>4. CASE ConnectGivesUp \/ SendFails \/ RxEof
  BY <1>3, <1>4 DEF ConnectGivesUp, SendFails, RxEof
<1>5. CASE StartSend
  <2>1. toHost' = <<>> /\ half' = half /\ rx'.frame = NoFrame
    BY <1>5 DEF StartSend
  <2> QED BY <2>1, SeqOf DEF NoPushes, NoFrame
<1>6. ASSUME NEW part, Rx(part)
      PROVE  toHost' \in Seq(Plain) /\ Head(toHost) \in Plain /\ half' = half
  BY <1>6, SeqOf DEF Rx, NoPushes
<1>7. CASE RxAccumulate \/ RxOverflow \/ RxBadFrame \/ RxReply
  <2>1. toHost' \in Seq(Plain) /\ Head(toHost) \in Plain /\ half' = half
    BY <1>6, <1>7 DEF RxAccumulate, RxOverflow, RxBadFrame, RxReply
  <2>2. rx'.frame \in {rx.frame, NoFrame, Head(toHost).frame}
    BY <1>7 DEF RxAccumulate, RxOverflow, RxBadFrame, RxReply, txnVars
  <2>3. Head(toHost).frame.kind \in {"reply", "bad"}
    BY <2>1 DEF Plain
  <2>4. rx'.frame.kind \in {"reply", "bad", "none"}
    BY <2>2, <2>3 DEF NoPushes, NoFrame
  <2> QED BY <2>1, <2>4 DEF NoPushes
<1>8. CASE BridgeComesUp \/ BridgeDrops \/ BridgeIgnores
  <2>1. toHost' \in {toHost, <<>>} /\ half' \in {half, NoFrame} /\ rx' = rx
    BY <1>8 DEF BridgeComesUp, BridgeDrops, BridgeIgnores, BridgeOnly, wireVars, txnVars
  <2>2. toHost' \in Seq(Plain)
    BY <2>1, SeqOf DEF NoPushes
  <2>3. half'.kind \in {"reply", "bad", "none"}
    BY <2>1 DEF NoPushes, NoFrame
  <2> QED BY <2>1, <2>2, <2>3 DEF NoPushes
<1>9. CASE BridgeSendsTail
  <2>1. toHost' = Append(toHost, Piece2(half)[2]) /\ half' = NoFrame /\ half # NoFrame /\ rx' = rx
    BY <1>9 DEF BridgeSendsTail, BridgeOnly, txnVars
  <2>2. half \in Frames /\ half.kind \in {"reply", "bad"}
    BY <2>1 DEF TypeOK, WireTypeOK, NoPushes, Frames, FrameKinds
  <2> QED BY <2>1, <2>2, SeqOf, PlainFacts DEF NoPushes, NoFrame
<1>10. CASE BridgeReplies
  <2> DEFINE f == [kind |-> "reply", of |-> Head(toPeer)]
  <2>1. BridgeSends(f) /\ Head(toPeer) \in Cells
    BY <1>10, SequenceFacts DEF BridgeReplies, TypeOK, WireTypeOK
  <2>2. f \in Frames /\ f.kind = "reply"
    BY <2>1, DataFacts
  <2>3. rx' = rx
    BY <2>1 DEF BridgeSends, BridgeOnly, txnVars
  <2> HIDE DEF f
  <2> QED BY <2>1, <2>2, <2>3, BridgeSendsPlain DEF NoPushes
<1>11. CASE BridgeGarbles
  <2>1. rx' = rx
    BY <1>11 DEF BridgeGarbles, BridgeSends, BridgeOnly, txnVars
  <2>2. CASE BridgeSends(Frame("bad"))
    <3>1. Frame("bad") \in Frames /\ Frame("bad").kind = "bad"
      BY DataFacts DEF Frame, FrameKinds
    <3> QED BY <2>1, <2>2, <3>1, BridgeSendsPlain DEF NoPushes
  <2>3. CASE toHost' = Append(toHost, [part |-> "flood", frame |-> Frame("bad")]) /\ half' = half
    BY <2>1, <2>3, SeqOf, PlainFacts DEF NoPushes
  <2> QED BY <1>11, <2>2, <2>3 DEF BridgeGarbles
<1>12. CASE UNCHANGED vars
  BY <1>1, <1>12 DEF vars, txnVars, wireVars
<1> QED BY <1>2, <1>4, <1>5, <1>7, <1>8, <1>9, <1>10, <1>11, <1>12, NoPushStep DEF Next, Tick, Send, Bridge

\* The number after ACKSEQ is another one.
LEMMA NextSeqDiffers == \A s \in Seqs : NextSeq(s) # s
BY MailboxAssumption DEF Seqs, NextSeq

LEMMA NextTurn == TypeOK /\ OwnInv /\ Undisturbed /\ [Next]_vars => (Turn /\ Once)'
<1> SUFFICES ASSUME TypeOK, Turn, Once, NoPushes, Undisturbed, [Next]_vars PROVE (Turn /\ Once)'
  BY DEF OwnInv
<1>0. /\ seq \in Seqs /\ ackseq \in Seqs /\ gseq \in Seqs /\ nreq \in Nat
      /\ pc \in {"ready", "poking", "waiting", "gaveup"}
      /\ cells \in Cells /\ sent \subseteq Cells
      /\ \A c \in sent : c.hd.n \in Nat
  <2>1. nreq \in Nat
    BY MailboxAssumption DEF TypeOK, GuestTypeOK
  <2>2. \A c \in Cells : c.hd.n \in Nat
    BY DEF Cells, Req, NoReq
  <2> QED BY <2>1, <2>2 DEF TypeOK, RamTypeOK, GuestTypeOK, TxnTypeOK
<1>1. CASE Aside
  BY <1>1 DEF Aside, Turn, Once, Older
<1>2. CASE Ends
  <2>1. seq' = ackseq' /\ ~InTxn' /\ UNCHANGED <<pc, cells, greq, gseq, nreq, sent>>
    BY <1>2 DEF Ends, Turn
  <2>2. pc \in {"waiting", "gaveup"}
    BY <1>0, <1>2 DEF Ends, Turn
  <2>3. seq' = seq
    BY <1>2 DEF Ends
  <2> QED BY <2>1, <2>2, <2>3 DEF Turn, Once
<1>3. CASE StartRefused
  <2>1. ackseq' = seq /\ ~InTxn' /\ UNCHANGED <<seq, pc, cells, greq, gseq, nreq, sent>> /\ seq # ackseq
    BY <1>3 DEF StartRefused, Pending, Acknowledge, InTxn, guestVars
  <2>2. pc \in {"waiting", "gaveup"}
    BY <1>0, <2>1 DEF Turn
  <2> QED BY <2>1, <2>2 DEF Turn, Once
<1>4. CASE StartSend
  <2>1. /\ UNCHANGED <<seq, ackseq, pc, cells, greq, gseq, nreq>> /\ seq # ackseq /\ ~InTxn /\ InTxn'
        /\ inflight' = seq /\ txreq' = cells /\ sent' = sent \cup {cells}
    BY <1>4 DEF StartSend, Pending, InTxn, guestVars
  <2>2. pc \in {"waiting", "gaveup"}
    BY <1>0, <2>1 DEF Turn
  <2>3. cells = Whole(greq)
    BY <2>2 DEF Turn
  <2>4. cells.hd.n = nreq
    BY <2>2, <2>3 DEF Once, Whole
  <2>5. Turn'
    BY <2>1, <2>2, <2>3 DEF Turn
  <2>6. \A c \in sent' : c.hd.n <= nreq'
    BY <1>0, <2>1, <2>4 DEF Once
  <2>7. Once'
    BY <2>1, <2>2, <2>6 DEF Once
  <2> QED BY <2>5, <2>7
<1>5. CASE Guest
  <2>0. /\ UNCHANGED <<ackseq, inflight, txreq, state, sent>> /\ (InTxn' <=> InTxn)
        /\ GuestPokes \/ GuestPosts \/ GuestAccepts \/ GuestGivesUp \/ GuestRepokes
    BY <1>5 DEF Guest, GuestPokes, GuestPosts, GuestAccepts, GuestGivesUp, GuestRepokes, GuestAbandons,
                GuestOnly, txnVars, InTxn, Undisturbed
  <2>1. CASE GuestPokes
    <3>1. /\ pc = "ready" /\ pc' = "poking" /\ nreq' = nreq + 1 /\ greq'.n = nreq + 1
          /\ cells' = [cells EXCEPT !.hd = greq'] /\ UNCHANGED <<seq, gseq>>
      BY <2>1 DEF GuestPokes
    <3>2. seq = ackseq /\ ~InTxn
      BY <3>1 DEF Turn
    <3>3. cells'.hd = greq'
      BY <1>0, <3>1 DEF Cells
    <3>4. \A c \in sent' : c.hd.n < nreq'
      BY <1>0, <2>0, <3>1 DEF Once
    <3>5. Turn'
      BY <2>0, <3>1, <3>2, <3>3 DEF Turn
    <3>6. Once'
      BY <1>0, <2>0, <3>1, <3>4 DEF Once, Older
    <3> QED BY <3>5, <3>6
  <2>2. CASE GuestPosts
    <3>1. /\ pc = "poking" /\ pc' = "waiting" /\ UNCHANGED <<nreq, greq>>
          /\ cells' = [cells EXCEPT !.tl = greq] /\ seq' = NextSeq(ackseq) /\ gseq' = seq'
      BY <2>2 DEF GuestPosts
    <3>2. seq = ackseq /\ ~InTxn /\ cells.hd = greq /\ Older /\ greq.n = nreq
      BY <3>1 DEF Turn, Once
    <3>3. cells' = Whole(greq')
      BY <1>0, <3>1, <3>2 DEF Cells, Whole
    <3>4. seq' # ackseq'
      BY <1>0, <2>0, <3>1, NextSeqDiffers
    <3>5. Turn'
      BY <2>0, <3>1, <3>2, <3>3 DEF Turn
    <3>6. Once'
      BY <2>0, <3>1, <3>2 DEF Once, Older
    <3> QED BY <3>5, <3>6
  <2>3. CASE GuestAccepts
    <3>1. /\ pc = "waiting" /\ ackseq = gseq /\ pc' = "ready"
          /\ UNCHANGED <<seq, cells, greq, gseq, nreq>>
      BY <2>3 DEF GuestAccepts, Answered, GuestOnly
    <3>2. seq = ackseq /\ ~InTxn
      BY <3>1 DEF Turn
    <3> QED BY <2>0, <3>1, <3>2 DEF Turn, Once, Older
  <2>4. CASE GuestGivesUp \/ GuestRepokes
    <3>1. /\ pc \in {"waiting", "gaveup"} /\ pc' \in {"waiting", "gaveup"}
          /\ UNCHANGED <<cells, greq, gseq, nreq>> /\ seq' \in {seq, gseq}
      BY <2>4 DEF GuestGivesUp, GuestRepokes, GuestOnly
    <3>2. seq' = seq
      BY <3>1 DEF Turn
    <3> QED BY <2>0, <3>1, <3>2 DEF Turn, Once, Older
  <2> QED BY <2>0, <2>1, <2>2, <2>3, <2>4
<1> QED BY <1>1, <1>2, <1>3, <1>4, <1>5, StepKinds

LEMMA OwnAlways == ASSUME Undisturbed PROVE Spec => [](TypeOK /\ OwnInv)
<1>1. TypeOK /\ OwnInv /\ [Next]_vars => OwnInv'
  BY NextTurn, NextNoPushes DEF OwnInv
<1> QED BY <1>1, InitTypeOK, NextTypeOK, InitOwnInv, PTL DEF Spec

\* fujinet_start_txn: of a program nobody disturbs the peripheral only ever
\* sends the request it waits for, whole, however often it pokes its number
\* again and whatever becomes of the connection.
THEOREM OwnRequest == ASSUME Undisturbed PROVE Spec => []OwnTxn
<1>1. TypeOK /\ OwnInv => OwnTxn
  BY DEF OwnInv, Turn, OwnTxn
<1> QED BY <1>1, OwnAlways, PTL

\* ... and it sends each request once (fuji_mailbox.h, the handshake).
THEOREM SentOnce == ASSUME Undisturbed PROVE Spec => NoReplay
<1>1. TypeOK /\ OwnInv => [StartSend => cells \notin sent]_vars
  <2> SUFFICES ASSUME TypeOK, OwnInv, StartSend PROVE cells \notin sent
    OBVIOUS
  <2>1. seq # ackseq /\ ~InTxn
    BY DEF StartSend, Pending, InTxn
  <2>2. pc \in {"waiting", "gaveup"}
    BY <2>1 DEF OwnInv, Turn, TypeOK, GuestTypeOK
  <2>3. cells.hd.n = nreq
    BY <2>2 DEF OwnInv, Turn, Once, Whole
  <2>4. \A c \in sent : c.hd.n < nreq
    BY <2>1 DEF OwnInv, Once, Older
  <2>5. nreq \in Nat
    BY MailboxAssumption DEF TypeOK, GuestTypeOK
  <2> QED BY <2>3, <2>4, <2>5
<1> QED BY <1>1, OwnAlways, PTL DEF NoReplay

-----------------------------------------------------------------------------
(* ... and reads its own reply.                                            *)

\* While a transaction is in flight, every reply that has come in since it
\* began is a reply to its request: what came before was drained.
Mine == {p \in Piece : p.frame.kind = "reply" => p.frame.of = txreq}
OwnWire == /\ InTxn => /\ toHost \in Seq(Mine)
                       /\ rx.frame.kind = "reply" => rx.frame.of = txreq
           /\ half = NoFrame

\* What is published under the program's number is the reply to its request.
OwnReply == (pc \in {"waiting", "gaveup"} /\ ackseq = gseq /\ err = "OK") => rxcell = Whole(greq)

ReplyInv == OwnWire /\ OwnReply

LEMMA InitReplyInv == Init => ReplyInv
BY DEF Init, ReplyInv, OwnWire, OwnReply, InTxn

LEMMA NextOwnWire ==
    ASSUME TypeOK, OwnInv, OwnWire, Undisturbed, Prompt, [Next]_vars
    PROVE  OwnWire'
<1> USE DEF OwnWire
<1>1. CASE UNCHANGED <<toHost, rx, half, txreq>> /\ (InTxn' => InTxn)
  BY <1>1 DEF Mine
<1>2. CASE ConnectBegins \/ ConnectFails \/ ConnectDone \/ ConnectFallback
           \/ StartRefused \/ SendTimeout \/ SendChunk \/ RxTimeout \/ Elapse \/ Guest
  BY <1>1, <1>2 DEF ConnectBegins, ConnectFails, ConnectDone, ConnectFallback, StartRefused, Acknowledge,
     SendTimeout, SendChunk, RxTimeout, FailTxn, Elapse, Guest, GuestPokes, GuestPosts, GuestAccepts,
     GuestGivesUp, GuestRepokes, GuestAbandons, GuestOnly, txnVars, wireVars, InTxn
<1>3. CASE FailLink
  <2>1. half' = NoFrame /\ ~InTxn'
    BY <1>3 DEF FailLink, DropWires, Acknowledge, InTxn
  <2> QED BY <2>1
<1>4. CASE ConnectGivesUp \/ SendFails \/ RxEof
  BY <1>3, <1>4 DEF ConnectGivesUp, SendFails, RxEof
<1>5. CASE StartSend
  <2>1. toHost' = <<>> /\ half' = half /\ rx'.frame = NoFrame
    BY <1>5 DEF StartSend
  <2>2. <<>> \in Seq(Mine')
    BY SeqOf
  <2> QED BY <2>1, <2>2 DEF NoFrame
<1>6. CASE RxBadFrame \/ RxReply
  <2>1. half' = half /\ ~InTxn'
    BY <1>6 DEF RxBadFrame, RxReply, Rx, FailTxn, Acknowledge, InTxn
  <2> QED BY <2>1
<1>7. CASE RxAccumulate \/ RxOverflow
  <2>1. /\ half' = half /\ UNCHANGED txreq /\ InTxn
        /\ toHost # <<>> /\ toHost' = Tail(toHost)
    BY <1>7 DEF RxAccumulate, RxOverflow, Rx, InTxn
  <2>2. rx'.frame \in {NoFrame, Head(toHost).frame}
    BY <1>7 DEF RxAccumulate, RxOverflow
  <2>3. Head(toHost) \in Mine /\ Tail(toHost) \in Seq(Mine)
    BY <2>1, SeqOf
  <2>4. Mine' = Mine
    BY <2>1 DEF Mine
  <2>5. rx'.frame.kind = "reply" => rx'.frame.of = txreq
    BY <2>2, <2>3 DEF Mine, NoFrame
  <2> QED BY <2>1, <2>3, <2>4, <2>5
<1>8. CASE BridgeComesUp \/ BridgeDrops \/ BridgeIgnores
  <2>1. /\ toHost' \in {toHost, <<>>} /\ half' \in {half, NoFrame} /\ UNCHANGED <<rx, txreq>>
        /\ (InTxn' <=> InTxn)
    BY <1>8 DEF BridgeComesUp, BridgeDrops, BridgeIgnores, BridgeOnly, wireVars, txnVars, InTxn
  <2>2. Mine' = Mine /\ <<>> \in Seq(Mine)
    BY <2>1, SeqOf DEF Mine
  <2> QED BY <2>1, <2>2
<1>9. CASE BridgeSendsTail
  BY <1>9 DEF BridgeSendsTail
<1>10. ASSUME NEW f \in Frames, f.kind = "reply" => f.of = txreq, BridgeSends(f)
       PROVE  OwnWire'
  <2>1. /\ toHost' = toHost \o Piece2(f) /\ half' = half /\ UNCHANGED <<rx, txreq>>
        /\ (InTxn' <=> InTxn)
    BY <1>10 DEF BridgeSends, BridgeOnly, txnVars, InTxn, Prompt
  <2>2. Piece2(f)[1] \in Mine /\ Piece2(f)[2] \in Mine /\ Piece2(f) = <<Piece2(f)[1], Piece2(f)[2]>>
    BY <1>10, DataFacts DEF Mine, Piece2
  <2>3. Mine' = Mine
    BY <2>1 DEF Mine
  <2>4. InTxn => toHost' \in Seq(Mine)
    BY <2>1, <2>2, SeqOf
  <2> QED BY <2>1, <2>3, <2>4
<1>11. CASE BridgeReplies
  <2> DEFINE f == [kind |-> "reply", of |-> Head(toPeer)]
  <2>1. BridgeSends(f) /\ Head(toPeer) = txreq /\ Head(toPeer) \in Cells
    BY <1>11, SequenceFacts DEF BridgeReplies, Current, Prompt, TypeOK, WireTypeOK
  <2>2. f \in Frames /\ f.of = txreq
    BY <2>1, DataFacts
  <2> HIDE DEF f
  <2> QED BY <1>10, <2>1, <2>2
<1>12. CASE BridgeGarbles
  <2>1. Frame("bad") \in Frames /\ Frame("bad").kind = "bad"
    BY DataFacts DEF Frame, FrameKinds
  <2>2. CASE BridgeSends(Frame("bad"))
    BY <1>10, <2>1, <2>2
  <2>3. CASE /\ toHost' = Append(toHost, [part |-> "flood", frame |-> Frame("bad")])
             /\ UNCHANGED half /\ BridgeOnly
    <3>1. UNCHANGED <<rx, txreq>> /\ (InTxn' <=> InTxn)
      BY <2>3 DEF BridgeOnly, txnVars, InTxn
    <3>2. [part |-> "flood", frame |-> Frame("bad")] \in Mine /\ Mine' = Mine
      BY <2>1, <3>1, DataFacts DEF Mine
    <3> QED BY <2>3, <3>1, <3>2, SeqOf
  <2> QED BY <1>12, <2>2, <2>3 DEF BridgeGarbles
<1>13. CASE UNCHANGED vars
  BY <1>1, <1>13 DEF vars, txnVars, wireVars, InTxn
<1> QED BY <1>2, <1>4, <1>5, <1>6, <1>7, <1>8, <1>9, <1>11, <1>12, <1>13, NoPushStep
        DEF Next, Tick, Send, Bridge, OwnInv

LEMMA NextOwnReply ==
    ASSUME TypeOK, OwnInv, OwnWire, OwnReply, Undisturbed, [Next]_vars
    PROVE  OwnReply'
<1>0. /\ pc \in {"ready", "poking", "waiting", "gaveup"} /\ ackseq \in Seqs
      /\ Turn /\ NoPushes
  BY DEF TypeOK, GuestTypeOK, RamTypeOK, OwnInv
<1>1. CASE Aside
  BY <1>1 DEF Aside, OwnReply
<1>2. CASE Ends
  <2>1. UNCHANGED <<pc, gseq, greq>> /\ txreq = Whole(greq)
    BY <1>0, <1>2 DEF Ends, Turn
  <2>2. CASE err' # "OK"
    BY <2>2 DEF OwnReply
  <2>3. CASE RxReply
    <3>1. rxcell' = rx.frame.of /\ rx.frame.kind = "reply" /\ InTxn
      BY <2>3 DEF RxReply, Rx, PublishReply, InTxn
    <3>2. rx.frame.of = txreq
      BY <3>1 DEF OwnWire
    <3> QED BY <2>1, <3>1, <3>2 DEF OwnReply
  <2> QED BY <1>2, <2>2, <2>3 DEF Ends
<1>3. CASE StartRefused
  BY <1>3 DEF StartRefused, PublishFailure, OwnReply
<1>4. CASE StartSend
  BY <1>4 DEF StartSend, OwnReply, guestVars
<1>5. CASE Guest
  <2>1. UNCHANGED <<ackseq, err, rxcell>>
    BY <1>5 DEF Guest, GuestPokes, GuestPosts, GuestAccepts, GuestGivesUp, GuestRepokes, GuestAbandons,
                GuestOnly
  <2>2. CASE GuestPosts
    <3>1. gseq' = NextSeq(ackseq)
      BY <2>2 DEF GuestPosts
    <3> QED BY <1>0, <2>1, <3>1, NextSeqDiffers DEF OwnReply
  <2>3. CASE GuestPokes \/ GuestAccepts \/ GuestAbandons
    <3>1. pc' \in {"ready", "poking"}
      BY <2>3 DEF GuestPokes, GuestAccepts, GuestAbandons
    <3> QED BY <3>1 DEF OwnReply
  <2>4. CASE GuestGivesUp \/ GuestRepokes
    <3>1. pc \in {"waiting", "gaveup"} /\ UNCHANGED <<gseq, greq>>
      BY <2>4 DEF GuestGivesUp, GuestRepokes, GuestOnly
    <3> QED BY <2>1, <3>1 DEF OwnReply
  <2> QED BY <1>5, <2>2, <2>3, <2>4 DEF Guest
<1> QED BY <1>0, <1>1, <1>2, <1>3, <1>4, <1>5, StepKinds

\* fujinet_start_txn's drain and fujinet_finish_txn: a program that nobody
\* disturbs and that reads FB_OK under its number has the reply to its own
\* request, if the bridge answers nothing late; what earlier transactions left
\* on the wire is thrown away.
THEOREM OwnReplyAccepted == ASSUME Undisturbed, Prompt PROVE Spec => []AcceptOwn
<1>1. TypeOK /\ OwnInv /\ ReplyInv /\ [Next]_vars => ReplyInv'
  <2> SUFFICES ASSUME TypeOK, OwnInv, OwnWire, OwnReply, [Next]_vars PROVE OwnWire' /\ OwnReply'
    BY DEF ReplyInv
  <2>1. OwnWire'
    BY NextOwnWire
  <2>2. OwnReply'
    BY NextOwnReply
  <2> QED BY <2>1, <2>2
<1>2. Spec => []ReplyInv
  BY <1>1, OwnAlways, InitReplyInv, PTL DEF Spec
<1>3. ReplyInv => AcceptOwn
  BY DEF ReplyInv, OwnReply, AcceptOwn, Answered
<1> QED BY <1>2, <1>3, PTL

=============================================================================
