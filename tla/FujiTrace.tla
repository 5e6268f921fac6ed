------------------------------ MODULE FujiTrace ------------------------------
(***************************************************************************)
(* core/debugger/fujitrace.c: the packets of the FujiNet link, both ways,  *)
(* kept in a ring for the debugger's FujiNet tab.  fn_sock.c's tap feeds   *)
(* it on the emulator thread, inside each send and recv and under          *)
(* trace_lock (debugger.c); a debugger window copies or clears it under    *)
(* the same lock, so each of these calls is one step.                      *)
(*                                                                         *)
(* Exchanges that repeat (CONFIG's polls) are folded into counts.  The     *)
(* fold is a guess: a request that starts the last exchange over again is  *)
(* counted at once and taken back if its reply turns out to be another.    *)
(* A window redraws only when the number of entries or the serial of the   *)
(* last one has changed, so every change must change one of these.         *)
(*                                                                         *)
(* Packets are model values: two packets with the same first bytes, length *)
(* and hash are the same packet.  The decoder of SLIP bytes is FujiBus.    *)
(***************************************************************************)
EXTENDS Naturals, Sequences

CONSTANTS Requests,     \* packets the Intellivision sends
          Replies,      \* packets it receives
          Scrap,        \* what the end of a cut reply decodes to
          TraceMax,     \* FUJITRACE_MAX: entries in the ring
          TraceSerials  \* bound: the serials that are given out

Packets == Requests \cup Replies \cup {Scrap}
NoHalf == "none"
NoPacket == "none yet"

ASSUME TraceAssumption ==
    /\ TraceMax \in Nat /\ TraceMax >= 2
    /\ TraceSerials \in Nat
    /\ Requests \cap (Replies \cup {Scrap}) = {}
    /\ Scrap \notin Replies
    /\ NoHalf \notin Packets
    /\ NoPacket \notin Packets

VARIABLES trace,        \* [ring, pending, serial, gone]; gone counts, per
                        \*   packet, what left the ring: no state of the code
          half,         \* the reply whose first bytes have come, or NoHalf
          fed,          \* how often each packet was fed since the last clear
          newest,       \* the packet fed last since then
          shown,        \* the entries a window drew last
          shownKey      \* the count and the last serial it drew them at

traceVars == <<trace, half, fed, newest, shown, shownKey>>

ToHost(p) == p \notin Requests
Zero == [p \in Packets |-> 0]

\* What a window shows of the ring, and what it compares before it redraws.
Entries(r) == [i \in DOMAIN r |-> [packet |-> r[i].packet, repeat |-> r[i].repeat]]
Key(r) == <<Len(r), IF r = <<>> THEN 0 ELSE r[Len(r)].serial>>

-----------------------------------------------------------------------------

\* Entries from k on get new serials, oldest first.
Touch(t, k) ==
    LET n == Len(t.ring) IN
    [t EXCEPT !.serial = @ + (n + 1 - k),
              !.ring = [i \in DOMAIN t.ring |->
                  IF i < k THEN t.ring[i]
                  ELSE [t.ring[i] EXCEPT !.serial = t.serial + (i + 1 - k)]]]

\* Mutant: a count changes without a new serial.
MoreUnseen(t, k) == [t EXCEPT !.ring[k].repeat = @ + 1]

\* One more of entry k, and one less.
More(t, k) == Touch([t EXCEPT !.ring[k].repeat = @ + 1], k)
Less(t, k) == Touch([t EXCEPT !.ring[k].repeat = @ - 1], k)

\* A full ring loses its oldest entry.
Evict(t) ==
    IF Len(t.ring) < TraceMax THEN t
    ELSE [t EXCEPT !.ring = Tail(@),
                   !.gone[t.ring[1].packet] = @ + t.ring[1].repeat]

Push(t, p) ==
    LET e == Evict(t) IN
    Touch([e EXCEPT !.ring = Append(@, [packet |-> p, repeat |-> 1, serial |-> 0])],
          Len(e.ring) + 1)

\* p counts again as the last entry, or as the start of the last exchange
\* over again (its reply will decide), or it is a new entry.
Place(t, p) ==
    LET n == Len(t.ring) IN
    CASE n >= 1 /\ t.ring[n].packet = p -> More(t, n)
      [] /\ n >= 2
         /\ t.ring[n].packet # p
         /\ t.ring[n - 1].packet = p
         /\ ToHost(t.ring[n - 1].packet) # ToHost(t.ring[n].packet)
         /\ t.ring[n - 1].repeat = t.ring[n].repeat
            -> [More(t, n - 1) EXCEPT !.pending = TRUE]
      [] OTHER -> Push(t, p)

\* Mutant: the request of the exchange that did not repeat is forgotten.
TakeBackDropped(t) == Less(t, Len(t.ring) - 1)

\* The exchange did not repeat: its request was a new one after all.
TakeBack(t) ==
    LET n == Len(t.ring) IN Push(Less(t, n - 1), t.ring[n - 1].packet)

Emit(t, p) ==
    LET n == Len(t.ring)
        s == [t EXCEPT !.pending = FALSE]
    IN  CASE t.pending /\ t.ring[n].packet = p -> More(s, n)
          [] t.pending /\ t.ring[n].packet # p -> Place(TakeBack(s), p)
          [] ~t.pending -> Place(s, p)

-----------------------------------------------------------------------------

TraceInit == /\ trace = [ring |-> <<>>, pending |-> FALSE, serial |-> 0, gone |-> Zero]
             /\ half = NoHalf
             /\ fed = Zero
             /\ newest = NoPacket
             /\ shown = <<>>
             /\ shownKey = <<0, 0>>

Fed(p) == /\ trace.serial < TraceSerials
          /\ trace' = Emit(trace, p)
          /\ fed' = [fed EXCEPT ![p] = @ + 1]
          /\ newest' = p
          /\ UNCHANGED <<shown, shownKey>>

\* A request goes out whole; half a reply is forgotten, as the peripheral
\* dropped it too.
FeedRequest == \E p \in Requests : Fed(p) /\ half' = NoHalf

\* The first bytes of a reply, and the rest of it; with the first bytes
\* forgotten, the rest makes a packet of its own.
FeedReplyHead == /\ half = NoHalf
                 /\ half' \in Replies
                 /\ UNCHANGED <<trace, fed, newest, shown, shownKey>>

FeedReplyRest == \/ half # NoHalf /\ Fed(half) /\ half' = NoHalf
                 \/ half = NoHalf /\ Fed(Scrap) /\ UNCHANGED half

\* fujitrace_clear: the packets go, half a frame stays.
ClearTrace == [trace EXCEPT !.ring = <<>>, !.pending = FALSE, !.gone = Zero]

\* A window's refresh, one shape in all four debuggers: copy the ring, and
\* draw it if what was compared differs.
ShowTrace ==
    /\ IF shownKey = Key(trace.ring)
         THEN UNCHANGED <<shown, shownKey>>
         ELSE /\ shown' = Entries(trace.ring)
              /\ shownKey' = Key(trace.ring)
    /\ UNCHANGED <<trace, half, fed, newest>>

\* The Clear button draws at once.
Clear == /\ trace' = ClearTrace
         /\ fed' = Zero
         /\ newest' = NoPacket
         /\ shown' = <<>>
         /\ shownKey' = <<0, 0>>
         /\ UNCHANGED half

TraceNext == FeedRequest \/ FeedReplyHead \/ FeedReplyRest \/ ShowTrace \/ Clear

TraceSpec == TraceInit /\ [][TraceNext]_traceVars

-----------------------------------------------------------------------------

TraceEntry == [packet : Packets, repeat : Nat, serial : Nat]

\* Every variable has its type.
TraceTypeOK == /\ trace \in [ring : Seq(TraceEntry), pending : BOOLEAN, serial : Nat,
                             gone : [Packets -> Nat]]
               /\ half \in Replies \cup {NoHalf}
               /\ fed \in [Packets -> Nat]
               /\ newest \in Packets \cup {NoPacket}
               /\ shown \in Seq([packet : Packets, repeat : Nat])
               /\ shownKey \in Nat \X Nat

\* Each packet that was fed is counted exactly once, in the ring or in what
\* the ring lost: taking a guess back neither drops the request nor counts
\* it twice, even when it pushes the guess's own entry out (emit, push).
CountIn(r, p) ==
    LET sum[i \in 0 .. Len(r)] ==
            IF i = 0 THEN 0
            ELSE sum[i - 1] + (IF r[i].packet = p THEN r[i].repeat ELSE 0)
    IN  sum[Len(r)]
NothingMiscounted ==
    \A p \in Packets : CountIn(trace.ring, p) + trace.gone[p] = fed[p]

\* The packet fed last is the last entry, or the one before it while its
\* reply is awaited, and no entry has a count of zero: what the window
\* lists never includes an exchange that did not happen (emit, bump).
NewestListed ==
    LET r == trace.ring
        n == Len(r)
    IN  /\ newest # NoPacket => r[IF trace.pending THEN n - 1 ELSE n].packet = newest
        /\ newest = NoPacket <=> r = <<>>
        /\ trace.pending => n >= 2 /\ r[n - 1].repeat = r[n].repeat + 1
        /\ \A i \in DOMAIN r : r[i].repeat >= 1

\* A window that sees the count and the last serial unchanged already shows
\* every entry as it is: no fold, take-back, eviction or clear goes unseen
\* (touch, and the comparison in the windows' refresh).
ChangeIsSeen == shownKey = Key(trace.ring) => shown = Entries(trace.ring)

=============================================================================
