----------------------------- MODULE MailboxTxn -----------------------------
(***************************************************************************)
(* What the FujiNet mailbox promises the Intellivision program that uses   *)
(* it, said without sockets, timers or frames: a request is taken up by    *)
(* its sequence number, at most one is in flight, and the only thing that  *)
(* ever moves the acknowledged number is the end of that transaction,      *)
(* which publishes its outcome in the same step.  A transaction that was   *)
(* taken up always ends.  FujiMailbox implements this specification.       *)
(***************************************************************************)
EXTENDS Naturals

CONSTANTS Seqs,       \* the values of the SEQ and ACKSEQ cells
          Outcomes,   \* the values of the ERR cell
          Good,       \* the outcome of a transaction that got its reply
          NoSeq       \* "nothing in flight"

VARIABLES ack,        \* the sequence number last acknowledged
          flight,     \* the sequence number in flight, or NoSeq
          outcome     \* the published outcome

vars == <<ack, flight, outcome>>

TypeOK == /\ ack \in Seqs
          /\ flight \in Seqs \cup {NoSeq}
          /\ outcome \in Outcomes

Init == /\ ack = 0
        /\ flight = NoSeq
        /\ outcome = Good

\* A request with a number other than the acknowledged one is taken up.
Begin(s) == /\ flight = NoSeq
            /\ s # ack
            /\ flight' = s
            /\ UNCHANGED <<ack, outcome>>

\* A request is turned down at once, without ever being in flight.
Refuse(s, o) == /\ flight = NoSeq
                /\ s # ack
                /\ o # Good
                /\ ack' = s
                /\ outcome' = o
                /\ UNCHANGED flight

\* The transaction in flight ends: its number and its outcome appear together.
Finish(o) == /\ flight # NoSeq
             /\ ack' = flight
             /\ flight' = NoSeq
             /\ outcome' = o

\* A console reset wipes the outcome and nothing else.
Reset == /\ outcome' = Good
         /\ UNCHANGED <<ack, flight>>

Next == \/ \E s \in Seqs : Begin(s)
        \/ \E s \in Seqs, o \in Outcomes : Refuse(s, o)
        \/ \E o \in Outcomes : Finish(o)
        \/ Reset

SafeSpec == Init /\ [][Next]_vars

Spec == SafeSpec /\ WF_vars(\E o \in Outcomes : Finish(o))
=============================================================================
