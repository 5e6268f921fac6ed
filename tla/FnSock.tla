------------------------------- MODULE FnSock -------------------------------
(***************************************************************************)
(* fn_sock.c: the one non-blocking TCP socket of the mailbox peripheral.   *)
(* The descriptor is closed, has a connect() in progress to one of the     *)
(* addresses getaddrinfo() returned, or is open.  The other end of an open *)
(* connection is `net': "est" while the bridge holds it, "fin" once the    *)
(* bridge (or the network) has dropped it and the host has not yet         *)
(* noticed, "none" when the host holds no connection.                      *)
(***************************************************************************)
EXTENDS Naturals, Sequences

CONSTANTS NAddr,      \* how many addresses the host name resolves to
          Listening,  \* the addresses at which the bridge listens
          Silent      \* the addresses that neither accept nor refuse

ASSUME AddrAssumption == /\ NAddr \in Nat \ {0}
                         /\ Listening \subseteq 1..NAddr
                         /\ Silent \subseteq 1..NAddr
                         /\ Listening \cap Silent = {}

VARIABLES fd,         \* sock->fd
          cand,       \* the address being tried; sock->ai_next is cand + 1
          up,         \* the bridge process is there and accepts connections
          net         \* the other end of the connection

sockVars == <<fd, cand, up, net>>

SockTypeOK == /\ fd \in {"closed", "pending", "open"}
              /\ cand \in 0..NAddr
              /\ up \in BOOLEAN
              /\ net \in {"none", "est", "fin"}

SockInit == /\ fd = "closed"
            /\ cand = 0
            /\ up \in BOOLEAN
            /\ net = "none"

\* A connect() to this address is accepted, is refused, or does neither.
Accepts(c) == up /\ c \in Listening
Refuses(c) == c \notin Silent /\ ~Accepts(c)

\* fn_sock_try_next() from address c on: an address whose connect() fails at
\* once is passed over, and the first one left in progress is taken.
TryNext(c) == \E a \in c..NAddr : /\ \A b \in c..(a - 1) : Refuses(b)
                                  /\ fd' = "pending"
                                  /\ cand' = a

\* ... and when every address left has refused.
NoneLeft(c) == \A b \in c..NAddr : Refuses(b)

\* fn_sock_close()
Close == /\ fd' = "closed"
         /\ cand' = 0
         /\ net' = "none"

\* fn_sock_connect_poll() returning 1 ...
PollConnected == /\ fd = "pending"
                 /\ Accepts(cand)
                 /\ fd' = "open"
                 /\ cand' = 0
                 /\ net' = "est"

\* ... returning 0 after falling back to the next address ...
PollFallback == /\ fd = "pending"
                /\ Refuses(cand)
                /\ TryNext(cand + 1)

\* ... and the condition under which it returns -1.
PollFailed == /\ fd = "pending"
              /\ Refuses(cand)
              /\ NoneLeft(cand + 1)

\* fn_sock_connected(): true as well while a connect() is in progress.
Connected == fd # "closed"
=============================================================================
