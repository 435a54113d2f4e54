-------------------------------- MODULE Tcp ---------------------------------
(***************************************************************************)
(* One TCP connection of tcp.c against a conforming peer, over a wire that *)
(* keeps order and may lose segments (and, with Reorder, deliver them in   *)
(* any order).  The k-th byte of either stream is the number k.  Every     *)
(* handler runs under g_tcp_lock and is one step; net_tcp_connect and      *)
(* net_tcp_close poll, so their beginning and their end are two steps with *)
(* deliveries in between.  Sequence numbers wrap at Wrap, as the u32 of  *)
(* the code do at 2^32; the kernel's initial one is just below the wrap.   *)
(* The peer is external: an RFC 793 endpoint that acknowledges everything. *)
(***************************************************************************)
EXTENDS Integers, Sequences, SequencesExt

CONSTANTS
  Roles,         \* of "connect" and "listen": how the connection may be opened
  Bytes,         \* bytes the program sends
  PeerBytes,     \* bytes the peer sends
  SndBuf, RxBuf, \* TCP_SNDBUF, TCP_RXBUF
  MaxRetries,    \* TCP_MAX_RETRIES
  Wrap,          \* 2^32
  Wire,          \* bound: segments in flight in each direction
  MaxLoss,       \* bound: segments the network loses
  Reorder        \* whether the network may deliver out of order

VARIABLES
  role,    \* how it is opened
  c,       \* tcp_conn_t: [st, una, nxt, fin, snd, rx, retries]
  call,    \* the call in progress: "none", "connect", "close", "accept" (a
           \* server polls net_tcp_accept); "bind" before net_tcp_listen, and
           \* "closed" when the program has no connection any more
  opened,  \* whether the connection was opened (it is opened once)
  sent,    \* history: bytes net_tcp_send accepted
  read,    \* history: bytes net_tcp_recv returned
  eof,     \* history: net_tcp_recv returned 0 after the connection was open
  peer,    \* [st, got, fin, out, acked, closed]: the external endpoint
  out, in, \* segments to and from the peer
  lost     \* segments lost so far

kernel == <<role, c, call, opened, sent, read, eof>>
vars == <<kernel, peer, out, in, lost>>

Iss == Wrap - 1
Add(a, b) == (a + b) % Wrap
Sub(a, b) == (a - b) % Wrap
Closed == [st |-> "closed", una |-> 0, nxt |-> 0, fin |-> 0, snd |-> <<>>, rx |-> <<>>,
           retries |-> 0]
Seg(f, seq, ack, data) == [f |-> f, seq |-> seq, ack |-> ack, data |-> data]
AckNow(k) == Seg("ACK", Add(k.una, Len(k.snd)), k.nxt, <<>>)

Init ==
  /\ role \in Roles
  /\ c = Closed /\ opened = FALSE
  /\ call = IF role = "listen" THEN "bind" ELSE "none"
  /\ sent = 0 /\ read = <<>> /\ eof = FALSE
  /\ peer = [st |-> "closed", got |-> <<>>, fin |-> FALSE, out |-> 0, acked |-> 0,
             closed |-> FALSE]
  /\ out = <<>> /\ in = <<>> /\ lost = 0

-----------------------------------------------------------------------------
(* Faulty variants of the definitions below: each breaks one of the properties *)

(* Data is taken at whatever sequence number it comes. *)
TakeDataAnywhere(k, s) ==
  IF s.data = <<>> \/ k.st # "established" THEN [k |-> k, o |-> <<>>]
  ELSE IF Len(s.data) <= RxBuf - Len(k.rx)
       THEN LET n == [k EXCEPT !.rx = @ \o s.data, !.nxt = Add(@, Len(s.data))]
            IN  [k |-> n, o |-> <<AckNow(n)>>]
       ELSE [k |-> k, o |-> <<>>]

(* Any acknowledgement empties the transmit buffer. *)
TakeAckAll(k, s) ==
  IF s.f = "SYN" THEN k ELSE [k EXCEPT !.snd = <<>>, !.una = s.ack, !.retries = 0]

(* The connection is freed at the last acknowledgement, with what it holds. *)
TakeAckFrees(k, s) ==
  LET acked == Sub(s.ack, k.una)
      slid == IF acked = 0 THEN k
              ELSE [k EXCEPT !.snd = IF acked <= Len(@) THEN SubSeq(@, acked + 1, Len(@)) ELSE <<>>,
                             !.una = s.ack, !.retries = 0]
  IN  CASE s.f = "SYN" -> k
        [] slid.st = "fin_wait1" /\ acked >= Len(slid.snd) + 1 -> [slid EXCEPT !.st = "fin_wait2"]
        [] slid.st = "last_ack" /\ acked >= 1 -> Closed
        [] OTHER -> slid

-----------------------------------------------------------------------------
(* net_tcp_deliver, in the order of its text *)

(* ACK processing: slide snd_una.  An acknowledgement from before snd_una wraps
   and counts as one of everything ("defensive"). *)
TakeAck(k, s) ==
  LET acked == Sub(s.ack, k.una)
      slid == IF acked = 0 THEN k
              ELSE [k EXCEPT !.snd = IF acked <= Len(@) THEN SubSeq(@, acked + 1, Len(@)) ELSE <<>>,
                             !.una = s.ack, !.retries = 0]
  IN  CASE s.f = "SYN" -> k
        [] slid.st = "fin_wait1" /\ acked >= Len(slid.snd) + 1 -> [slid EXCEPT !.st = "fin_wait2"]
        [] slid.st = "last_ack" /\ acked >= 1 ->
             IF slid.rx # <<>> THEN [slid EXCEPT !.st = "closing"] ELSE Closed
        [] OTHER -> slid

(* Inbound data: in order and fitting, or acknowledged again, or dropped. *)
TakeData(k, s) ==
  IF s.data = <<>> \/ k.st # "established" THEN [k |-> k, o |-> <<>>]
  ELSE IF s.seq # k.nxt THEN [k |-> k, o |-> <<AckNow(k)>>]
  ELSE IF Len(s.data) <= RxBuf - Len(k.rx)
       THEN LET n == [k EXCEPT !.rx = @ \o s.data, !.nxt = Add(@, Len(s.data))]
            IN  [k |-> n, o |-> <<AckNow(n)>>]
       ELSE [k |-> k, o |-> <<>>]

(* The peer's FIN moves the state on even where data before it is missing. *)
TakeFin(k, s) ==
  LET n == IF k.nxt \in {s.seq, Add(s.seq, Len(s.data))} THEN [k EXCEPT !.nxt = Add(@, 1)] ELSE k
      f == Add(n.una, Len(n.snd))
  IN  CASE s.f # "FIN" \/ k.st \notin {"established", "fin_wait1", "fin_wait2"} ->
             [k |-> k, o |-> <<>>]
        [] k.st = "established" ->
             [k |-> [n EXCEPT !.st = "last_ack", !.fin = f, !.retries = 0],
              o |-> <<AckNow(n), Seg("FIN", f, n.nxt, <<>>)>>]
        [] k.st = "fin_wait1" -> [k |-> n, o |-> <<AckNow(n)>>]
        [] OTHER -> [k |-> IF n.rx # <<>> THEN [n EXCEPT !.st = "closing"] ELSE Closed,
                     o |-> <<AckNow(n)>>]

(* A listener makes an established child at the SYN, and answers SYN|ACK. *)
Child(s) == [Closed EXCEPT !.st = "established", !.nxt = Add(s.seq, 1), !.una = Add(Iss, 1)]

Listens(s) == call = "accept" /\ s.f = "SYN" /\ ~opened

Handle(k, s) ==
  CASE k.st = "closed" /\ Listens(s) ->
         [k |-> Child(s), o |-> <<Seg("SYNACK", Iss, Add(s.seq, 1), <<>>)>>]
    [] k.st = "closed" /\ ~Listens(s) ->
         [k |-> k, o |-> IF s.f = "RST" THEN <<>>
                         ELSE <<Seg("RST", s.ack, Add(s.seq, Len(s.data)), <<>>)>>]
    [] k.st # "closed" /\ s.f = "RST" -> [k |-> Closed, o |-> <<>>]
    [] k.st = "syn_sent" /\ s.f # "RST" ->
         IF s.f = "SYNACK" /\ s.ack = Add(k.una, 1)
         THEN LET n == [k EXCEPT !.st = "established", !.nxt = Add(s.seq, 1), !.una = Add(Iss, 1),
                                 !.retries = 0]
              IN  [k |-> n, o |-> <<AckNow(n)>>]
         ELSE [k |-> k, o |-> <<>>]
    [] OTHER -> LET a == TakeAck(k, s)
                    d == TakeData(a, s)
                    e == TakeFin(d.k, s)
                IN  [k |-> e.k, o |-> d.o \o e.o]

Room == Len(out) + 3 <= Wire
Picks(q) == IF Reorder THEN DOMAIN q ELSE {1} \cap DOMAIN q
Emit(segs) == out' = out \o segs

Deliver(i) ==
  LET h == Handle(c, in[i]) IN
  /\ i \in Picks(in) /\ Room
  /\ in' = RemoveAt(in, i)
  /\ c' = h.k /\ Emit(h.o)
  /\ opened' = (opened \/ h.k.st = "established")
  /\ UNCHANGED <<role, call, sent, read, eof, peer, lost>>

-----------------------------------------------------------------------------
(* tcp_poll_conn after TCP_RETRANS_TICKS: everything unacknowledged goes again,
   or the connection is given up with an RST. *)
Retransmit(k) ==
  IF k.retries + 1 > MaxRetries
  THEN [k |-> Closed, o |-> <<Seg("RST", Add(k.una, Len(k.snd)), k.nxt, <<>>)>>]
  ELSE [k |-> [k EXCEPT !.retries = @ + 1],
        o |-> CASE k.st = "syn_sent" -> <<Seg("SYN", Iss, 0, <<>>)>>
                [] k.st # "syn_sent" /\ k.snd # <<>> -> <<Seg("PSH", k.una, k.nxt, k.snd)>>
                [] OTHER -> <<Seg("FIN", k.fin, k.nxt, <<>>)>>]

Poll ==
  /\ c.st # "closed" /\ Room
  /\ c.st \in {"syn_sent", "fin_wait1", "last_ack"} \/ c.snd # <<>>
  /\ c' = Retransmit(c).k /\ Emit(Retransmit(c).o)
  /\ UNCHANGED <<role, call, opened, sent, read, eof, peer, in, lost>>

-----------------------------------------------------------------------------
(* The calls of programs *)

Connect ==
  /\ role = "connect" /\ ~opened /\ call = "none" /\ c = Closed /\ Room
  /\ c' = [Closed EXCEPT !.st = "syn_sent", !.una = Iss]
  /\ Emit(<<Seg("SYN", Iss, 0, <<>>)>>)
  /\ call' = "connect" /\ opened' = TRUE
  /\ UNCHANGED <<role, sent, read, eof, peer, in, lost>>

(* The end of net_tcp_connect: established, gone, or timed out and freed. *)
ConnectReturns ==
  /\ call = "connect"
  /\ c' = IF c.st = "established" THEN c ELSE Closed
  /\ call' = IF c.st = "established" THEN "none" ELSE "closed"
  /\ UNCHANGED <<role, opened, sent, read, eof, peer, out, in, lost>>

Listen ==
  /\ call = "bind" /\ call' = "accept"
  /\ UNCHANGED <<role, c, opened, sent, read, eof, peer, out, in, lost>>

(* net_tcp_accept: only an established child is found, not one whose peer has
   closed already. *)
Accept ==
  /\ call = "accept" /\ c.st = "established"
  /\ call' = "none"
  /\ UNCHANGED <<role, c, opened, sent, read, eof, peer, out, in, lost>>

Send ==
  /\ c.st = "established" /\ call = "none" /\ sent < Bytes /\ Room
  /\ Len(c.snd) + 1 <= SndBuf
  /\ c' = [c EXCEPT !.snd = Append(@, sent + 1), !.retries = 0]
  /\ Emit(<<Seg("PSH", c.una, c.nxt, Append(c.snd, sent + 1))>>)
  /\ sent' = sent + 1
  /\ UNCHANGED <<role, call, opened, read, eof, peer, in, lost>>

Recv ==
  /\ opened /\ call = "none" /\ Room
  /\ c.st # "syn_sent" /\ ~(c.st = "established" /\ c.rx = <<>>)
  /\ read' = read \o c.rx
  /\ eof' = (eof \/ c.rx = <<>>)
  /\ Emit(IF c.st = "established" THEN <<AckNow(c)>> ELSE <<>>)
  /\ c' = IF c.st \in {"closing", "last_ack"} THEN Closed ELSE [c EXCEPT !.rx = <<>>]
  /\ UNCHANGED <<role, call, opened, sent, peer, in, lost>>

Close ==
  /\ c.st # "closed" /\ call = "none" /\ Room
  /\ IF c.st \in {"established", "fin_wait1"}
     THEN LET f == Add(c.una, Len(c.snd)) IN
          /\ c' = [c EXCEPT !.st = "fin_wait1", !.fin = f, !.retries = 0]
          /\ Emit(<<Seg("FIN", f, c.nxt, <<>>)>>)
          /\ call' = "close"
     ELSE c' = Closed /\ call' = "closed" /\ UNCHANGED out
  /\ UNCHANGED <<role, opened, sent, read, eof, peer, in, lost>>

(* The end of net_tcp_close: whatever is left is freed. *)
CloseReturns ==
  /\ call = "close"
  /\ c' = Closed /\ call' = "closed"
  /\ UNCHANGED <<role, opened, sent, read, eof, peer, out, in, lost>>

-----------------------------------------------------------------------------
(* The peer and the network (external) *)

PeerAck(p) == Add(Iss, 1 + Len(p.got) + IF p.fin THEN 1 ELSE 0)
PeerSeg(p, f, k, data) == Seg(f, k, PeerAck(p), data)
PeerRoom == Len(in) + 1 <= Wire

PeerTakes(p, s) ==
  LET from == Sub(s.seq, Add(Iss, 1))
      fresh == SubSeq(s.data, Len(p.got) - from + 1, Len(s.data))
      got == IF s.data # <<>> /\ from <= Len(p.got) THEN p.got \o fresh ELSE p.got
      up == s.ack - 1
      acked == IF up \in p.acked..(p.out + IF p.closed THEN 1 ELSE 0) THEN up ELSE p.acked
  IN  [p EXCEPT !.got = got, !.acked = acked,
                !.fin = @ \/ (s.f = "FIN" /\ from = Len(got))]

PeerDeliver(i) ==
  LET s == out[i]
      t == PeerTakes(peer, s)
      n == [t EXCEPT !.st = IF s.f = "SYN" THEN "rcvd" ELSE "established"]
  IN
  /\ i \in Picks(out) /\ PeerRoom
  /\ out' = RemoveAt(out, i)
  /\ CASE s.f = "RST" -> peer' = [peer EXCEPT !.st = "reset"] /\ UNCHANGED in
       [] s.f = "SYN" /\ peer.st \in {"closed", "rcvd"} ->
            /\ peer' = [peer EXCEPT !.st = "rcvd"]
            /\ in' = Append(in, Seg("SYNACK", 0, Add(Iss, 1), <<>>))
       [] s.f \in {"ACK", "PSH", "FIN", "SYNACK"} /\ peer.st \notin {"closed", "reset"} ->
            /\ peer' = IF s.f = "SYNACK" THEN [peer EXCEPT !.st = "established"] ELSE n
            /\ in' = IF s.f = "ACK" THEN in ELSE Append(in, PeerSeg(n, "ACK", n.out + 1, <<>>))
       [] OTHER -> UNCHANGED <<peer, in>>
  /\ UNCHANGED <<kernel, lost>>

PeerSyn ==
  /\ role = "listen" /\ peer.st \in {"closed", "syn_sent"} /\ PeerRoom
  /\ peer' = [peer EXCEPT !.st = "syn_sent"]
  /\ in' = Append(in, Seg("SYN", 0, 0, <<>>))
  /\ UNCHANGED <<kernel, out, lost>>

PeerWrite ==
  /\ peer.st = "established" /\ ~peer.closed /\ peer.out < PeerBytes /\ PeerRoom
  /\ peer' = [peer EXCEPT !.out = @ + 1]
  /\ in' = Append(in, PeerSeg(peer, "PSH", peer.out + 1, <<peer.out + 1>>))
  /\ UNCHANGED <<kernel, out, lost>>

PeerClose ==
  /\ peer.st = "established" /\ ~peer.closed /\ PeerRoom
  /\ peer' = [peer EXCEPT !.closed = TRUE]
  /\ in' = Append(in, PeerSeg(peer, "FIN", peer.out + 1, <<>>))
  /\ UNCHANGED <<kernel, out, lost>>

(* Its retransmission: the oldest unacknowledged byte, or the FIN. *)
PeerResend ==
  /\ peer.st = "established" /\ in = <<>>
  /\ peer.acked < peer.out + IF peer.closed THEN 1 ELSE 0
  /\ in' = IF peer.acked < peer.out
           THEN <<PeerSeg(peer, "PSH", peer.acked + 1, <<peer.acked + 1>>)>>
           ELSE <<PeerSeg(peer, "FIN", peer.out + 1, <<>>)>>
  /\ UNCHANGED <<kernel, peer, out, lost>>

Lose ==
  /\ lost < MaxLoss /\ lost' = lost + 1
  /\ \/ out # <<>> /\ out' = Tail(out) /\ UNCHANGED in
     \/ in # <<>> /\ in' = Tail(in) /\ UNCHANGED out
  /\ UNCHANGED <<kernel, peer>>

Next ==
  \/ \E i \in 1..Wire : Deliver(i) \/ PeerDeliver(i)
  \/ Poll \/ Connect \/ ConnectReturns \/ Listen \/ Accept \/ Send \/ Recv \/ Close \/ CloseReturns
  \/ PeerSyn \/ PeerWrite \/ PeerClose \/ PeerResend \/ Lose

Spec == Init /\ [][Next]_vars

-----------------------------------------------------------------------------
(* Properties *)

UpTo(n) == [k \in 1..n |-> k]

(* Each program reads a prefix of what the other wrote, whatever is lost,
   retransmitted or acknowledged twice, and across the wrap of the sequence
   numbers. *)
StreamIntact ==
  /\ IsPrefix(peer.got, UpTo(sent))
  /\ IsPrefix(read \o c.rx, UpTo(peer.out))

(* While the connection is established, a byte that left the transmit buffer
   has reached the peer: snd_una never passes what was received. *)
SentKept == c.st = "established" => sent - Len(c.snd) <= Len(peer.got)

GaveUp == peer.st = "reset" \/ \E i \in DOMAIN out : out[i].f = "RST"

(* Where nothing is lost, a program that reads to the end of file has read all
   the peer wrote, though the peer's FIN, the acknowledgement of ours and the
   reads come in any order: the TCP_CLOSING state keeps what is buffered. *)
EofLossless ==
  lost = 0 /\ eof /\ ~GaveUp /\ peer.closed => read = UpTo(peer.out)

(* "out-of-order segments are dropped and the peer retransmits": though segments
   are lost, a program reads the end of file after all the peer wrote. *)
EofAfterData ==
  eof /\ ~GaveUp /\ peer.closed => read = UpTo(peer.out)
=============================================================================
