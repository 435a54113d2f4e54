----------------------------------- MODULE Tls -----------------------------------
(*****************************************************************************)
(* TLS 1.2 (net/tls.c): the client's and the server's handshake, the record  *)
(* layer with its sequence numbers, and the application data calls, a client *)
(* "c" and a server "s" of this code talking over one TCP connection.        *)
(*                                                                           *)
(* The stream is reliable and in order (that is TCP's part), a record        *)
(* arrives whole, and every wait may run into its deadline.  A message is    *)
(* its name; the running SHA-256 is the sequence of the names hashed so far, *)
(* a Finished carries the transcript it was computed from, and a MAC is the  *)
(* sequence number it covers (the keys of both sides come from one master    *)
(* secret).                                                                  *)
(*****************************************************************************)
EXTENDS Integers, Sequences, SequencesExt

CONSTANTS MaxRecord,  \* units of application data one record may carry (16000)
          AppBuf,     \* units the receive buffer holds (TLS_APPBUF)
          Units       \* bound: units each side sends

VARIABLES e,     \* tls_conn_t of each side, and where its call stands (pc)
          wire,  \* wire[x]: records on their way to x
          sent,  \* units of application data x has handed to tls_send
          got    \* units tls_recv has returned to x's caller

vars == <<e, wire, sent, got>>

Side == {"c", "s"}
Peer(x) == IF x = "c" THEN "s" ELSE "c"

Record(t, body, enc, seq) == [t |-> t, body |-> body, enc |-> enc, seq |-> seq]
Plain(t, body) == Record(t, body, FALSE, 0)
Msg(m) == Plain("handshake", <<m>>)

--------------------------------------------------------------------------------
(* Faulty variants of the definitions below. *)

\* the change of cipher that leaves the receive sequence where the CCS record
\* itself had put it
TakeCcsKeepsSeq(s) == [s EXCEPT !.encR = TRUE]

\* tls_recv that drops what the caller's buffer had no room for
LeftoverDropped(rx, n) == <<>>

--------------------------------------------------------------------------------
(* tls_read_record: with the receive cipher on, everything but a CCS must     *)
(* carry the MAC of the next sequence number.                                 *)
Opens(s, r) == s.encR /\ r.t # "ccs" => r.enc /\ r.seq = s.sseq

(* tls_send_encrypted: a list of payloads becomes records of type t. *)
Encrypted(s, t, body) == Record(t, body, TRUE, s.cseq)

(* A ChangeCipherSpec of the peer: from here on its records are encrypted and *)
(* its sequence starts again.                                                 *)
TakeCcs(s) == [s EXCEPT !.encR = TRUE, !.sseq = 0]

(* The message tls_read_handshake is waiting for at each point of the two     *)
(* handshakes, and whether it is hashed.                                      *)
Want == [sh |-> "SH", cert |-> "CERT", shd |-> "SHD", fin |-> "FIN",
         ch |-> "CH", cke |-> "CKE", early |-> "FIN", late |-> "FIN"]
Feeds(pc) == pc \notin {"fin", "late"}

(* "fail:" -- the connection is closed and the slot cleared. *)
Failed(s) == [s EXCEPT !.pc = "failed"]

(* tls_connect: after ServerHelloDone the key exchange, the client's change   *)
(* of cipher and its Finished over everything hashed up to there.             *)
ClientFinishes(s) ==
    LET hs == Append(s.hs, "CKE") IN
    [st  |-> [s EXCEPT !.pc = "fin", !.hs = hs, !.hpre = hs, !.encS = TRUE, !.cseq = 1],
     out |-> <<Msg("CKE"), Plain("ccs", <<>>), Record("handshake", <<"FIN", hs>>, TRUE, 0)>>]

(* tls_server_handshake: ServerHello, Certificate, ServerHelloDone. *)
ServerHellos(s) ==
    [st  |-> [s EXCEPT !.pc = "cke", !.hs = @ \o <<"SH", "CERT", "SHD">>],
     out |-> <<Msg("SH"), Msg("CERT"), Msg("SHD")>>]

(* The server's change of cipher and Finished, over the client's Finished too *)
(* when that was already read.                                                *)
ServerFinishes(s, pc, hash) ==
    [st  |-> [s EXCEPT !.pc = pc, !.encS = TRUE, !.cseq = 1],
     out |-> <<Plain("ccs", <<>>), Record("handshake", <<"FIN", hash>>, TRUE, 0)>>]

(* The client's Finished must be over the transcript that ends with the key   *)
(* exchange.                                                                  *)
ServerAccepts(s, fin) == fin = s.hpre

(* What follows the message that was waited for.  The client compares the     *)
(* server's Finished with its own transcript and goes on either way.          *)
Then(s, body) ==
    CASE s.pc = "sh"    -> [st |-> [s EXCEPT !.pc = "cert"], out |-> <<>>]
      [] s.pc = "cert"  -> [st |-> [s EXCEPT !.pc = "shd"], out |-> <<>>]
      [] s.pc = "shd"   -> ClientFinishes(s)
      [] s.pc = "fin"   -> [st |-> [s EXCEPT !.pc = "done", !.fin = body[2]], out |-> <<>>]
      [] s.pc = "ch"    -> ServerHellos(s)
      [] s.pc = "cke"   -> [st |-> [s EXCEPT !.pc = "early", !.hpre = s.hs], out |-> <<>>]
      [] s.pc = "early" -> ServerFinishes(s, IF ServerAccepts(s, body[2])
                                             THEN "done" ELSE "failed", s.hs)
      [] s.pc = "late"  -> [st |-> [s EXCEPT !.pc = IF ServerAccepts(s, body[2])
                                                    THEN "done" ELSE "failed"],
                            out |-> <<>>]

(* The 300 ms attempt to read the client's Finished early found none, or      *)
(* failed: the server's own Finished goes out first.                          *)
NotEarly(s) == ServerFinishes(s, "late", s.hpre)

(* tls_read_handshake, one record: alerts fail, a CCS switches the cipher,    *)
(* application data is kept, other messages are hashed and skipped.           *)
HandshakeRecord(s, r) ==
    LET on   == [s EXCEPT !.sseq = @ + 1]
        stay == [st |-> on, out |-> <<>>]
        fed  == IF Feeds(s.pc) THEN [on EXCEPT !.hs = Append(@, r.body[1])] ELSE on
        bad  == IF s.pc = "early" THEN NotEarly(s)
                ELSE [st |-> Failed(s), out |-> <<>>]
    IN CASE ~Opens(s, r) \/ r.t = "alert" -> bad
         [] r.t = "ccs"  -> [stay EXCEPT !.st = TakeCcs(on)]
         [] r.t = "data" -> [stay EXCEPT !.st.rx =
                               IF Len(@) + Len(r.body) <= AppBuf THEN @ \o r.body ELSE @]
         [] r.t = "handshake" -> IF r.body[1] = Want[s.pc] THEN Then(fed, r.body)
                                 ELSE [stay EXCEPT !.st = fed]

Shaking(x) == e[x].pc \in DOMAIN Want

--------------------------------------------------------------------------------
Init == /\ e = [x \in Side |-> [pc |-> IF x = "c" THEN "start" ELSE "ch",
                                cseq |-> 0, sseq |-> 0, encS |-> FALSE, encR |-> FALSE,
                                hs |-> <<>>, hpre |-> <<>>, fin |-> <<>>, rx |-> <<>>,
                                closed |-> FALSE]]
        /\ wire = [x \in Side |-> <<>>]
        /\ sent = [x \in Side |-> 0]
        /\ got = [x \in Side |-> <<>>]

(* tls_connect: the connection is up, the ClientHello goes out. *)
ClientHello ==
    /\ e["c"].pc = "start"
    /\ e' = [e EXCEPT !["c"].pc = "sh", !["c"].hs = <<"CH">>]
    /\ wire' = [wire EXCEPT !["s"] = Append(@, Msg("CH"))]
    /\ UNCHANGED <<sent, got>>

Handshake(x) ==
    /\ Shaking(x) /\ wire[x] # <<>>
    /\ LET n == HandshakeRecord(e[x], Head(wire[x])) IN
       /\ e' = [e EXCEPT ![x] = n.st]
       /\ wire' = [wire EXCEPT ![x] = Tail(@), ![Peer(x)] = @ \o n.out]
    /\ UNCHANGED <<sent, got>>

(* The deadline of a handshake read passes. *)
Deadline(x) ==
    /\ Shaking(x) /\ wire[x] = <<>>
    /\ IF e[x].pc = "early"
       THEN /\ e' = [e EXCEPT ![x] = NotEarly(e[x]).st]
            /\ wire' = [wire EXCEPT ![Peer(x)] = @ \o NotEarly(e[x]).out]
       ELSE e' = [e EXCEPT ![x] = Failed(e[x])] /\ UNCHANGED wire
    /\ UNCHANGED <<sent, got>>

(* tls_send: one encrypted record per chunk. *)
Send(x, n) ==
    /\ e[x].pc = "done" /\ e[x].encS /\ sent[x] + n <= Units
    /\ wire' = [wire EXCEPT ![Peer(x)] =
                    Append(@, Encrypted(e[x], "data", [i \in 1 .. n |-> sent[x] + i]))]
    /\ e' = [e EXCEPT ![x].cseq = @ + 1]
    /\ sent' = [sent EXCEPT ![x] = @ + n]
    /\ UNCHANGED got

(* What stays in the buffer after the caller took n units. *)
Leftover(rx, n) == SubSeq(rx, n + 1, Len(rx))

(* tls_recv with data at hand: as much as the caller has room for. *)
Recv(x, cap) ==
    /\ e[x].pc = "done" /\ e[x].rx # <<>>
    /\ LET n == IF Len(e[x].rx) < cap THEN Len(e[x].rx) ELSE cap IN
       /\ got' = [got EXCEPT ![x] = @ \o SubSeq(e[x].rx, 1, n)]
       /\ e' = [e EXCEPT ![x].rx = Leftover(@, n)]
    /\ UNCHANGED <<wire, sent>>

(* tls_recv with an empty buffer: tls_read_appdata takes one record; what     *)
(* does not fit the buffer is cut off, close_notify ends the stream, a record *)
(* that does not verify is dropped and the call polls on.                     *)
ReadAppdata(x) ==
    /\ e[x].pc = "done" /\ e[x].rx = <<>> /\ ~e[x].closed /\ wire[x] # <<>>
    /\ LET r == Head(wire[x])
           n == IF Len(r.body) < AppBuf THEN Len(r.body) ELSE AppBuf
       IN e' = [e EXCEPT ![x] =
                   IF ~Opens(e[x], r) THEN @
                   ELSE [@ EXCEPT !.sseq = @ + 1,
                                  !.closed = r.t = "alert",
                                  !.rx = IF r.t = "data" THEN SubSeq(r.body, 1, n) ELSE @]]
    /\ wire' = [wire EXCEPT ![x] = Tail(@)]
    /\ UNCHANGED <<sent, got>>

(* tls_close: close_notify, then the slot is cleared. *)
Close(x) ==
    /\ e[x].pc = "done"
    /\ wire' = [wire EXCEPT ![Peer(x)] = Append(@, Encrypted(e[x], "alert", <<>>))]
    /\ e' = [e EXCEPT ![x].pc = "closed"]
    /\ UNCHANGED <<sent, got>>

Next == \/ ClientHello
        \/ \E x \in Side : \/ Handshake(x) \/ Deadline(x) \/ ReadAppdata(x) \/ Close(x)
                           \/ \E n \in 1 .. MaxRecord : Send(x, n)
                           \/ \E cap \in 1 .. 2 : Recv(x, cap)

Spec == Init /\ [][Next]_vars

--------------------------------------------------------------------------------
(* On an intact stream no record is ever refused: whatever the order of the   *)
(* two Finished messages and wherever a deadline fell, the next record of a   *)
(* side that still listens opens under the cipher state and the sequence      *)
(* number it holds (tls_read_record).                                         *)
RecordsOpen ==
    \A x \in Side : (Shaking(x) \/ e[x].pc = "done") /\ wire[x] # <<>>
                        => Opens(e[x], Head(wire[x]))

(* What an application reads is what the other one wrote, in order and        *)
(* without a gap (tls_send, tls_read_appdata, tls_recv), when no record is    *)
(* larger than the receive buffer.                                            *)
AppInOrder ==
    \A x \in Side : IsPrefix(got[x] \o e[x].rx, [i \in 1 .. sent[Peer(x)] |-> i])
================================================================================
