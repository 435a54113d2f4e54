---------------------------------- MODULE Wifi ----------------------------------
(*****************************************************************************)
(* The WPA2 station: the driver's scan, connect and disconnect calls         *)
(* (drivers/wifi.c), the session that drives them over a frame transport     *)
(* (net/wifi_session.c), the station's state machine (net/wifi_sta.c), the   *)
(* supplicant's half of the four-way handshake (lib/eapol.c) and the         *)
(* protected data frames (net/wifi_data.c).                                  *)
(*                                                                           *)
(* The access point is the one the session's self-test carries, except that  *)
(* it repeats a message that was not answered and picks a new ANonce for     *)
(* each association.  The two directions of the transport are the rings of   *)
(* rtw_io: in order, bounded, and frames are lost on the air; what nobody    *)
(* read stays in the receive ring when a join gives up.                      *)
(* A key is the triple it is derived from; a MIC or a cipher text is the key *)
(* it was made with, so "verifies" and "decrypts" is equality of keys.       *)
(*****************************************************************************)
EXTENDS Integers, Sequences

CONSTANTS Passphrases,  \* what the user may type
          ApPass,       \* the access point's own passphrase
          Joins,        \* bound: calls of wifi_connect
          Ring,         \* bound: frames under way in one direction
          Payloads      \* bound: data payloads, each sent at most once per side

VARIABLES sta,    \* wifi_sta_t with its eapol_supplicant_t
          wait,   \* where wifi_session_join waits: Idle, Auth, Assoc or a handshake round
          gstate, \* g_state of wifi.c: what wifi_state reports
          iface,  \* g_ifaces[0].state
          known,  \* g_aps holds the network
          ap,     \* the access point: anonce, ptk, hsk_done, its last message, data
          tx, rx, \* frames on their way to the access point and to the station
          joins

vars == <<sta, wait, gstate, iface, known, ap, tx, rx, joins>>

NoKey == <<"none", 0>>
Key(pass, anonce) == <<pass, anonce>>   \* wpa_ptk_derive: the SNonce is a constant
Idle  == 0
Auth  == 1
Assoc == 2
Rounds == 3 .. 6     \* the handshake
Looks  == 7 .. 8     \* wifi_session_scan: 400 ms in steps of 200

--------------------------------------------------------------------------------
(* Faulty variants of the definitions below. *)

\* wifi_sta_eapol_in that installs the key as soon as Msg1 lets it derive one,
\* before Msg3 has shown that the access point holds it too
Msg1Installs(s, f) == [s EXCEPT !.anonce = f.n, !.ptk = Key(s.pmk, f.n),
                                !.tk = Key(s.pmk, f.n), !.state = "connected"]

\* wifi_session_recv_data that hands up a frame it could not decrypt
DecryptsAny(key, f) == TRUE

--------------------------------------------------------------------------------
(* Frames.                                                                    *)

(* mgmt_hdr: a management frame is its subtype. *)
Mgmt(t) == [t |-> t, info |-> {}, n |-> 0, k |-> NoKey, data |-> NoKey]

ProbeReq == Mgmt("probe_req")
AuthReq  == Mgmt("auth_req")
AssocReq == Mgmt("assoc_req")

(* data_build and eapol_build: a plain data frame with an EAPOL-Key           *)
(* descriptor.                                                                *)
Eapol(info, n, k, data) == [t |-> "eapol", info |-> info, n |-> n, k |-> k, data |-> data]

(* eapol_parse *)
IsEapol(f) == f.t = "eapol"

(* eapol_key_msg_type: which message of the handshake the flags make it. *)
KeyMsgType(f) ==
    LET ack == "ack" \in f.info
        mic == "mic" \in f.info
    IN  CASE ack /\ ~mic -> 1
          [] ack /\ mic  -> 3
          [] ~ack /\ mic -> IF "secure" \in f.info THEN 4 ELSE 2
          [] OTHER -> 0

(* mic_frame; ap_verify_mic: the MIC is the one this key makes. *)
Mic(ptk) == ptk
ApVerifyMic(f, ptk) == f.k = Mic(ptk)

(* aes_key_wrap, aes_key_unwrap: only the wrapping key passes the check of    *)
(* the initial value.                                                         *)
Wrap(key, gtk) == <<key, gtk>>
Unwraps(key, wrapped) == wrapped[1] = key

(* ccmp_encrypt and ccmp_decrypt under wifi_data_encrypt and                  *)
(* wifi_data_decrypt: only a frame sealed with this key passes the MIC.       *)
Seal(t, p, key) == [t |-> t, info |-> {}, n |-> p, k |-> Mic(key), data |-> NoKey]
Protected(t, p, key) == Seal(t, p, key)
Opens(key, f) == f.k = Mic(key)
Decrypts(key, f) == f.t \in {"up", "down"} /\ Opens(key, f)

(* rtw_io_tx and the air towards the access point: a frame is put on its way *)
(* or lost.                                                                  *)
SessSend(f) == tx' \in {tx} \cup (IF Len(tx) < Ring THEN {Append(tx, f)} ELSE {})

(* The air towards the station: a full receive ring, or the air, loses it. *)
ApOut(f) == rx' \in {rx} \cup (IF Len(rx) < Ring THEN {Append(rx, f)} ELSE {})

--------------------------------------------------------------------------------
(* Scan.                                                                      *)

(* wifi_scan up to the first wait of wifi_session_scan: the list is emptied   *)
(* and the probe goes out.  A scan within the debounce time changes nothing.  *)
Scan == /\ wait = Idle /\ joins < Joins
        /\ gstate' = "scanning" /\ known' = FALSE
        /\ wait' = 7
        /\ SessSend(ProbeReq)
        /\ UNCHANGED <<sta, iface, ap, rx, joins>>

(* One step of 200 ms passed.  After the last the driver reports              *)
(* DISCONNECTED, whatever it reported before the scan.                        *)
Looked == IF wait = 8 THEN wait' = Idle /\ gstate' = "disconnected"
          ELSE wait' = 8 /\ UNCHANGED gstate

(* wifi_parse_probe_resp with the elements of its body *)
IsProbeResp(f) == f.t = "probe_resp"

ProbeResp(f) == /\ wait \in Looks
                /\ known' = (known \/ IsProbeResp(f))
                /\ Looked
                /\ UNCHANGED <<sta, iface, ap, tx, joins>>

NoProbeResp == /\ wait \in Looks /\ rx = <<>>
               /\ Looked
               /\ UNCHANGED <<sta, iface, known, ap, tx, rx, joins>>

--------------------------------------------------------------------------------
(* Join.                                                                      *)

(* eapol_init: the supplicant forgets its keys, the station does not. *)
EapolInit(s, pass) == [s EXCEPT !.pmk = pass, !.anonce = 0, !.ptk = NoKey]

(* wifi_sta_set_passphrase and wifi_sta_start_join *)
StartJoin(pass) == [EapolInit(sta, pass) EXCEPT !.state = "authenticating"]

(* wifi_session_join returned -1: whatever state the station was in stays. *)
JoinFails(s) == /\ sta' = s
                /\ wait' = Idle
                /\ gstate' = "disconnected"
                /\ UNCHANGED <<iface, known, ap, tx, joins>>

(* The join goes on, with the station as s, after a frame was sent; without   *)
(* memory for the frame it fails.                                             *)
JoinSends(s, f, next) ==
    \/ /\ sta' = s /\ wait' = next /\ SessSend(f)
       /\ UNCHANGED <<gstate, iface, known, ap, joins>>
    \/ JoinFails(s)

(* wifi_connect up to the first wait of wifi_session_join: only a network of  *)
(* the scan is joined.                                                        *)
Connect(pass) ==
    /\ wait = Idle /\ joins < Joins /\ known
    /\ joins' = joins + 1
    /\ sta' = StartJoin(pass)
    /\ gstate' = "authenticating"
    /\ wait' = Auth
    /\ SessSend(AuthReq)
    /\ UNCHANGED <<iface, known, ap, rx>>

(* sess_recv_until ran out of time. *)
RecvTimeout == /\ wait \in {Auth, Assoc} \cup Rounds /\ rx = <<>>
               /\ JoinFails(sta) /\ UNCHANGED rx

(* wifi_sta_on_auth_resp, then the association request. *)
AuthResp(f) ==
    /\ wait = Auth
    /\ IF f.t = "auth_resp"
       THEN JoinSends([sta EXCEPT !.state = "associating"], AssocReq, Assoc)
       ELSE JoinFails(IF f.t = "auth_refused"
                      THEN [sta EXCEPT !.state = "disconnected"] ELSE sta)

(* wifi_sta_on_assoc_resp. *)
AssocResp(f) ==
    /\ wait = Assoc
    /\ IF f.t = "assoc_resp"
       THEN /\ sta' = [sta EXCEPT !.state = "associated"]
            /\ wait' = 3
            /\ UNCHANGED <<gstate, iface, known, ap, tx, joins>>
       ELSE JoinFails(sta)

(* eapol_process_msg1: the nonce is taken whatever the replay counter says. *)
Msg1(s, f) == [s EXCEPT !.anonce = f.n, !.ptk = Key(s.pmk, f.n)]

(* eapol_process_msg3: a PTK, its MIC, the ANonce of Msg1 and a group key     *)
(* wrapped with the PTK.                                                      *)
Msg3Ok(s, f) == /\ s.ptk # NoKey /\ f.k = Mic(s.ptk) /\ f.n = s.anonce
                /\ "encr" \in f.info => Unwraps(s.ptk, f.data)
Msg3(s, f) == [s EXCEPT !.gtk = f.data[2], !.tk = s.ptk, !.state = "connected"]

(* The replies: the MIC of both is made with the PTK. *)
Msg2(s) == Eapol({"mic"}, 0, Mic(s.ptk), NoKey)
Msg4(s) == Eapol({"mic", "secure"}, 0, Mic(s.ptk), NoKey)

(* One round of the handshake: wifi_sta_eapol_in and the reply.  A frame that *)
(* is not EAPOL, or a Msg3 that does not verify, ends the join, and so does   *)
(* the fourth round.                                                          *)
EapolIn(f) ==
    /\ wait \in Rounds
    /\ \/ /\ IsEapol(f) /\ KeyMsgType(f) = 1 /\ wait < 6
          /\ JoinSends(Msg1(sta, f), Msg2(Msg1(sta, f)), wait + 1)
       \/ /\ IsEapol(f) /\ KeyMsgType(f) = 1 /\ wait = 6
          /\ sta' = Msg1(sta, f) /\ wait' = Idle /\ gstate' = "disconnected"
          /\ SessSend(Msg2(Msg1(sta, f)))
          /\ UNCHANGED <<iface, known, ap, joins>>
       \/ /\ IsEapol(f) /\ KeyMsgType(f) = 3 /\ Msg3Ok(sta, f)
          /\ \/ /\ sta' = Msg3(sta, f) /\ wait' = Idle
                /\ SessSend(Msg4(sta))
                /\ gstate' = "connected" /\ iface' = "connected"
                /\ UNCHANGED <<known, ap, joins>>
             \/ JoinFails(Msg3(sta, f))
       \/ /\ ~IsEapol(f) \/ (KeyMsgType(f) = 3 /\ ~Msg3Ok(sta, f))
          /\ JoinFails(sta)

(* wifi_disconnect: only the reported states change; the session keeps its    *)
(* keys and its station state.                                                *)
Disconnect ==
    /\ wait = Idle /\ gstate = "connected"
    /\ gstate' = "disconnected" /\ iface' = "disconnected"
    /\ UNCHANGED <<sta, wait, known, ap, tx, rx, joins>>

(* wifi_session_send_data: always under the installed temporal key. *)
SendData(p) ==
    /\ wait = Idle /\ sta.tk # NoKey /\ p \notin sta.sent
    /\ sta' = [sta EXCEPT !.sent = @ \cup {p}]
    /\ SessSend(Protected("up", p, sta.tk))
    /\ UNCHANGED <<wait, gstate, iface, known, ap, rx, joins>>

(* wifi_session_recv_data: one frame is read; a management frame is skipped,  *)
(* a data frame that does not decrypt is an error.                            *)
RecvData(f) ==
    /\ wait = Idle /\ sta.tk # NoKey
    /\ sta' = IF (IsEapol(f) \/ f.t = "down") /\ Decrypts(sta.tk, f)
              THEN [sta EXCEPT !.got = @ \cup {f.n}] ELSE sta
    /\ UNCHANGED <<wait, gstate, iface, known, ap, tx, joins>>

(* The station reads the frame at the head of the receive ring. *)
StaReads == /\ rx # <<>>
            /\ rx' = Tail(rx)
            /\ LET f == Head(rx) IN
               ProbeResp(f) \/ AuthResp(f) \/ AssocResp(f) \/ EapolIn(f) \/ RecvData(f)

--------------------------------------------------------------------------------
(* The access point. *)

Others == <<sta, wait, gstate, iface, known, joins>>

Gtk(a) == <<"group", a>>

(* ap_probe_resp *)
ApProbe(f) == f.t = "probe_req" /\ ApOut(Mgmt("probe_resp")) /\ UNCHANGED ap

(* ap_auth_resp; a busy access point refuses. *)
ApAuth(f) == /\ f.t = "auth_req"
             /\ \E t \in {"auth_resp", "auth_refused"} : ApOut(Mgmt(t))
             /\ UNCHANGED ap

(* ap_assoc_resp: a new association, and Msg1 with a new ANonce is due. *)
ApAssoc(f) == /\ f.t = "assoc_req"
              /\ ap' = [ap EXCEPT !.anonce = @ + 1, !.ptk = NoKey, !.done = FALSE,
                                  !.last = "m1"]
              /\ ApOut(Mgmt("assoc_resp"))

ApQueueM1 == ap.last = "m1" /\ ApOut(Eapol({"ack"}, ap.anonce, NoKey, NoKey))
ApSendM3  == /\ ap.last = "m3"
             /\ ApOut(Eapol({"ack", "mic", "install", "encr", "secure"}, ap.anonce,
                            Mic(ap.ptk), Wrap(ap.ptk, Gtk(ap.anonce))))

(* Both are sent again while the answer has not come; beacons of this and     *)
(* other access points.                                                       *)
ApRepeats == /\ tx' = tx
             /\ Len(rx) < Ring
             /\ \/ ApQueueM1 \/ ApSendM3
                \/ ApOut(Mgmt("beacon"))
             /\ UNCHANGED <<Others, ap>>

(* ap_eapol: Msg2 verifies under the PTK it makes the AP derive, then Msg3;   *)
(* Msg4 verifies under that PTK.                                              *)
ApEapol(f) ==
    LET ptk == Key(ApPass, ap.anonce) IN
    /\ IsEapol(f)
    /\ UNCHANGED rx
    /\ \/ /\ KeyMsgType(f) = 2
          /\ ap' = [ap EXCEPT !.ptk = ptk, !.last = IF ApVerifyMic(f, ptk) THEN "m3" ELSE @]
       \/ /\ KeyMsgType(f) = 4
          /\ ap' = IF ApVerifyMic(f, ap.ptk) THEN [ap EXCEPT !.done = TRUE, !.last = "none"]
                                   ELSE ap

(* ap_data. *)
ApRecv(f) == /\ f.t = "up"
             /\ ap' = IF ap.done /\ Decrypts(ap.ptk, f)
                      THEN [ap EXCEPT !.got = @ \cup {f.n}] ELSE ap
             /\ UNCHANGED rx

ApReads == /\ tx # <<>>
           /\ tx' = Tail(tx)
           /\ LET f == Head(tx) IN ApProbe(f) \/ ApAuth(f) \/ ApAssoc(f) \/ ApEapol(f) \/ ApRecv(f)
           /\ UNCHANGED Others

(* ap_send_data. *)
ApSend(p) == /\ ap.done /\ p \notin ap.sent
             /\ ap' = [ap EXCEPT !.sent = @ \cup {p}]
             /\ ApOut(Protected("down", p, ap.ptk))
             /\ UNCHANGED <<Others, tx>>

--------------------------------------------------------------------------------
(* wifi_sta_init, wifi_session_init and wifi_init *)
StaInit == [state |-> "disconnected", pmk |-> ApPass, anonce |-> 0, ptk |-> NoKey,
            gtk |-> NoKey, tk |-> NoKey, sent |-> {}, got |-> {}]
SessionInit == sta = StaInit /\ tx = <<>> /\ rx = <<>>

Init == /\ SessionInit
        /\ wait = Idle /\ gstate = "disconnected" /\ iface = "disconnected"
        /\ known = FALSE
        /\ ap = [anonce |-> 0, ptk |-> NoKey, done |-> FALSE, last |-> "none",
                 sent |-> {}, got |-> {}]
        /\ joins = 0

Next == \/ Scan \/ NoProbeResp \/ Disconnect \/ RecvTimeout
        \/ \E pass \in Passphrases : Connect(pass)
        \/ StaReads \/ ApReads \/ ApRepeats
        \/ \E p \in Payloads : SendData(p) \/ ApSend(p)

Spec == Init /\ [][Next]_vars

--------------------------------------------------------------------------------
(* A station that reports CONNECTED holds the keys of one association the    *)
(* access point made with the same passphrase, and when the access point has *)
(* finished the latest handshake and the station took part in it, both sides *)
(* hold one key -- whatever was lost, repeated or left over from an earlier  *)
(* join.                                                                     *)
KeysAgree ==
    /\ sta.state = "connected" =>
           /\ sta.tk[1] = ApPass /\ sta.tk[2] \in 1 .. ap.anonce
           /\ sta.gtk = Gtk(sta.tk[2])
    /\ ap.done => /\ ap.ptk = Key(ApPass, ap.anonce)
                  /\ \/ sta.tk = ap.ptk
                     \/ sta.state # "connected"
    /\ gstate = "connected" => sta.state = "connected"

(* What either side takes from the air as data is a payload the other side   *)
(* sent, under the key both hold: handshake frames, beacons and data of an   *)
(* earlier key are never handed up.                                          *)
DataIsReal == sta.got \subseteq ap.sent /\ ap.got \subseteq sta.sent
================================================================================
