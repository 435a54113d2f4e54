------------------------------ MODULE NetWait -------------------------------
(***************************************************************************)
(* The calls of net.c that wait for an answer: net_dns_resolve and         *)
(* net_icmp_ping, with the ARP resolution (net_arp_resolve, arp_store)     *)
(* that comes before they can transmit.  A caller loops over net_pump,     *)
(* which applies whatever has arrived to global state: one DNS buffer, one *)
(* ping record, one ARP cache.  Answers stay on the network to come late,  *)
(* twice, or never.  Identifiers are taken as distinct from call to call.  *)
(***************************************************************************)
EXTENDS Integers, FiniteSets

CONSTANTS
  Caller,     \* CPUs that may be in a call at once
  Host,       \* names to resolve, and addresses to ping
  Hop,        \* next hops: the gateway and hosts on the link
  Slots,      \* ARP_CACHE
  MaxCalls    \* bound: calls made

VARIABLES
  call,     \* per caller [k, what, hop, id, try]: "idle", "arp", "dns", "ping"
  ids,      \* identifiers used, which counts the calls
  dnsId,    \* g_dns_id
  dnsRx,    \* g_dns_rx: an answer, or Empty (g_dns_rx_len = 0)
  ping,     \* the last echo reply: g_ping_hit and its source, id and seq
  pingId,   \* g_ping_id and g_ping_seq
  arp,      \* g_arp: per slot [hop, fresh]; hop "none" is not valid
  heard,    \* history: hops whose ARP reply was processed and has not expired
  net,      \* answers on the network
  result    \* history: per caller, what it asked and the answer it returned

vars == <<call, ids, dnsId, dnsRx, ping, pingId, arp, heard, net, result>>

Empty == [k |-> "none", what |-> "none", id |-> 0]
Idle == [k |-> "idle", what |-> "none", hop |-> "none", id |-> 0, try |-> 0]
Slot == 1..Slots

Init ==
  /\ call = [c \in Caller |-> Idle]
  /\ ids = 0 /\ dnsId = 0 /\ dnsRx = Empty /\ ping = Empty /\ pingId = 0
  /\ arp = [i \in Slot |-> [hop |-> "none", fresh |-> FALSE]]
  /\ heard = {} /\ net = {}
  /\ result = [c \in Caller |-> [asked |-> Empty, got |-> Empty]]

(* arp_lookup, and arp_store into the first slot that was never used. *)
ArpLookup(h) == \E i \in Slot : arp[i].hop = h /\ arp[i].fresh
ArpStore(h) ==
  LET Unused == {i \in Slot : arp[i].hop = "none"}
      first == CHOOSE i \in Unused : \A j \in Unused : i <= j
  IN  IF ArpLookup(h) \/ Unused = {} THEN arp
      ELSE [arp EXCEPT ![first] = [hop |-> h, fresh |-> TRUE]]

Answer(k, w, id) == [k |-> k, what |-> w, id |-> id]

-----------------------------------------------------------------------------
(* Faulty variants of the definitions below: each breaks one of the properties *)

(* The identifiers of the answer are not compared. *)
MatchesAny(a, id) == TRUE

-----------------------------------------------------------------------------
Matches(a, id) == a.id = id

(* net_dns_resolve begins with net_arp_resolve of the next hop, which asks for
   it if it is unknown. *)
DnsBegin(c, w, h) ==
  /\ call[c].k = "idle" /\ ids < MaxCalls
  /\ call' = [call EXCEPT ![c] = [k |-> "arp", what |-> w, hop |-> h, id |-> 0, try |-> 0]]
  /\ net' = IF ArpLookup(h) THEN net ELSE net \cup {Answer("arp", h, 0)}
  /\ UNCHANGED <<ids, dnsId, dnsRx, ping, pingId, arp, heard, result>>

(* The query goes out, with a new identifier and the old answer forgotten. *)
DnsQuery(c) ==
  /\ call[c].k = "arp" /\ ArpLookup(call[c].hop) /\ ids < MaxCalls
  /\ ids' = ids + 1 /\ dnsId' = ids + 1 /\ dnsRx' = Empty
  /\ call' = [call EXCEPT ![c].k = "dns", ![c].id = ids + 1]
  /\ net' = net \cup {Answer("dns", call[c].what, ids + 1)}
  /\ UNCHANGED <<ping, pingId, arp, heard, result>>

(* net_icmp_ping fails at once where the next hop is not in the cache. *)
Ping(c, w, h) ==
  /\ call[c].k = "idle" /\ ids < MaxCalls
  /\ ids' = ids + 1 /\ pingId' = ids + 1 /\ ping' = Empty
  /\ IF ArpLookup(h)
     THEN /\ call' = [call EXCEPT ![c] = [k |-> "ping", what |-> w, hop |-> h, id |-> ids + 1,
                                          try |-> 0]]
          /\ net' = net \cup {Answer("ping", w, ids + 1)}
     ELSE UNCHANGED <<call, net>>
  /\ UNCHANGED <<dnsId, dnsRx, arp, heard, result>>

ProcessArp(m) ==
  /\ m.k = "arp" /\ arp' = ArpStore(m.what) /\ heard' = heard \cup {m.what}
  /\ UNCHANGED <<dnsRx, ping>>

(* A DNS answer overwrites the one that nobody looked at yet. *)
ProcessUdp(m) == m.k = "dns" /\ dnsRx' = m /\ UNCHANGED <<arp, heard, ping>>

ProcessIcmp(m) == m.k = "ping" /\ ping' = m /\ UNCHANGED <<arp, heard, dnsRx>>

(* net_pump, called from a wait; a frame may come twice. *)
Pump(c, m) ==
  /\ call[c].k # "idle" /\ m \in net
  /\ ProcessArp(m) \/ ProcessUdp(m) \/ ProcessIcmp(m)
  /\ \/ net' = net \ {m}
     \/ UNCHANGED net
  /\ UNCHANGED <<call, ids, dnsId, pingId, result>>

Return(c, a) ==
  /\ result' = [result EXCEPT ![c] = [asked |-> Answer(call[c].k, call[c].what, call[c].id),
                                      got |-> a]]
  /\ call' = [call EXCEPT ![c] = Idle]

(* The end of net_dns_resolve: the buffer holds something, and its identifier
   is compared with g_dns_id. *)
DnsReturns(c) ==
  /\ call[c].k = "dns" /\ dnsRx # Empty
  /\ Return(c, IF Matches(dnsRx, dnsId) THEN dnsRx ELSE Empty)
  /\ UNCHANGED <<ids, dnsId, dnsRx, ping, pingId, arp, heard, net>>

(* net_icmp_ping returns at a reply of this source, id and sequence number. *)
PingReturns(c) ==
  /\ call[c].k = "ping" /\ ping # Empty
  /\ Matches(ping, pingId) /\ ping.what = call[c].what
  /\ Return(c, ping)
  /\ UNCHANGED <<ids, dnsId, dnsRx, ping, pingId, arp, heard, net>>

(* 400 ms: net_dns_resolve sends a second time with the same identifier;
   1.5 s, or the second time: the call fails. *)
Timeout(c) ==
  /\ call[c].k # "idle"
  /\ IF call[c].k = "dns" /\ call[c].try = 0
     THEN /\ call' = [call EXCEPT ![c].try = 1]
          /\ net' = net \cup {Answer("dns", call[c].what, call[c].id)}
          /\ UNCHANGED result
     ELSE Return(c, Empty) /\ UNCHANGED net
  /\ UNCHANGED <<ids, dnsId, dnsRx, ping, pingId, arp, heard>>

(* ARP_TTL passes for one entry. *)
Expire(i) ==
  /\ arp[i].fresh
  /\ arp' = [arp EXCEPT ![i].fresh = FALSE]
  /\ heard' = heard \ {arp[i].hop}
  /\ UNCHANGED <<call, ids, dnsId, dnsRx, ping, pingId, net, result>>

Next ==
  \/ \E c \in Caller :
       \/ \E h \in Hop, w \in Host : DnsBegin(c, w, h) \/ Ping(c, w, h)
       \/ DnsQuery(c) \/ DnsReturns(c) \/ PingReturns(c) \/ Timeout(c)
       \/ \E m \in net : Pump(c, m)
  \/ \E i \in Slot : Expire(i)

Spec == Init /\ [][Next]_vars

-----------------------------------------------------------------------------
(* Properties *)

(* A call returns an answer to its own question, not one to an earlier query
   that comes late or twice. *)
AnswerMatches == \A c \in Caller : result[c].got \in {Empty, result[c].asked}
=============================================================================
