----------------------------- MODULE NetConfig ------------------------------
(***************************************************************************)
(* How the machine gets its addresses: the DHCP client of net.c, with its  *)
(* fallback when no server answers, and the stateless autoconfiguration of *)
(* ipv6.c.  net_service drives both and is called again and again; replies *)
(* come whenever the network likes, late, twice, or never.                 *)
(* Servers and routers are external.  A server is named by the address it  *)
(* leases; it acknowledges only a request that names it.                   *)
(***************************************************************************)
EXTENDS Integers, Sequences, FiniteSets, TLAPS

CONSTANTS
  Server,       \* DHCP servers on the link
  Router,       \* IPv6 routers on the link
  Fallback,     \* the slirp address
  None,         \* no address
  MaxRetries,   \* 8: DHCP messages sent again before the fallback
  MaxRs,        \* 3: router solicitations
  MaxRoutes     \* RT_MAX

VARIABLES
  st,        \* g_dhcp_state: "start", "discover", "request", "done"
  ip,        \* g_ip, whose server also gave mask, gateway and resolver
  offer,     \* g_offer_ip and g_server_id
  retries,   \* retransmissions
  route,     \* g_routes: a sequence of [dst, gw]
  net,       \* messages on the link, kept to be lost, delayed or duplicated
  ip6,       \* g_ip6 and its router; g_ip6_ok is ip6 # None
  rs,        \* v6_rs_n
  gaveup6    \* v6_gave_up

v4 == <<st, ip, offer, retries, route>>
v6 == <<ip6, rs, gaveup6>>
vars == <<v4, v6, net>>

Msg(k, s) == [k |-> k, s |-> s]

(* route_add: an entry with the same destination is replaced. *)
RouteAdd(t, dst, gw) ==
  IF \E i \in DOMAIN t : t[i].dst = dst
  THEN [i \in DOMAIN t |-> IF t[i].dst = dst THEN [t[i] EXCEPT !.gw = gw] ELSE t[i]]
  ELSE IF Len(t) < MaxRoutes THEN Append(t, [dst |-> dst, gw |-> gw]) ELSE t

(* net_init: the loopback route. *)
Init ==
  /\ st = "start" /\ ip = None /\ offer = None /\ retries = 0
  /\ route = <<[dst |-> <<"lo", None>>, gw |-> None]>>
  /\ net = {}
  /\ ip6 = None /\ rs = 0 /\ gaveup6 = FALSE

(* The link route and the default route of a lease. *)
Lease(s) == RouteAdd(RouteAdd(route, <<"link", s>>, None), <<"default", None>>, s)

-----------------------------------------------------------------------------
(* Faulty variants of the definitions below: each breaks one of the properties *)

(* A reply is looked at whatever the state is. *)
HandleAlways(m) ==
  \/ /\ m.k = "OFFER" /\ st = "discover"
     /\ offer' = m.s /\ st' = "request"
     /\ net' = net \cup {Msg("REQUEST", m.s)}
     /\ UNCHANGED <<ip, retries, route>>
  \/ /\ m.k = "ACK"
     /\ ip' = m.s /\ st' = "done" /\ route' = Lease(m.s)
     /\ UNCHANGED <<offer, retries, net>>

(* The retry counter starts again with each request. *)
ResendForever ==
  /\ st \in {"discover", "request"}
  /\ retries' = IF retries + 1 > MaxRetries THEN 0 ELSE retries + 1
  /\ net' = net \cup {IF st = "discover" THEN Msg("DISCOVER", None) ELSE Msg("REQUEST", offer)}
  /\ UNCHANGED <<st, ip, offer, route>>

-----------------------------------------------------------------------------
(* net_service: DHCP *)

Discover ==
  /\ st = "start"
  /\ st' = "discover" /\ net' = net \cup {Msg("DISCOVER", None)}
  /\ UNCHANGED <<ip, offer, retries, route>>

(* 200 ms without an answer: send again, or give up and use the slirp
   defaults (net_slirp_fallback). *)
Resend ==
  /\ st \in {"discover", "request"}
  /\ retries' = retries + 1
  /\ IF retries + 1 > MaxRetries
     THEN /\ st' = "done"
          /\ IF ip = None THEN ip' = Fallback /\ route' = Lease(Fallback)
             ELSE UNCHANGED <<ip, route>>
          /\ UNCHANGED net
     ELSE /\ net' = net \cup {IF st = "discover" THEN Msg("DISCOVER", None)
                              ELSE Msg("REQUEST", offer)}
          /\ UNCHANGED <<st, ip, route>>
  /\ UNCHANGED offer

(* dhcp_handle: nothing once there is an address; an ACK is taken in any
   earlier state. *)
Handle(m) ==
  /\ st # "done"
  /\ \/ /\ m.k = "OFFER" /\ st = "discover"
        /\ offer' = m.s /\ st' = "request"
        /\ net' = net \cup {Msg("REQUEST", m.s)}
        /\ UNCHANGED <<ip, retries, route>>
     \/ /\ m.k = "ACK"
        /\ ip' = m.s /\ st' = "done" /\ route' = Lease(m.s)
        /\ UNCHANGED <<offer, retries, net>>

(* External: a server answers what it heard. *)
ServerAnswers(s) ==
  /\ \/ Msg("DISCOVER", None) \in net /\ net' = net \cup {Msg("OFFER", s)}
     \/ Msg("REQUEST", s) \in net /\ net' = net \cup {Msg("ACK", s)}
  /\ UNCHANGED v4

-----------------------------------------------------------------------------
(* IPv6 *)

(* ndp_send_rs *)
Solicit == net' = net \cup {Msg("RS", None)}

(* net_ipv6_poll, a second after the last solicitation. *)
Poll6 ==
  /\ ~gaveup6 /\ ip6 = None
  /\ IF rs < MaxRs
     THEN rs' = rs + 1 /\ Solicit /\ UNCHANGED gaveup6
     ELSE gaveup6' = TRUE /\ UNCHANGED <<rs, net>>
  /\ UNCHANGED ip6

(* icmp6_handle of an RA with a prefix: the first one configures. *)
Advert(r) ==
  /\ Msg("RA", r) \in net /\ ip6 = None
  /\ ip6' = r
  /\ UNCHANGED <<rs, gaveup6, net>>

(* External: routers advertise when asked. *)
RouterAnswers(r) ==
  /\ Msg("RS", None) \in net /\ net' = net \cup {Msg("RA", r)}
  /\ UNCHANGED v6

Next ==
  \/ /\ Discover \/ Resend \/ (\E m \in net : Handle(m)) \/ \E s \in Server : ServerAnswers(s)
     /\ UNCHANGED v6
  \/ /\ Poll6 \/ \E r \in Router : Advert(r) \/ RouterAnswers(r)
     /\ UNCHANGED v4

Spec == Init /\ [][Next]_vars

(* The idle loop calls net_service for ever: its timers expire. *)
Timers4 == (Discover \/ Resend) /\ UNCHANGED v6
Timers6 == Poll6 /\ UNCHANGED v4
FairSpec == Spec /\ WF_vars(Timers4) /\ WF_vars(Timers6)

-----------------------------------------------------------------------------
(* Properties *)

(* Of every step: addresses and routes do not change once they are set.  An
   acknowledgement that comes after the fallback, or a second one, or a second router's
   advertisement, is ignored. *)
AddressStable ==
  /\ ip # None => ip' = ip /\ route' = route
  /\ ip6 # None => ip6' = ip6

(* What the clients come to: the machine has an address, or has settled for the
   fallback, and has stopped asking for routers. *)
Settled == st = "done" /\ ip # None /\ (ip6 # None \/ gaveup6)

-----------------------------------------------------------------------------
(* Addresses and routes, once set, are kept, whatever replies the network  *)
(* loses, delays or repeats.                                               *)

(* An address is there exactly when the client is done, and every answer on
   the link names a server or a router. *)
NetInv ==
  /\ ip # None <=> st = "done"
  /\ \A m \in net : m.k \in {"OFFER", "ACK"} => m.s # None

LEMMA NetInvNext ==
  ASSUME None \notin Server, Fallback # None, NetInv, [Next]_vars
  PROVE  NetInv'
<1>. USE DEF NetInv
<1>1. CASE Discover
  BY <1>1 DEF Discover, Msg
<1>2. CASE Resend
  BY <1>2 DEF Resend, Msg
<1>3. ASSUME NEW m \in net, Handle(m)
      PROVE  NetInv'
  BY <1>3 DEF Handle, Msg
<1>4. ASSUME NEW s \in Server, ServerAnswers(s)
      PROVE  NetInv'
  BY <1>4 DEF ServerAnswers, Msg, v4
<1>5. CASE Poll6 /\ UNCHANGED v4
  BY <1>5 DEF Poll6, Solicit, Msg, v4
<1>6. ASSUME NEW r \in Router, Advert(r) \/ RouterAnswers(r), UNCHANGED v4
      PROVE  NetInv'
  BY <1>6 DEF Advert, RouterAnswers, Msg, v4
<1>7. CASE UNCHANGED vars
  BY <1>7 DEF vars, v4
<1>. QED BY <1>1, <1>2, <1>3, <1>4, <1>5, <1>6, <1>7 DEF Next

LEMMA StableStep ==
  ASSUME None \notin Server, NetInv, [Next]_vars
  PROVE  AddressStable
<1>. USE DEF NetInv, AddressStable
<1>1. CASE Discover /\ UNCHANGED v6
  BY <1>1 DEF Discover, v6
<1>2. CASE Resend /\ UNCHANGED v6
  BY <1>2 DEF Resend, v6
<1>3. ASSUME NEW m \in net, Handle(m), UNCHANGED v6
      PROVE  AddressStable
  BY <1>3 DEF Handle, v6
<1>4. ASSUME NEW s \in Server, ServerAnswers(s), UNCHANGED v6
      PROVE  AddressStable
  BY <1>4 DEF ServerAnswers, v4, v6
<1>5. CASE Poll6 /\ UNCHANGED v4
  BY <1>5 DEF Poll6, v4
<1>6. ASSUME NEW r \in Router, Advert(r) \/ RouterAnswers(r), UNCHANGED v4
      PROVE  AddressStable
  BY <1>6 DEF Advert, RouterAnswers, v4, v6
<1>7. CASE UNCHANGED vars
  BY <1>7 DEF vars, v4, v6
<1>. QED BY <1>1, <1>2, <1>3, <1>4, <1>5, <1>6, <1>7 DEF Next

(* dhcp_handle, net_slirp_fallback and icmp6_handle set the addresses and the
   routes once: a late or repeated acknowledgement, or the advertisement of a
   second router, changes nothing, for any number of servers and routers and
   any number of retries. *)
THEOREM AddressStableHolds ==
  ASSUME None \notin Server, Fallback # None
  PROVE  Spec => [][AddressStable]_vars
<1>1. Init => NetInv
  BY DEF Init, NetInv
<1>2. NetInv /\ [Next]_vars => NetInv'
  BY NetInvNext
<1>3. NetInv /\ [Next]_vars => AddressStable
  BY StableStep
<1>. QED BY <1>1, <1>2, <1>3, PTL DEF Spec
=============================================================================
