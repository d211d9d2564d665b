------------------------------ MODULE Dnsmasq -------------------------------
(***************************************************************************)
(* The dnsmasq records file a snapshot renders to (dnsmasq.py,              *)
(* dnsmasq_query.py, dnsmasq_render.py): host records, reservations and     *)
(* dynamic ranges, or Blank when an endpoint blocks the whole shared file.  *)
(* A line is a record; the text of lines and the digest of the file are     *)
(* one-to-one with the set of lines.                                        *)
(***************************************************************************)
EXTENDS IntentDrift

Exportable(s, e) ==
  /\ s.endpoint[e].dnsmasq /\ s.endpoint[e].addr # Blank /\ s.endpoint[e].dns
  /\ s.node[EndpointNode[e]].lifecycle \in {"planned", "approved", "active"}
  /\ EndpointType[e] \in {"primary", "management", "service", "vpn"}

DnsLines(s) == {[kind |-> "host", endpoint |-> e, addr |-> s.endpoint[e].addr, mac |-> Blank] :
                  e \in {f \in Endpoint : Exportable(s, f)}}

Reservable(s, e) == Exportable(s, e) /\ s.endpoint[e].policy = "dhcp_reserved"

\* The actual objects a reservation may stand on: those of the MAC candidates and of
\* the node's evaluation, which coincide.
ActualRefs(s, e) == MacSource(s, EndpointNode[e])

\* A desired MAC is authoritative, even before the node is observed; without one the
\* observed candidates must agree and the endpoint must be ready.
Reserved(s, e) ==
  /\ Reservable(s, e)
  /\ IF s.endpoint[e].mac # Blank
     THEN Codes(EndpointGaps(s, e)) \cap {"ambiguous_interface", "desired_mac_mismatch"} = {}
     ELSE /\ ReservationReady(s, e) /\ Cardinality(ActualRefs(s, e)) = 1
          /\ Cardinality(Macs(s, e)) = 1

ReservedMac(s, e) == IF s.endpoint[e].mac # Blank THEN s.endpoint[e].mac
                     ELSE CHOOSE m \in Macs(s, e) : TRUE
DhcpLines(s) == {[kind |-> "dhcp", endpoint |-> e, addr |-> s.endpoint[e].addr,
                  mac |-> ReservedMac(s, e)] : e \in {f \in Endpoint : Reserved(s, f)}}

RangeLines == {[kind |-> "range", first |-> RangeOf[r].first, last |-> RangeOf[r].last] :
                 r \in {q \in IpRange : /\ RangeOf[q].exported
                                      /\ RangeOf[q].policy = "dhcp_dynamic_pool" /\ ValidRange(q)}}

\* A conflict about the MAC of an endpoint that would be reserved blocks the file:
\* no line of a shared file can be left out safely.
Blocking(s, e) ==
  /\ Reservable(s, e)
  /\ IF s.endpoint[e].mac # Blank
     THEN Codes(EndpointGaps(s, e)) \cap {"ambiguous_interface", "desired_mac_mismatch"} # {}
     ELSE Cardinality(Macs(s, e)) > 1
Blockers(s) == {e \in Endpoint : Blocking(s, e)}

\* The one content every consumer compares with or deploys.
Render(s) == IF Blockers(s) # {} THEN Blank
             ELSE [lines |-> DnsLines(s) \cup DhcpLines(s) \cup RangeLines]
=============================================================================
