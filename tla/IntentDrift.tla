----------------------------- MODULE IntentDrift -----------------------------
(***************************************************************************)
(* Drift of desired nodes and endpoints: node_evaluation.py,                *)
(* endpoint_evaluation.py, ip_ranges.py and the node comparators.  A gap is *)
(* [code, severity], as the evaluators report it.                           *)
(***************************************************************************)
EXTENDS Site

----------------------------------------------------------------------------
(* Nodes.                                                                   *)
Weight == [serial |-> 80, uuid |-> 80, platform |-> 10]
Same(s, n, d, k) == ExpectedSpec[n][k] # "" /\ ExpectedSpec[n][k] = s.device[d].spec[k]

Score(s, n, d) ==
  LET part(k) == IF Same(s, n, d, k) THEN Weight[k] ELSE 0
  IN  (IF s.device[d].name = n THEN 50 ELSE 0)
        + part("serial") + part("uuid") + part("platform")

Strong(s, n) == {d \in Device : /\ s.device[d] # Blank /\ ObjectType[d] \in Accepted[n]
                                /\ Score(s, n, d) >= 40}
Best(s, n) == {d \in Strong(s, n) : \A o \in Strong(s, n) : Score(s, n, o) <= Score(s, n, d)}

\* What a linked device contradicts.
MismatchCode == [serial |-> "serial_mismatch", uuid |-> "uuid_mismatch",
                 platform |-> "platform_mismatch"]
Mismatches(s, n, d) ==
  {Gap(MismatchCode[k], "conflict") : k \in {j \in SpecKeys : /\ ExpectedSpec[n][j] # ""
                                                /\ s.device[d].spec[j] # ""
                                                /\ ~Same(s, n, d, j)}}

NodeGaps(s, n) ==
  LET d == Realized(s, n)
  IN  IF d # NoDevice
      THEN IF "device" \in Accepted[n] THEN Mismatches(s, n, d)
           ELSE {Gap("realized_actual_type_not_accepted", "conflict")}
      ELSE IF Strong(s, n) = {} THEN {Gap("missing_actual_node", "missing")}
      ELSE IF Cardinality(Best(s, n)) = 1 THEN {Gap("actual_node_not_linked", "partial")}
      ELSE {Gap("ambiguous_actual_node_candidates", "conflict")}

\* node_existence: the link names nothing, or there is none.
ExistenceGaps(s, n) ==
  LET d == s.node[n].device
  IN  IF d = NoDevice THEN {Gap("no_realized_object", "missing")}
      ELSE IF Realized(s, n) = NoDevice THEN {Gap("realized_device_missing", "missing")} ELSE {}

----------------------------------------------------------------------------
(* Ranges.  An address is a number; Blank is no address.                    *)
ValidRange(r) == RangeOf[r].first <= RangeOf[r].last
Within(a, r) == a \in RangeOf[r].first..RangeOf[r].last
Matching(a) == {r \in IpRange : ValidRange(r) /\ Within(a, r)}
Overlap(q, r) == q # r /\ ValidRange(q) /\ ValidRange(r)
                 /\ RangeOf[q].first <= RangeOf[r].last /\ RangeOf[r].first <= RangeOf[q].last
Overlapping == {r \in IpRange : \E q \in IpRange : Overlap(q, r)}
DhcpPools == {"dhcp_reservable_pool", "dhcp_dynamic_pool"}

RangeCodes(addr, policy) ==
  LET match == Matching(addr)
      policies == {RangeOf[r].policy : r \in match}
      invalid == {c \in {"invalid_ip_policy_range"} : \E r \in IpRange : ~ValidRange(r)}
      dhcp == {c \in {"dhcp_reserved_endpoint_in_dynamic_pool"} : "dhcp_dynamic_pool" \in policies}
               \cup {c \in {"ip_policy_range_mismatch"} :
                       policies # {} /\ "dhcp_reservable_pool" \notin policies}
      static == {c \in {"static_endpoint_in_dhcp_pool"} : policies \cap DhcpPools # {}}
               \cup {c \in {"ip_policy_range_mismatch"} :
                       policies # {} /\ policies \cap {"static_pool", "excluded"} = {}}
      crowded == {c \in {"ambiguous_ip_policy_range"} :
                    Cardinality(match) > 1 \/ match \cap Overlapping # {}}
      found == IF addr = Blank THEN {}
               ELSE IF policy \in {"static", "dhcp_reserved"} /\ match = {}
               THEN {"missing_ip_policy_range"}
               ELSE crowded \cup (CASE policy = "dhcp_reserved" -> dhcp [] policy = "static" -> static
                                    [] policy = "external" ->
                                         {c \in {"ip_policy_range_mismatch"} : match # {}}
                                    [] policy = "" -> {"missing_ip_policy_range"} [] OTHER -> {})
  IN  invalid \cup found
RangeGaps(addr, policy) == {Gap(c, "partial") : c \in RangeCodes(addr, policy)}

----------------------------------------------------------------------------
(* Endpoints.                                                               *)
\* The device whose interfaces an endpoint may use: the node's link, else the
\* single candidate its evaluation selected.  Blank is an interface with no MAC.
MacSource(s, n) == IF Realized(s, n) # NoDevice THEN {Realized(s, n)}
                   ELSE IF Cardinality(Best(s, n)) = 1 THEN Best(s, n) ELSE {}
Interfaces(s, e) == UNION {s.device[d].macs : d \in MacSource(s, EndpointNode[e])}
Macs(s, e) == Interfaces(s, e) \ {Blank}

\* static and external addresses enter IPAM only when the node itself reports them.
Eligibility(s, e) ==
  LET d == Realized(s, EndpointNode[e])
  IN  IF s.endpoint[e].policy = "dhcp_reserved" THEN "eligible"
      ELSE IF d = NoDevice \/ s.device[d].ip = Blank THEN "missing"
      ELSE IF s.device[d].ip = s.endpoint[e].addr THEN "eligible" ELSE "mismatch"

IpamGaps(s, e) ==
  LET ep == s.endpoint[e]
      rows == {i \in IpRow : s.ip[i] = ep.addr}
  IN  IF ep.link \in IpRow /\ s.ip[ep.link] # Blank
      THEN (IF ep.addr # Blank /\ s.ip[ep.link] # ep.addr
            THEN {Gap("ip_address_mismatch", "conflict")} ELSE {})
      ELSE IF ep.addr = Blank THEN {}
      ELSE CASE Eligibility(s, e) = "missing" ->
                  {Gap("ipam_reconcile_observation_missing", "needs_review")}
             [] Eligibility(s, e) = "mismatch" ->
                  {Gap("ipam_reconcile_observation_mismatch", "needs_review")}
             [] rows = {} -> {Gap("missing_actual_ip_address", "partial")}
             [] Cardinality(rows) = 1 -> {Gap("actual_ip_address_not_linked", "partial")}
             [] OTHER -> {Gap("ambiguous_ip_address_candidates", "conflict")}

WantsReservation(s, e) == /\ s.endpoint[e].policy = "dhcp_reserved"
                          /\ s.endpoint[e].dnsmasq /\ s.endpoint[e].addr # Blank
\* Mutant: two interfaces with addresses are as good as one.
MacGapsUnambiguous(s, e) ==
  IF WantsReservation(s, e) /\ Macs(s, e) = {} THEN {Gap("missing_mac_address", "partial")}
  ELSE IF s.endpoint[e].mac # Blank /\ Cardinality(Macs(s, e)) = 1 /\ s.endpoint[e].mac \notin Macs(s, e)
  THEN {Gap("desired_mac_mismatch", "conflict")} ELSE {}

\* What the interfaces and the desired MAC say of each other.
MacGaps(s, e) ==
  LET macs == Macs(s, e)
  IN  (IF ~WantsReservation(s, e) \/ Cardinality(macs) = 1 THEN {}
       ELSE IF Interfaces(s, e) = {} THEN {Gap("missing_interface_candidate", "partial")}
       ELSE IF macs = {} THEN {Gap("missing_mac_address", "partial")}
       ELSE {Gap("ambiguous_interface", "partial")})
      \cup (IF s.endpoint[e].mac # Blank /\ Cardinality(macs) = 1 /\ s.endpoint[e].mac \notin macs
            THEN {Gap("desired_mac_mismatch", "conflict")} ELSE {})

EndpointGaps(s, e) ==
  IpamGaps(s, e) \cup RangeGaps(s.endpoint[e].addr, s.endpoint[e].policy) \cup MacGaps(s, e)

\* A reservation can be written from one observed MAC when nothing else is wrong.
ReservationReady(s, e) ==
  /\ s.endpoint[e].policy = "dhcp_reserved" /\ s.endpoint[e].addr # Blank
  /\ Cardinality(Macs(s, e)) = 1
  /\ ~\E g \in EndpointGaps(s, e) :
        \/ g.severity = "conflict"
        \/ g.code \notin {"missing_actual_ip_address", "actual_ip_address_not_linked"}
=============================================================================
