--------------------------- MODULE SshEnrollProofs ---------------------------
(* The managed known_hosts store of concurrent enrollments: only keys that    *)
(* were offered and vouched for, only the enrolled host's own lines, and a     *)
(* reported host is a ready one.  The invariant carries who holds ssh.lock and  *)
(* that what a writer read is still what the file holds.                       *)
EXTENDS SshEnroll, TLAPS

------------------------------------------------------------------------------
(* Types. *)

\* A command under way has been given a request, about a node.
LEMMA NodeTyped ==
    ASSUME TypeOK, NEW p \in Enrollers,
           pc[p] \in {"scan", "verify", "decide", "write", "leaving"}
    PROVE  request[p] \in Request /\ Node(p) \in Nodes
  BY EnrollAssumption DEF TypeOK, Node, Request

\* Types survive starting, or failing to start.
LEMMA StartTypes ==
    ASSUME TypeOK, NEW p \in Enrollers, Start(p)
    PROVE  TypeOK'
<1>1. offered' \in [Nodes -> SUBSET Keys] /\ changes' \in 0..MaxChanges
  BY DEF TypeOK, Start, hosts
<1>2. /\ entries' \in [Nodes -> SUBSET Keys]
      /\ residue' \subseteq Nodes
      /\ unreadable' \in BOOLEAN
  BY DEF TypeOK, Start, file
<1>3. lock' \subseteq Enrollers
  BY DEF TypeOK, Start
<1>4. pc' \in [Enrollers -> {"idle", "scan", "verify", "decide", "write",
                             "leaving", "done", "crashed"}]
  BY DEF TypeOK, Start, Leave, Fail
<1>5. request' \in [Enrollers -> Requests \cup {NoRequest}]
  BY DEF TypeOK, Start
<1>6. \A q \in Enrollers :
        pc'[q] \in {"scan", "verify", "decide", "write", "leaving"} =>
            request'[q] \in Requests
  BY DEF TypeOK, Start, Leave, Fail
<1>7. /\ scanned' \in [Enrollers -> SUBSET Keys]
      /\ verified' \in [Enrollers -> SUBSET Keys]
  BY DEF TypeOK, Start
<1>8. lines' \in [Enrollers -> Store]
  BY DEF TypeOK, Start
<1>9. /\ outcome' \in [Enrollers -> Outcomes]
      /\ event' \in [Enrollers -> Events]
  BY DEF Outcomes, Events, TypeOK, Start, Leave, Fail
<1>10. vouched' \in [Nodes -> SUBSET Keys]
  BY DEF TypeOK, Start
<1> QED
  BY <1>1, <1>2, <1>3, <1>4, <1>5, <1>6, <1>7, <1>8, <1>9, <1>10 DEF TypeOK

\* Types survive the scan.
LEMMA ScanTypes ==
    ASSUME TypeOK, NEW p \in Enrollers, Scan(p)
    PROVE  TypeOK'
<1>1. offered' \in [Nodes -> SUBSET Keys] /\ changes' \in 0..MaxChanges
  BY DEF TypeOK, Scan, hosts
<1>2. /\ entries' \in [Nodes -> SUBSET Keys]
      /\ residue' \subseteq Nodes
      /\ unreadable' \in BOOLEAN
  BY DEF TypeOK, Scan, file
<1>3. lock' \subseteq Enrollers
  BY DEF TypeOK, Scan
<1>4. pc' \in [Enrollers -> {"idle", "scan", "verify", "decide", "write",
                             "leaving", "done", "crashed"}]
  BY DEF TypeOK, Scan, Leave, Fail
<1>5. request' \in [Enrollers -> Requests \cup {NoRequest}]
  BY DEF TypeOK, Scan
<1>6. \A q \in Enrollers :
        pc'[q] \in {"scan", "verify", "decide", "write", "leaving"} =>
            request'[q] \in Requests
  BY DEF TypeOK, Scan, Leave, Fail
<1>7. /\ scanned' \in [Enrollers -> SUBSET Keys]
      /\ verified' \in [Enrollers -> SUBSET Keys]
  BY NodeTyped DEF TypeOK, Scan
<1>8. lines' \in [Enrollers -> Store]
  BY DEF TypeOK, Scan
<1>9. /\ outcome' \in [Enrollers -> Outcomes]
      /\ event' \in [Enrollers -> Events]
  BY DEF Outcomes, Events, TypeOK, Scan, Leave, Fail, reports
<1>10. vouched' \in [Nodes -> SUBSET Keys]
  BY DEF TypeOK, Scan
<1> QED
  BY <1>1, <1>2, <1>3, <1>4, <1>5, <1>6, <1>7, <1>8, <1>9, <1>10 DEF TypeOK

\* Types survive the evidence: keys in hand, and vouched for.
LEMMA VerifyTypes ==
    ASSUME TypeOK, NEW p \in Enrollers, Verify(p)
    PROVE  TypeOK'
<1>1. offered' \in [Nodes -> SUBSET Keys] /\ changes' \in 0..MaxChanges
  BY DEF TypeOK, Verify, hosts
<1>2. /\ entries' \in [Nodes -> SUBSET Keys]
      /\ residue' \subseteq Nodes
      /\ unreadable' \in BOOLEAN
  BY DEF TypeOK, Verify, file
<1>3. lock' \subseteq Enrollers
  BY DEF TypeOK, Verify
<1>4. pc' \in [Enrollers -> {"idle", "scan", "verify", "decide", "write",
                             "leaving", "done", "crashed"}]
  BY DEF TypeOK, Verify, Leave, Fail
<1>5. request' \in [Enrollers -> Requests \cup {NoRequest}]
  BY DEF TypeOK, Verify
<1>6. \A q \in Enrollers :
        pc'[q] \in {"scan", "verify", "decide", "write", "leaving"} =>
            request'[q] \in Requests
  BY DEF TypeOK, Verify, Leave, Fail
<1>7. /\ scanned' \in [Enrollers -> SUBSET Keys]
      /\ verified' \in [Enrollers -> SUBSET Keys]
  BY DEF TypeOK, Verify, Verified
<1>8. lines' \in [Enrollers -> Store]
  BY DEF TypeOK, Verify
<1>9. /\ outcome' \in [Enrollers -> Outcomes]
      /\ event' \in [Enrollers -> Events]
  BY DEF Outcomes, Events, TypeOK, Verify, Leave, Fail, reports
<1>10. vouched' \in [Nodes -> SUBSET Keys]
  BY DEF TypeOK, Verify
<1> QED
  BY <1>1, <1>2, <1>3, <1>4, <1>5, <1>6, <1>7, <1>8, <1>9, <1>10 DEF TypeOK

\* Types survive the decision on the store as it is now.
LEMMA DecideTypes ==
    ASSUME TypeOK, NEW p \in Enrollers, Decide(p)
    PROVE  TypeOK'
<1>1. offered' \in [Nodes -> SUBSET Keys] /\ changes' \in 0..MaxChanges
  BY DEF TypeOK, Decide, hosts
<1>2. /\ entries' \in [Nodes -> SUBSET Keys]
      /\ residue' \subseteq Nodes
      /\ unreadable' \in BOOLEAN
  BY DEF TypeOK, Decide, file
<1>3. lock' \subseteq Enrollers
  BY DEF TypeOK, Decide
<1>4. pc' \in [Enrollers -> {"idle", "scan", "verify", "decide", "write",
                             "leaving", "done", "crashed"}]
  BY DEF TypeOK, Decide, Leave, Fail
<1>5. request' \in [Enrollers -> Requests \cup {NoRequest}]
  BY DEF TypeOK, Decide
<1>6. \A q \in Enrollers :
        pc'[q] \in {"scan", "verify", "decide", "write", "leaving"} =>
            request'[q] \in Requests
  BY DEF TypeOK, Decide, Leave, Fail
<1>7. /\ scanned' \in [Enrollers -> SUBSET Keys]
      /\ verified' \in [Enrollers -> SUBSET Keys]
  BY DEF TypeOK, Decide
<1>8. lines' \in [Enrollers -> Store]
  <2>1. [entries |-> entries, residue |-> residue] \in Store
    BY DEF TypeOK, Store
  <2>2. lines' \in {lines, [lines EXCEPT
                               ![p] = [entries |-> entries, residue |-> residue]]}
    BY DEF Decide
  <2> QED
    BY <2>1, <2>2 DEF TypeOK
<1>9. /\ outcome' \in [Enrollers -> Outcomes]
      /\ event' \in [Enrollers -> Events]
  BY DEF Outcomes, Events, TypeOK, Decide, Leave, Fail, Action, reports
<1>10. vouched' \in [Nodes -> SUBSET Keys]
  BY DEF TypeOK, Decide
<1> QED
  BY <1>1, <1>2, <1>3, <1>4, <1>5, <1>6, <1>7, <1>8, <1>9, <1>10 DEF TypeOK

\* Types survive the write.
LEMMA WriteTypes ==
    ASSUME TypeOK, NEW p \in Enrollers, Write(p)
    PROVE  TypeOK'
<1>1. offered' \in [Nodes -> SUBSET Keys] /\ changes' \in 0..MaxChanges
  BY DEF TypeOK, Write, hosts
<1>2. /\ entries' \in [Nodes -> SUBSET Keys]
      /\ residue' \subseteq Nodes
      /\ unreadable' \in BOOLEAN
  <2>1. Node(p) \in Nodes /\ lines[p] \in Store /\ verified[p] \in SUBSET Keys
    BY NodeTyped DEF TypeOK, Write
  <2>2. /\ lines[p].entries \in [Nodes -> SUBSET Keys]
        /\ lines[p].residue \subseteq Nodes
    BY <2>1 DEF Store
  <2> QED
    BY <2>1, <2>2 DEF TypeOK, Write, file
<1>3. lock' \subseteq Enrollers
  BY DEF TypeOK, Write
<1>4. pc' \in [Enrollers -> {"idle", "scan", "verify", "decide", "write",
                             "leaving", "done", "crashed"}]
  BY DEF TypeOK, Write, Leave, Fail
<1>5. request' \in [Enrollers -> Requests \cup {NoRequest}]
  BY DEF TypeOK, Write, locals
<1>6. \A q \in Enrollers :
        pc'[q] \in {"scan", "verify", "decide", "write", "leaving"} =>
            request'[q] \in Requests
  BY DEF TypeOK, Write, Leave, Fail, locals
<1>7. /\ scanned' \in [Enrollers -> SUBSET Keys]
      /\ verified' \in [Enrollers -> SUBSET Keys]
  BY DEF TypeOK, Write, locals
<1>8. lines' \in [Enrollers -> Store]
  BY DEF TypeOK, Write, locals
<1>9. /\ outcome' \in [Enrollers -> Outcomes]
      /\ event' \in [Enrollers -> Events]
  BY DEF Outcomes, Events, TypeOK, Write, Leave, Fail
<1>10. vouched' \in [Nodes -> SUBSET Keys]
  BY DEF TypeOK, Write
<1> QED
  BY <1>1, <1>2, <1>3, <1>4, <1>5, <1>6, <1>7, <1>8, <1>9, <1>10 DEF TypeOK

\* Types survive the end of a command, with its lock.
LEMMA ReturnTypes ==
    ASSUME TypeOK, NEW p \in Enrollers, Return(p)
    PROVE  TypeOK'
<1>1. offered' \in [Nodes -> SUBSET Keys] /\ changes' \in 0..MaxChanges
  BY DEF TypeOK, Return, hosts, NoStore
<1>2. /\ entries' \in [Nodes -> SUBSET Keys]
      /\ residue' \subseteq Nodes
      /\ unreadable' \in BOOLEAN
  BY DEF TypeOK, Return, file, NoStore
<1>3. lock' \subseteq Enrollers
  BY DEF TypeOK, Return, NoStore
<1>4. pc' \in [Enrollers -> {"idle", "scan", "verify", "decide", "write",
                             "leaving", "done", "crashed"}]
  BY DEF TypeOK, Return, NoStore
<1>5. request' \in [Enrollers -> Requests \cup {NoRequest}]
  BY DEF TypeOK, Return, Forget, NoStore
<1>6. \A q \in Enrollers :
        pc'[q] \in {"scan", "verify", "decide", "write", "leaving"} =>
            request'[q] \in Requests
  BY DEF TypeOK, Return, Forget, NoStore
<1>7. /\ scanned' \in [Enrollers -> SUBSET Keys]
      /\ verified' \in [Enrollers -> SUBSET Keys]
  BY DEF TypeOK, Return, Forget, NoStore
<1>8. lines' \in [Enrollers -> Store]
  BY DEF TypeOK, Return, Forget, Store, NoStore
<1>9. /\ outcome' \in [Enrollers -> Outcomes]
      /\ event' \in [Enrollers -> Events]
  BY DEF Outcomes, Events, TypeOK, Return, Forget, NoStore
<1>10. vouched' \in [Nodes -> SUBSET Keys]
  BY DEF TypeOK, Return, NoStore
<1> QED
  BY <1>1, <1>2, <1>3, <1>4, <1>5, <1>6, <1>7, <1>8, <1>9, <1>10 DEF TypeOK

\* Types survive the death of a command.
LEMMA CrashTypes ==
    ASSUME TypeOK, NEW p \in Enrollers, Crash(p)
    PROVE  TypeOK'
<1>1. offered' \in [Nodes -> SUBSET Keys] /\ changes' \in 0..MaxChanges
  BY DEF TypeOK, Crash, hosts, NoStore
<1>2. /\ entries' \in [Nodes -> SUBSET Keys]
      /\ residue' \subseteq Nodes
      /\ unreadable' \in BOOLEAN
  BY DEF TypeOK, Crash, file, NoStore
<1>3. lock' \subseteq Enrollers
  BY DEF TypeOK, Crash, NoStore
<1>4. pc' \in [Enrollers -> {"idle", "scan", "verify", "decide", "write",
                             "leaving", "done", "crashed"}]
  BY DEF TypeOK, Crash, NoStore
<1>5. request' \in [Enrollers -> Requests \cup {NoRequest}]
  BY DEF TypeOK, Crash, Forget, NoStore
<1>6. \A q \in Enrollers :
        pc'[q] \in {"scan", "verify", "decide", "write", "leaving"} =>
            request'[q] \in Requests
  BY DEF TypeOK, Crash, Forget, NoStore
<1>7. /\ scanned' \in [Enrollers -> SUBSET Keys]
      /\ verified' \in [Enrollers -> SUBSET Keys]
  BY DEF TypeOK, Crash, Forget, NoStore
<1>8. lines' \in [Enrollers -> Store]
  BY DEF TypeOK, Crash, Forget, Store, NoStore
<1>9. /\ outcome' \in [Enrollers -> Outcomes]
      /\ event' \in [Enrollers -> Events]
  BY DEF Outcomes, Events, TypeOK, Crash, Forget, NoStore
<1>10. vouched' \in [Nodes -> SUBSET Keys]
  BY DEF TypeOK, Crash, NoStore
<1> QED
  BY <1>1, <1>2, <1>3, <1>4, <1>5, <1>6, <1>7, <1>8, <1>9, <1>10 DEF TypeOK

------------------------------------------------------------------------------
(* The steps of a command. *)

\* The invariant survives starting, or failing to start.
LEMMA StartKeeps ==
    ASSUME EnrollInv, NEW p \in Enrollers, Start(p)
    PROVE  EnrollInv'
<1>t. TypeOK'
  BY StartTypes DEF EnrollInv
<1>1. HoldsLock'
  <2> SUFFICES ASSUME NEW q \in Enrollers, request'[q].apply,
                      pc'[q] \in {"scan", "verify", "decide", "write"}
               PROVE  lock' = {q}
    BY DEF HoldsLock
  <2>1. PICK given \in Requests :
            /\ request' = [request EXCEPT ![p] = given]
            /\ \/ pc'[p] = "leaving" /\ lock' = lock
               \/ /\ given.apply => lock = {}
                  /\ lock' = IF given.apply THEN {p} ELSE lock
    BY DEF EnrollInv, TypeOK, Start, Leave, Fail, LockFree
  <2>2. CASE q = p
    BY <2>1, <2>2 DEF EnrollInv, TypeOK
  <2>3. CASE q # p
    <3>1. pc'[q] = pc[q] /\ request'[q] = request[q]
      BY <2>3 DEF EnrollInv, TypeOK, Start, Leave, Fail
    <3>2. lock = {q}
      BY <3>1 DEF EnrollInv, HoldsLock
    <3> QED
      BY <2>1, <3>2
  <2> QED
    BY <2>2, <2>3
<1>2. KeysInHand'
  BY DEF EnrollInv, TypeOK, KeysInHand, Start, Leave, Fail, Node
<1>3. WriteReady'
  BY DEF EnrollInv, TypeOK, WriteReady, Start, Leave, Fail, file, Node
<1>4. ReportsLocked'
  <2> SUFFICES ASSUME NEW q \in Enrollers, pc'[q] = "leaving", request'[q].apply,
                      outcome'[q] \in {"applied", "noop"}
               PROVE  lock' = {q}
    BY DEF ReportsLocked
  <2>1. q # p
    BY DEF EnrollInv, TypeOK, Start, Leave, Fail
  <2>2. pc'[q] = pc[q] /\ request'[q] = request[q] /\ outcome'[q] = outcome[q]
    BY <2>1 DEF EnrollInv, TypeOK, Start, Leave, Fail
  <2>3. lock = {q}
    BY <2>2 DEF EnrollInv, ReportsLocked
  <2> QED
    BY <2>3 DEF Start, LockFree
<1>5. TrustedOnly'
  BY DEF EnrollInv, TypeOK, TrustedOnly, Start, file
<1>6. EnrolledIsReady'
  BY DEF EnrollInv, TypeOK, EnrolledIsReady, Start, Leave, Fail, file, Node
<1> QED
  BY <1>t, <1>1, <1>2, <1>3, <1>4, <1>5, <1>6 DEF EnrollInv

\* The invariant survives the scan.
LEMMA ScanKeeps ==
    ASSUME EnrollInv, NEW p \in Enrollers, Scan(p)
    PROVE  EnrollInv'
<1>t. TypeOK'
  BY ScanTypes DEF EnrollInv
<1>1. HoldsLock'
  BY DEF EnrollInv, TypeOK, HoldsLock, Scan, Leave, Fail
<1>2. KeysInHand'
  BY DEF EnrollInv, TypeOK, KeysInHand, Scan, Leave, Fail, Node
<1>3. WriteReady'
  BY DEF EnrollInv, TypeOK, WriteReady, Scan, Leave, Fail, file, Node
<1>4. ReportsLocked'
  BY DEF EnrollInv, TypeOK, ReportsLocked, Scan, Leave, Fail, reports
<1>5. TrustedOnly'
  BY DEF EnrollInv, TypeOK, TrustedOnly, Scan, file
<1>6. EnrolledIsReady'
  BY DEF EnrollInv, TypeOK, EnrolledIsReady, Scan, Leave, Fail, file, reports, Node
<1> QED
  BY <1>t, <1>1, <1>2, <1>3, <1>4, <1>5, <1>6 DEF EnrollInv

\* The invariant survives the evidence: keys in hand, and vouched for.
LEMMA VerifyKeeps ==
    ASSUME EnrollInv, NEW p \in Enrollers, Verify(p)
    PROVE  EnrollInv'
<1>t. TypeOK'
  BY VerifyTypes DEF EnrollInv
<1>1. HoldsLock'
  BY DEF EnrollInv, TypeOK, HoldsLock, Verify, Leave, Fail
<1>2. KeysInHand'
  <2> SUFFICES ASSUME NEW q \in Enrollers, pc'[q] \in {"decide", "write"}
               PROVE  /\ verified'[q] # {} /\ verified'[q] \subseteq scanned'[q]
                      /\ verified'[q] \subseteq vouched'[Node(q)']
    BY DEF KeysInHand
  <2>1. Node(q)' = Node(q) /\ scanned' = scanned
    BY DEF Verify, Node
  <2>2. CASE q = p
    <3>1. /\ Verified(scanned[p], request[p].evidence) # {}
          /\ verified' = [verified EXCEPT
                 ![p] = Verified(scanned[p], request[p].evidence)]
          /\ vouched' = [vouched EXCEPT ![Node(p)] =
                 @ \cup (scanned[p] \cap request[p].evidence)]
      BY <2>2 DEF EnrollInv, TypeOK, Verify, Leave, Fail
    <3>2. verified'[p] = scanned[p] \cap request[p].evidence
      BY <3>1 DEF EnrollInv, TypeOK, Verified
    <3>3. Node(p) \in Nodes
      BY NodeTyped DEF EnrollInv, Verify
    <3>4. scanned[p] \cap request[p].evidence \subseteq vouched'[Node(p)]
      BY <3>1, <3>3 DEF EnrollInv, TypeOK
    <3> QED
      BY <2>1, <2>2, <3>1, <3>2, <3>4 DEF Verified
  <2>3. CASE q # p
    <3>1. pc'[q] = pc[q] /\ verified'[q] = verified[q]
      BY <2>3 DEF EnrollInv, TypeOK, Verify, Leave, Fail
    <3>2. \A n \in Nodes : vouched[n] \subseteq vouched'[n]
      BY DEF EnrollInv, TypeOK, Verify
    <3>3. Node(q) \in Nodes
      BY <3>1, NodeTyped DEF EnrollInv
    <3>4. /\ verified[q] # {} /\ verified[q] \subseteq scanned[q]
          /\ verified[q] \subseteq vouched[Node(q)]
      BY <3>1 DEF EnrollInv, KeysInHand
    <3> QED
      BY <2>1, <3>1, <3>2, <3>3, <3>4
  <2> QED
    BY <2>2, <2>3
<1>3. WriteReady'
  BY DEF EnrollInv, TypeOK, WriteReady, Verify, Leave, Fail, file, Node
<1>4. ReportsLocked'
  BY DEF EnrollInv, TypeOK, ReportsLocked, Verify, Leave, Fail, reports
<1>5. TrustedOnly'
  BY DEF EnrollInv, TypeOK, TrustedOnly, Verify, file
<1>6. EnrolledIsReady'
  BY DEF EnrollInv, TypeOK, EnrolledIsReady, Verify, Leave, Fail, file, reports,
      Node
<1> QED
  BY <1>t, <1>1, <1>2, <1>3, <1>4, <1>5, <1>6 DEF EnrollInv

\* The invariant survives the decision on the store as it is now.
LEMMA DecideKeeps ==
    ASSUME EnrollInv, NEW p \in Enrollers, Decide(p)
    PROVE  EnrollInv'
<1>t. TypeOK'
  BY DecideTypes DEF EnrollInv
<1>1. HoldsLock'
  BY DEF EnrollInv, TypeOK, HoldsLock, Decide, Leave, Fail
<1>2. KeysInHand'
  BY DEF EnrollInv, TypeOK, KeysInHand, Decide, Leave, Fail, Node
<1>3. WriteReady'
  BY DEF EnrollInv, TypeOK, WriteReady, Decide, Leave, Fail, Refused, Action,
      Existing, file, Node
<1>4. ReportsLocked'
  BY DEF EnrollInv, TypeOK, ReportsLocked, HoldsLock, Decide, Leave, Fail, reports
<1>5. TrustedOnly'
  BY DEF EnrollInv, TypeOK, TrustedOnly, Decide, file
<1>6. EnrolledIsReady'
  BY DEF EnrollInv, TypeOK, EnrolledIsReady, KeysInHand, Decide, Leave, Fail,
      Action, Existing, file, reports, Node
<1> QED
  BY <1>t, <1>1, <1>2, <1>3, <1>4, <1>5, <1>6 DEF EnrollInv

\* The invariant survives the write.
LEMMA WriteKeeps ==
    ASSUME EnrollInv, NEW p \in Enrollers, Write(p)
    PROVE  EnrollInv'
<1>t. TypeOK'
  BY WriteTypes DEF EnrollInv
<1>w. /\ lock = {p} /\ request[p].apply /\ Node(p) \in Nodes
      /\ lines[p].entries = entries /\ lines[p].residue = residue
      /\ verified[p] # {} /\ verified[p] \subseteq scanned[p]
      /\ verified[p] \subseteq vouched[Node(p)]
  BY NodeTyped DEF EnrollInv, HoldsLock, WriteReady, KeysInHand, Write
<1>1. HoldsLock'
  BY DEF EnrollInv, TypeOK, HoldsLock, Write, Leave, Fail, locals
<1>2. KeysInHand'
  BY DEF EnrollInv, TypeOK, KeysInHand, Write, Leave, Fail, locals, Node
<1>3. WriteReady'
  <2> SUFFICES ASSUME NEW q \in Enrollers, pc'[q] = "write"
               PROVE  FALSE
    BY DEF WriteReady
  <2>1. q # p /\ pc[q] = "write"
    BY DEF EnrollInv, TypeOK, Write, Leave, Fail
  <2>2. lock = {q}
    BY <2>1 DEF EnrollInv, HoldsLock, WriteReady
  <2> QED
    BY <1>w, <2>1, <2>2
<1>4. ReportsLocked'
  BY DEF EnrollInv, TypeOK, ReportsLocked, HoldsLock, Write, Leave, Fail, locals
<1>5. TrustedOnly'
  <2>1. vouched' = vouched
    BY DEF Write
  <2>2. entries' \in {entries, [entries EXCEPT ![Node(p)] = verified[p]]}
    BY <1>w DEF Write, file
  <2>3. \A n \in Nodes : entries[n] \subseteq vouched[n]
    BY DEF EnrollInv, TrustedOnly
  <2>4. entries \in [Nodes -> SUBSET Keys]
    BY DEF EnrollInv, TypeOK
  <2> QED
    BY <1>w, <2>1, <2>2, <2>3, <2>4 DEF TrustedOnly
<1>6. EnrolledIsReady'
  <2> SUFFICES ASSUME NEW q \in Enrollers, pc'[q] = "leaving", request'[q].apply,
                      outcome'[q] \in {"applied", "noop"}
               PROVE  /\ entries'[Node(q)'] \cap scanned'[q] # {}
                      /\ outcome'[q] = "applied" => Node(q)' \notin residue' \cap OddPort
    BY DEF EnrolledIsReady
  <2>1. Node(q)' = Node(q) /\ scanned' = scanned /\ request' = request
    BY DEF Write, Node, locals
  <2>2. CASE q = p
    <3>1. /\ entries' = [entries EXCEPT ![Node(p)] = verified[p]]
          /\ residue' = residue \ ({Node(p)} \cap OddPort)
      BY <1>w, <2>2 DEF EnrollInv, TypeOK, Write, Leave, Fail
    <3>2. entries'[Node(p)] = verified[p]
      BY <1>w, <3>1 DEF EnrollInv, TypeOK
    <3>3. Node(p) \notin residue' \cap OddPort
      BY <3>1
    <3> QED
      BY <1>w, <2>1, <2>2, <3>2, <3>3
  <2>3. CASE q # p
    <3>1. pc[q] = "leaving" /\ outcome[q] \in {"applied", "noop"}
      BY <2>3 DEF EnrollInv, TypeOK, Write, Leave, Fail
    <3>2. lock = {q}
      BY <2>1, <3>1 DEF EnrollInv, ReportsLocked
    <3> QED
      BY <1>w, <2>3, <3>2
  <2> QED
    BY <2>2, <2>3
<1> QED
  BY <1>t, <1>1, <1>2, <1>3, <1>4, <1>5, <1>6 DEF EnrollInv

\* The invariant survives the end of a command, with its lock.
LEMMA ReturnKeeps ==
    ASSUME EnrollInv, NEW p \in Enrollers, Return(p)
    PROVE  EnrollInv'
<1>t. TypeOK'
  BY ReturnTypes DEF EnrollInv
<1>1. HoldsLock'
  BY DEF EnrollInv, TypeOK, HoldsLock, Return, Forget
<1>2. KeysInHand'
  BY DEF EnrollInv, TypeOK, KeysInHand, Return, Forget, Node
<1>3. WriteReady'
  BY DEF EnrollInv, TypeOK, WriteReady, Return, Forget, file, Node
<1>4. ReportsLocked'
  BY DEF EnrollInv, TypeOK, ReportsLocked, Return, Forget
<1>5. TrustedOnly'
  BY DEF EnrollInv, TypeOK, TrustedOnly, Return, file
<1>6. EnrolledIsReady'
  BY DEF EnrollInv, TypeOK, EnrolledIsReady, Return, Forget, file, Node
<1> QED
  BY <1>t, <1>1, <1>2, <1>3, <1>4, <1>5, <1>6 DEF EnrollInv

\* The invariant survives the death of a command.
LEMMA CrashKeeps ==
    ASSUME EnrollInv, NEW p \in Enrollers, Crash(p)
    PROVE  EnrollInv'
<1>t. TypeOK'
  BY CrashTypes DEF EnrollInv
<1>1. HoldsLock'
  BY DEF EnrollInv, TypeOK, HoldsLock, Crash, Forget
<1>2. KeysInHand'
  BY DEF EnrollInv, TypeOK, KeysInHand, Crash, Forget, Node
<1>3. WriteReady'
  BY DEF EnrollInv, TypeOK, WriteReady, Crash, Forget, file, Node
<1>4. ReportsLocked'
  BY DEF EnrollInv, TypeOK, ReportsLocked, Crash, Forget
<1>5. TrustedOnly'
  BY DEF EnrollInv, TypeOK, TrustedOnly, Crash, file
<1>6. EnrolledIsReady'
  BY DEF EnrollInv, TypeOK, EnrolledIsReady, Crash, Forget, file, Node
<1> QED
  BY <1>t, <1>1, <1>2, <1>3, <1>4, <1>5, <1>6 DEF EnrollInv

------------------------------------------------------------------------------
(* The rest, and the theorems. *)

\* A host that changes its keys, a hand edit and a stutter keep the invariant.
LEMMA SurroundingsKeep ==
    ASSUME EnrollInv,
           (\E n \in Nodes : ChangeKeys(n)) \/ SpoilFile \/ AllOver \/ UNCHANGED vars
    PROVE  EnrollInv'
<1>1. CASE \E n \in Nodes : ChangeKeys(n)
  <2>1. TypeOK'
    BY <1>1, EnrollAssumption DEF EnrollInv, TypeOK, ChangeKeys, file, locals,
        reports
  <2> QED
    BY <1>1, <2>1 DEF EnrollInv, HoldsLock, KeysInHand, WriteReady, ReportsLocked,
        TrustedOnly, EnrolledIsReady, Node, ChangeKeys, file, locals, reports
<1>2. CASE SpoilFile
  <2>1. TypeOK'
    BY <1>2, EnrollAssumption DEF EnrollInv, TypeOK, SpoilFile, locals, reports
  <2> QED
    BY <1>2, <2>1 DEF EnrollInv, HoldsLock, KeysInHand, WriteReady, ReportsLocked,
        TrustedOnly, EnrolledIsReady, Node, SpoilFile, locals, reports
<1>3. CASE AllOver \/ UNCHANGED vars
  <2>1. TypeOK'
    BY <1>3 DEF EnrollInv, TypeOK, AllOver, vars, hosts, file, locals, reports
  <2> QED
    BY <1>3, <2>1 DEF EnrollInv, HoldsLock, KeysInHand, WriteReady, ReportsLocked,
        TrustedOnly, EnrolledIsReady, Node, AllOver, vars, hosts, file, locals, reports
<1> QED
  BY <1>1, <1>2, <1>3

\* The inductive invariant: for any hosts, keys, requests and commands, whoever
\* is past the start of an --yes enrollment holds the lock alone, holds keys that
\* were offered and vouched for, and writes over what it read.
THEOREM EnrollInductive == Spec => []EnrollInv
<1>1. Init => EnrollInv
  <2> SUFFICES ASSUME Init PROVE EnrollInv
    OBVIOUS
  <2>1. /\ offered \in [Nodes -> SUBSET Keys] /\ changes \in 0..MaxChanges
        /\ residue \subseteq Nodes
    BY EnrollAssumption DEF Init
  <2>2. NoStore \in Store
    BY DEF Store, NoStore
  <2>3. outcome \in [Enrollers -> Outcomes] /\ event \in [Enrollers -> Events]
    BY DEF Init, Outcomes, Events
  <2>4. TypeOK
    BY <2>1, <2>2, <2>3 DEF Init, TypeOK
  <2> QED
    BY <2>4 DEF Init, EnrollInv, HoldsLock, KeysInHand, WriteReady, ReportsLocked,
        TrustedOnly, EnrolledIsReady
<1>2. EnrollInv /\ [Next]_vars => EnrollInv'
  <2> SUFFICES ASSUME EnrollInv, [Next]_vars PROVE EnrollInv'
    OBVIOUS
  <2>1. CASE \E p \in Enrollers : Step(p) \/ Crash(p)
    BY <2>1, StartKeeps, ScanKeeps, VerifyKeeps, DecideKeeps, WriteKeeps,
        ReturnKeeps,
       CrashKeeps DEF Step
  <2> QED
    BY <2>1, SurroundingsKeep DEF Next
<1> QED
  BY <1>1, <1>2, PTL DEF Spec

\* The types of every variable.
THEOREM EnrollTypeCorrect == Spec => []TypeOK
  <1>1. EnrollInv => TypeOK
    BY DEF EnrollInv
  <1> QED
    BY <1>1, EnrollInductive, PTL

\* No key enters the store that was not both offered and vouched for
\* (select_verified_offered_keys).
THEOREM OnlyTrustedKeys == Spec => []TrustedOnly
  <1>1. EnrollInv => TrustedOnly
    BY DEF EnrollInv
  <1> QED
    BY <1>1, EnrollInductive, PTL

\* What an --yes enrollment reports as applied or noop is a key its host offered,
\* under the name connections look up.
THEOREM ReportedIsReady == Spec => []EnrolledIsReady
  <1>1. EnrollInv => EnrolledIsReady
    BY DEF EnrollInv
  <1> QED
    BY <1>1, EnrollInductive, PTL

\* A command that rewrites the whole file changes the lines of its own host and of
\* no other, and lines already there only with --replace.
THEOREM OwnLinesOnly == Spec => OnlyOwnLines
<1> DEFINE Own == \A n \in Nodes : entries'[n] # entries[n] =>
           \E p \in Enrollers : /\ pc[p] = "write" /\ Node(p) = n
                                /\ request[p].apply
                                /\ entries[n] = {} \/ request[p].replace
<1>1. EnrollInv /\ [Next]_vars => [Own]_vars
  <2> SUFFICES ASSUME EnrollInv, Next PROVE Own
    OBVIOUS
  <2>1. ASSUME NEW p \in Enrollers, Write(p) PROVE Own
    <3>1. /\ lines[p].entries = entries /\ request[p].apply /\ pc[p] = "write"
          /\ entries[Node(p)] = {} \/ request[p].replace
      BY <2>1 DEF EnrollInv, WriteReady, Write
    <3>2. entries' \in {entries, [entries EXCEPT ![Node(p)] = verified[p]]}
      BY <2>1, <3>1 DEF Write, file
    <3>3. \A n \in Nodes : entries'[n] # entries[n] => n = Node(p)
      BY <3>2 DEF EnrollInv, TypeOK
    <3> QED
      BY <3>1, <3>3
  <2>2. CASE entries' = entries
    BY <2>2
  <2>3. \/ entries' = entries
        \/ \E p \in Enrollers : Write(p)
    BY DEF Next, Step, Start, Scan, Verify, Decide, Return, Crash, ChangeKeys,
        SpoilFile,
        AllOver, file, vars
  <2> QED
    BY <2>1, <2>2, <2>3
<1> QED
  BY <1>1, EnrollInductive, PTL DEF Spec, OnlyOwnLines
=============================================================================
