------------------------------ MODULE SshEnroll ------------------------------
(***************************************************************************)
(* `nctl ssh enroll` (src/nctl_core/ssh_enroll.py): several operators add    *)
(* hosts to the managed known_hosts store while hosts change their keys and  *)
(* a hand edit may spoil the file.                                           *)
(*                                                                          *)
(* An enrollment scans what the host offers, keeps the keys the operator has *)
(* evidence for, reads the store and, with --yes, writes it back whole.  Only *)
(* --yes takes the ssh lock.  The file is the set of its lines; a line is a   *)
(* key under the alias of a node, or residue under the old [alias]:port name. *)
(***************************************************************************)
EXTENDS Naturals, FiniteSets

CONSTANTS
    Nodes,          \* DesiredNodes with an mDNS endpoint; an alias each
    Keys,           \* host keys
    OddPort,        \* nodes whose ssh port is not 22
    Enrollers,      \* `nctl ssh enroll` commands
    Requests,       \* the arguments they may be given
    NoRequest,      \* not given yet, or no longer
    MaxChanges      \* bound on key changes and hand edits

\* HOST; the keys known_hosts and --fingerprint vouch for; --replace; --yes.
Request == [node : Nodes, evidence : SUBSET Keys, replace : BOOLEAN,
            apply : BOOLEAN]

ASSUME EnrollAssumption == /\ OddPort \subseteq Nodes
                           /\ Requests \subseteq Request /\ NoRequest \notin Request
                           /\ MaxChanges \in Nat

VARIABLES
    offered,    \* [Nodes -> SUBSET Keys], what a host offers; {} is nothing
    entries,    \* [Nodes -> SUBSET Keys], the lines under the bare alias
    residue,    \* nodes with an obsolete [alias]:port line
    unreadable, \* some line does not parse
    changes,    \* key changes and hand edits so far
    lock,       \* {} or {the command holding ssh.lock}
    pc,         \* per command
    request,    \* per command: its arguments
    scanned,    \* per command: the keys it saw offered
    verified,   \* per command: those it has evidence for
    lines,      \* per command: the store as it read it
    outcome,    \* per command: data.action, "applied", or an error code
    event,      \* per command: the last event of its log
    vouched     \* history: keys an operator's evidence and a scan agreed on

hosts == <<offered, changes>>
file == <<entries, residue, unreadable>>
locals == <<request, scanned, verified, lines>>
reports == <<outcome, event>>
vars == <<hosts, file, lock, pc, locals, reports, vouched>>

Store == [entries : [Nodes -> SUBSET Keys], residue : SUBSET Nodes]

\* data.action or an error code, and the events of a log.  "unresolved" stands
\* for the token, fetch, unknown host and missing endpoint errors.
Outcomes ==
    {"none", "enroll", "noop", "conflict", "applied", "unresolved",
     "ssh_lock_contention", "ssh_probe_failed", "host_key_unverified",
     "ssh_store_read_failed", "host_key_conflict", "ssh_store_write_failed"}
Events == {"none", "started", "failed", "decided", "planned", "applied"}

Node(p) == request[p].node

------------------------------------------------------------------------------
(* The decisions. *)

\* Variant: what a scan saw needs no evidence once some evidence was given.
VerifiedByAny(offers, evidence) == IF evidence = {} THEN {} ELSE offers

\* select_verified_offered_keys
Verified(offers, evidence) == offers \cap evidence

\* ManagedSshStore.entries_for
Existing(store, n) == store.entries[n]

\* Variant: whatever is enrolled is good enough.
ActionIfAny(store, n, keys) == IF Existing(store, n) = {} THEN "enroll" ELSE "noop"

\* "enroll", "noop" or "conflict"
Action(store, n, keys) ==
    CASE Existing(store, n) = {} -> "enroll"
      [] Existing(store, n) # {} /\ Existing(store, n) = keys -> "noop"
      [] OTHER -> "conflict"

\* Variant: a conflict is only reported by the dry plan.
RefusedWhenDry(p, action) ==
    action = "conflict" /\ ~request[p].replace /\ ~request[p].apply

\* A different key is enrolled and --replace was not given.
Refused(p, action) == action = "conflict" /\ ~request[p].replace

\* Variant: the lock is shared by the commands.
LockShared(p) == TRUE

\* flock(LOCK_EX | LOCK_NB)
LockFree(p) == lock = {}

------------------------------------------------------------------------------
(* Leaving a command. *)

Leave(p, what, last) == /\ pc' = [pc EXCEPT ![p] = "leaving"]
                        /\ outcome' = [outcome EXCEPT ![p] = what]
                        /\ event' = [event EXCEPT ![p] = last]

\* Variant: the envelope carries no error.
FailSilently(p, code) == Leave(p, "ok", "failed")

\* _fail
Fail(p, code) == Leave(p, code, "failed")

NoStore == [entries |-> [n \in Nodes |-> {}], residue |-> {}]

\* What a command knew ends with it.
Forget(p) == /\ scanned' = [scanned EXCEPT ![p] = {}]
             /\ verified' = [verified EXCEPT ![p] = {}]
             /\ lines' = [lines EXCEPT ![p] = NoStore]
             /\ request' = [request EXCEPT ![p] = NoRequest]
             /\ outcome' = [outcome EXCEPT ![p] = "none"]
             /\ event' = [event EXCEPT ![p] = "none"]

Init ==
    /\ offered \in [Nodes -> (SUBSET Keys) \ {{}}] /\ changes = 0
    /\ entries \in [Nodes -> SUBSET Keys]
    /\ residue \in SUBSET OddPort /\ unreadable = FALSE
    /\ lock = {}
    /\ pc = [p \in Enrollers |-> "idle"]
    /\ request = [p \in Enrollers |-> NoRequest]
    /\ scanned = [p \in Enrollers |-> {}] /\ verified = [p \in Enrollers |-> {}]
    /\ lines = [p \in Enrollers |-> NoStore]
    /\ outcome = [p \in Enrollers |-> "none"] /\ event = [p \in Enrollers |-> "none"]
    /\ vouched = entries

\* build_ssh_enroll up to the choice of mode: the node and its endpoint are
\* looked up, which may fail; --yes takes the lock or gives up at once.
Start(p) ==
    /\ pc[p] = "idle"
    /\ \E given \in Requests :
          /\ request' = [request EXCEPT ![p] = given]
          /\ \/ /\ Fail(p, "unresolved")
                /\ UNCHANGED lock
             \/ /\ given.apply /\ ~LockFree(p)
                /\ Fail(p, "ssh_lock_contention")
                /\ UNCHANGED lock
             \/ /\ given.apply => LockFree(p)
                /\ lock' = IF given.apply THEN {p} ELSE lock
                /\ pc' = [pc EXCEPT ![p] = "scan"]
                /\ event' = [event EXCEPT ![p] = "started"]
                /\ UNCHANGED outcome
    /\ UNCHANGED <<hosts, file, scanned, verified, lines, vouched>>

\* scan_offered_keys: it fails, or some of the keys offered, or none, are seen.
Scan(p) ==
    /\ pc[p] = "scan"
    /\ \/ /\ Fail(p, "ssh_probe_failed")
          /\ UNCHANGED scanned
       \/ /\ \E keys \in SUBSET offered[Node(p)] :
                scanned' = [scanned EXCEPT ![p] = keys]
          /\ pc' = [pc EXCEPT ![p] = "verify"]
          /\ UNCHANGED reports
    /\ UNCHANGED <<hosts, file, lock, request, verified, lines, vouched>>

\* find_legacy_trusted_keys, which may fail, and select_verified_offered_keys.
Verify(p) ==
    LET keys == Verified(scanned[p], request[p].evidence)
    IN /\ pc[p] = "verify"
       /\ \/ /\ Fail(p, "ssh_probe_failed")
             /\ UNCHANGED <<verified, vouched>>
          \/ /\ keys = {}
             /\ Leave(p, "host_key_unverified", "decided")
             /\ UNCHANGED <<verified, vouched>>
          \/ /\ keys # {}
             /\ verified' = [verified EXCEPT ![p] = keys]
             /\ vouched' = [vouched EXCEPT ![Node(p)] =
                               @ \cup (scanned[p] \cap request[p].evidence)]
             /\ pc' = [pc EXCEPT ![p] = "decide"]
             /\ UNCHANGED reports
       /\ UNCHANGED <<hosts, file, lock, request, scanned, lines>>

\* load_managed_ssh_store, strict, and the decision on what it holds.
Decide(p) ==
    LET store == [entries |-> entries, residue |-> residue]
        action == Action(store, Node(p), verified[p])
    IN /\ pc[p] = "decide"
       /\ \/ /\ unreadable
             /\ Fail(p, "ssh_store_read_failed")
             /\ UNCHANGED lines
          \/ /\ ~unreadable
             /\ lines' = [lines EXCEPT ![p] = store]
             /\ IF action = "noop" THEN Leave(p, "noop", "decided")
                ELSE IF Refused(p, action) THEN Leave(p, "host_key_conflict", "decided")
                ELSE IF ~request[p].apply THEN Leave(p, action, "planned")
                ELSE pc' = [pc EXCEPT ![p] = "write"] /\ UNCHANGED reports
       /\ UNCHANGED <<hosts, file, lock, request, scanned, verified, vouched>>

\* _write_managed_file: the lines read, without the node's own, and the verified
\* keys, put in place atomically.
Write(p) ==
    /\ pc[p] = "write"
    /\ \/ /\ Fail(p, "ssh_store_write_failed")
          /\ UNCHANGED file
       \/ /\ entries' = [lines[p].entries EXCEPT ![Node(p)] = verified[p]]
          /\ residue' = lines[p].residue \ ({Node(p)} \cap OddPort)
          /\ unreadable' = FALSE
          /\ Leave(p, "applied", "applied")
    /\ UNCHANGED <<hosts, lock, locals, vouched>>

\* The envelope is returned and the lock released.
Return(p) ==
    /\ pc[p] = "leaving"
    /\ pc' = [pc EXCEPT ![p] = "done"]
    /\ lock' = lock \ {p}
    /\ Forget(p)
    /\ UNCHANGED <<hosts, file, vouched>>

\* The process is killed before its write is in place: flock goes with it.
Crash(p) ==
    /\ pc[p] \in {"scan", "verify", "decide", "write"}
    /\ pc' = [pc EXCEPT ![p] = "crashed"]
    /\ lock' = lock \ {p}
    /\ Forget(p)
    /\ UNCHANGED <<hosts, file, vouched>>

\* A host is reinstalled, rotates its keys or goes away.
ChangeKeys(n) ==
    /\ changes < MaxChanges /\ changes' = changes + 1
    /\ \E keys \in SUBSET Keys : offered' = [offered EXCEPT ![n] = keys]
    /\ UNCHANGED <<file, lock, pc, locals, reports, vouched>>

\* Somebody edits the managed file by hand and leaves a line nctl never writes.
SpoilFile ==
    /\ changes < MaxChanges /\ changes' = changes + 1
    /\ ~unreadable /\ unreadable' = TRUE
    /\ UNCHANGED <<offered, entries, residue, lock, pc, locals, reports, vouched>>

AllOver == /\ \A p \in Enrollers : pc[p] \in {"done", "crashed"}
           /\ UNCHANGED vars

Step(p) == Start(p) \/ Scan(p) \/ Verify(p) \/ Decide(p) \/ Write(p) \/ Return(p)

Next == \/ \E p \in Enrollers : Step(p) \/ Crash(p)
        \/ \E n \in Nodes : ChangeKeys(n)
        \/ SpoilFile \/ AllOver

Spec == Init /\ [][Next]_vars

------------------------------------------------------------------------------
(* Properties. *)

TypeOK ==
    /\ offered \in [Nodes -> SUBSET Keys] /\ changes \in 0..MaxChanges
    /\ entries \in [Nodes -> SUBSET Keys] /\ residue \subseteq Nodes
    /\ unreadable \in BOOLEAN
    /\ lock \subseteq Enrollers
    /\ pc \in [Enrollers -> {"idle", "scan", "verify", "decide", "write",
                             "leaving", "done", "crashed"}]
    /\ request \in [Enrollers -> Requests \cup {NoRequest}]
    /\ \A p \in Enrollers :
          pc[p] \in {"scan", "verify", "decide", "write", "leaving"} =>
              request[p] \in Requests
    /\ scanned \in [Enrollers -> SUBSET Keys]
    /\ verified \in [Enrollers -> SUBSET Keys]
    /\ lines \in [Enrollers -> Store]
    /\ outcome \in [Enrollers -> Outcomes] /\ event \in [Enrollers -> Events]
    /\ vouched \in [Nodes -> SUBSET Keys]

\* Every key in the store was offered by its host in a scan and vouched for by
\* the operator of that scan, or was there before; neither one alone puts a key
\* in (ssh_enroll.py:233-249, docs/ssh-trust.md:47-49).
TrustedOnly == \A n \in Nodes : entries[n] \subseteq vouched[n]

\* The lines of a node change only by an --yes enrollment of that node, and lines
\* already there only with --replace -- while other enrollments write the same
\* file whole from lines they read earlier (ssh_enroll.py:525-585).
OnlyOwnLines ==
    [][\A n \in Nodes : entries'[n] # entries[n] =>
           \E p \in Enrollers : /\ pc[p] = "write" /\ Node(p) = n
                                /\ request[p].apply
                                /\ entries[n] = {} \/ request[p].replace]_vars

\* An --yes enrollment that reports applied or noop leaves the node with a key
\* its host offered in this very enrollment, under the name every connection
\* looks up, and without residue if it wrote (ssh_enroll.py:525-575): reconcile's
\* gate finds the host enrolled and, while it keeps its keys, ready.
EnrolledIsReady ==
    \A p \in Enrollers :
        pc[p] = "leaving" /\ request[p].apply /\ outcome[p] \in {"applied", "noop"} =>
            /\ entries[Node(p)] \cap scanned[p] # {}
            /\ outcome[p] = "applied" => Node(p) \notin residue \cap OddPort

\* An --yes command that got past its start holds the lock, and alone.
HoldsLock ==
    \A p \in Enrollers :
        pc[p] \in {"scan", "verify", "decide", "write"} /\ request[p].apply => lock = {p}

\* What it verified was offered and vouched for.
KeysInHand ==
    \A p \in Enrollers :
        pc[p] \in {"decide", "write"} =>
            /\ verified[p] # {} /\ verified[p] \subseteq scanned[p]
            /\ verified[p] \subseteq vouched[Node(p)]

\* When it writes, what it read is still what the file holds.
WriteReady ==
    \A p \in Enrollers :
        pc[p] = "write" =>
            /\ request[p].apply
            /\ lines[p] = [entries |-> entries, residue |-> residue]
            /\ entries[Node(p)] = {} \/ request[p].replace

\* It reports before it lets the lock go.
ReportsLocked ==
    \A p \in Enrollers :
        pc[p] = "leaving" /\ request[p].apply /\ outcome[p] \in {"applied", "noop"} =>
            lock = {p}

EnrollInv == /\ TypeOK
             /\ HoldsLock /\ KeysInHand /\ WriteReady /\ ReportsLocked
             /\ TrustedOnly /\ EnrolledIsReady

------------------------------------------------------------------------------
(* What a document says, where the code does something else. *)

\* docs/event-log.md:41: `finished` is always the last record of an operation.
FinishedIsLast == \A p \in Enrollers : pc[p] = "leaving" => event[p] = "finished"
==============================================================================
