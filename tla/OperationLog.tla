---------------------------- MODULE OperationLog ----------------------------
(***************************************************************************)
(* The event log of one operation: the command that writes it               *)
(* (src/nctl_core/events.py, and the end of a reconcile that persists its   *)
(* result first), the readers of `nctl ops list` and `ops show`, and the    *)
(* operators who close it with `nctl ops close`                             *)
(* (src/nctl_core/operations_index.py).                                     *)
(*                                                                          *)
(* The file is a sequence of lines.  A write may be lost, or cut short: then *)
(* the file ends without a newline, and whatever is appended next joins the  *)
(* cut line and makes it unreadable.  Writers and closers share no lock.     *)
(***************************************************************************)
EXTENDS Naturals, Sequences, FiniteSets

CONSTANTS
    Closers,        \* operators running `nctl ops close`
    StaleAfter,     \* STALE_RUNNING_SECONDS
    MaxEvents,      \* bound on the events of the command before `finished`
    MaxClock,       \* bound on time
    MaxFaults       \* bound on lost and cut writes

ASSUME LogAssumption == /\ StaleAfter \in Nat /\ MaxEvents \in Nat \ {0}
                        /\ MaxClock \in Nat /\ MaxFaults \in Nat

VARIABLES
    log,        \* the lines of <operation_id>.jsonl
    torn,       \* the last line has no newline
    clock,      \* the wall clock, in units of silence
    owner,      \* "running" | "finishing" | "done" | "dead"
    seq,        \* OperationLog._seq of the owner
    result,     \* result.json: "none" | "written" | "failed"
    closer,     \* per operator: "idle" | "appending" | "closed" | "failed"
    closing,    \* per operator: the event about to be appended
    faults      \* lost and cut writes so far

fileVars == <<log, torn>>
vars == <<fileVars, clock, owner, seq, result, closer, closing, faults>>

Kinds == {"started", "progress", "finished"}
Line == [kind : Kinds \cup {"corrupt"}, seq : Nat, ts : Nat, abandoned : BOOLEAN]
Corrupt == [kind |-> "corrupt", seq |-> 0, ts |-> 0, abandoned |-> FALSE]
Event(k, n, t, a) == [kind |-> k, seq |-> n, ts |-> t, abandoned |-> a]

------------------------------------------------------------------------------
(* Reading: read_events skips what does not parse, load_operation looks at    *)
(* the last event that does.                                                  *)

\* Variant: reading stops at the first line that does not parse.
ShownToFirstCorrupt == {i \in DOMAIN log : \A j \in 1..i : log[j].kind # "corrupt"}

Shown == {i \in DOMAIN log : log[i].kind # "corrupt"}

IsLast(i) == i \in Shown /\ \A j \in Shown : j <= i

Finished == \E i \in Shown : IsLast(i) /\ log[i].kind = "finished"
Running == \E i \in Shown : IsLast(i) /\ log[i].kind # "finished"

------------------------------------------------------------------------------
(* Writing one line in append mode. *)

\* Variant: the file is opened anew, not in append mode.
LinesAnew(line) == <<line>>

\* The lines after `line` was appended: on their own line, or joined to a cut one.
LinesWith(line) == IF torn THEN [log EXCEPT ![Len(log)] = Corrupt]
                   ELSE Append(log, line)

Written(line) == /\ log' = LinesWith(line)
                 /\ torn' = FALSE
                 /\ UNCHANGED faults

Fault == faults < MaxFaults /\ faults' = faults + 1

\* Only part of the line reached the file, with or without a readable record.
Cut(line) == /\ Fault
             /\ \E part \in {line, Corrupt} : log' = LinesWith(part)
             /\ torn' = TRUE

Lost == Fault /\ UNCHANGED fileVars

------------------------------------------------------------------------------
Init ==
    /\ log = <<>> /\ torn = FALSE
    /\ clock = 0 /\ faults = 0
    /\ owner = "running" /\ seq = 0 /\ result = "none"
    /\ closer = [c \in Closers |-> "idle"]
    /\ closing = [c \in Closers |-> Corrupt]

\* Variant: an event takes the number of the one before it.
NumberAgain(n) == n

\* Variant: the event is numbered twice.
NumberTwice(n) == n + 2

\* OperationLog.emit numbers the event before it writes it.
NextNumber(n) == n + 1

\* OperationLog._write swallows every OSError: the command goes on.
NextEvent == Event(IF owner = "finishing" THEN "finished"
                   ELSE IF seq = 0 THEN "started" ELSE "progress",
                   seq, clock, FALSE)
Emit == /\ seq' = NextNumber(seq)
        /\ Written(NextEvent) \/ Cut(NextEvent) \/ Lost

EmitEvent ==
    /\ owner = "running" /\ seq < MaxEvents
    /\ Emit
    /\ UNCHANGED <<clock, owner, result, closer, closing>>

\* Variant: result.json is written after the finished event.
PersistLate == {"none"}

\* _persist_terminal_result: written, or failed without failing the command.
PersistOutcomes == {"written", "failed"}

PersistResult ==
    /\ owner = "running" /\ seq > 0
    /\ result' \in PersistOutcomes
    /\ owner' = "finishing"
    /\ UNCHANGED <<fileVars, clock, seq, closer, closing, faults>>

EmitFinished ==
    /\ owner = "finishing"
    /\ Emit
    /\ owner' = "done"
    /\ UNCHANGED <<clock, result, closer, closing>>

\* The process is killed, between two writes or inside one.
Die ==
    /\ owner \in {"running", "finishing"}
    /\ owner' = "dead"
    /\ \/ UNCHANGED <<fileVars, faults>>
       \/ Cut(NextEvent)
    /\ UNCHANGED <<clock, seq, result, closer, closing>>

Tick ==
    /\ clock < MaxClock
    /\ clock' = clock + 1
    /\ UNCHANGED <<fileVars, owner, seq, result, closer, closing, faults>>

\* Variant: --force is ignored.
MayCloseStaleOnly(force, last) == clock - last.ts > StaleAfter

\* Silent for too long, unless the operator insists.
MayClose(force, last) == force \/ clock - last.ts > StaleAfter

\* close_operation up to the append, on an operation read as running.  Every
\* other reading is refused and changes nothing.
StartClose(c, force) ==
    /\ closer[c] # "appending"
    /\ \E i \in Shown :
          /\ IsLast(i) /\ log[i].kind # "finished"
          /\ MayClose(force, log[i])
          /\ closing' = [closing EXCEPT
                            ![c] = Event("finished", log[i].seq + 1, clock, TRUE)]
    /\ closer' = [closer EXCEPT ![c] = "appending"]
    /\ UNCHANGED <<fileVars, clock, owner, seq, result, faults>>

\* The append of close_operation.  An OSError ends the command.
AppendClose(c) ==
    /\ closer[c] = "appending"
    /\ \/ /\ Written(closing[c])
          /\ closer' = [closer EXCEPT ![c] = "closed"]
       \/ /\ Cut(closing[c]) \/ Lost
          /\ closer' = [closer EXCEPT ![c] = "failed"]
    /\ closing' = [closing EXCEPT ![c] = Corrupt]
    /\ UNCHANGED <<clock, owner, seq, result>>

\* Nothing left for anybody to do: the log is at rest.
AtRest == /\ owner \in {"done", "dead"} /\ ~Running
          /\ \A c \in Closers : closer[c] # "appending"
          /\ UNCHANGED vars

Owner == EmitEvent \/ PersistResult \/ EmitFinished
Close(c) == (\E force \in BOOLEAN : StartClose(c, force)) \/ AppendClose(c)

Next == Owner \/ Die \/ Tick \/ AtRest \/ \E c \in Closers : Close(c)

\* A command and a close run to their end; an operator who sees an operation
\* running after its owner died insists, with --force if need be.
Spec == /\ Init /\ [][Next]_vars
        /\ WF_vars(Owner)
        /\ \A c \in Closers : /\ WF_vars(StartClose(c, TRUE))
                               /\ WF_vars(AppendClose(c))

------------------------------------------------------------------------------
(* Properties. *)

TypeOK ==
    /\ log \in Seq(Line) /\ torn \in BOOLEAN
    /\ clock \in 0..MaxClock /\ faults \in 0..MaxFaults
    /\ owner \in {"running", "finishing", "done", "dead"}
    /\ seq \in 0..(MaxEvents + 1)
    /\ result \in {"none", "written", "failed"}
    /\ closer \in [Closers -> {"idle", "appending", "closed", "failed"}]
    /\ closing \in [Closers -> Line]

OwnEvents == {i \in Shown : ~log[i].abandoned}

\* The events of the command stand in the file in the order of their numbers,
\* each number once, whatever was lost between them and whoever else appended
\* (events.py:60-73, docs/event-log.md:29).
OwnEventsInOrder ==
    \A i, j \in OwnEvents : i < j => log[i].seq < log[j].seq

\* A write that fails costs a reader at most two events of the command: its own
\* and the one that joins the cut line (events.py:78-86, operations_index.py:76-85).
LossIsBounded == seq <= Cardinality(OwnEvents) + 2 * faults

\* Why it holds: a fault costs an event at once or leaves a line without newline, which
\* the next append takes with it; what it can still take is counted in advance.
Exposed == IF ~torn THEN 0 ELSE IF Len(log) \in OwnEvents THEN 2 ELSE 1
LossInv == seq + Exposed <= Cardinality(OwnEvents) + 2 * faults

\* What a reader has been shown stays, in its place, whoever writes next: only
\* a line without a newline can still be spoilt (events.py:81, and
\* operations_index.py:208-209, the one write of `ops close`).
HistoryKept ==
    [][\A i \in Shown : \/ i = Len(log) /\ torn
                        \/ i \in Shown' /\ log'[i] = log[i]]_vars

\* Whoever is shown the command's own `finished` finds result.json written, or
\* its writing failed (executor.py:866-871).
ResultBeforeFinished ==
    \A i \in OwnEvents : log[i].kind = "finished" => result # "none"

\* Why these hold: while the command lives its next number is above all it wrote,
\* the result is decided before the command finishes, and a closer only ever
\* appends an abandonment.
LogInv ==
    /\ TypeOK
    /\ torn => log # <<>>
    /\ OwnEventsInOrder
    /\ owner \in {"running", "finishing"} =>
           seq <= MaxEvents /\ \A i \in OwnEvents : log[i].seq < seq
    /\ ResultBeforeFinished
    /\ owner \in {"finishing", "done"} => result # "none"
    /\ \A c \in Closers : closer[c] = "appending" => closing[c].abandoned

\* An operation whose process died is not reported as running for ever: closing
\* it, again if need be, settles it (operations_index.py:172-213).
DeadRunsSettle == (owner = "dead" /\ Running) ~> ~Running

------------------------------------------------------------------------------
(* What a docstring says, where the code does something else. *)

\* operations_index.py:178-180: a close that succeeds on an operation whose owner
\* died makes history stop reporting it as running.
CloseSettles ==
    [][owner = "dead" => \A c \in Closers :
           closer[c] = "appending" /\ closer'[c] = "closed" => ~Running']_vars
==============================================================================
