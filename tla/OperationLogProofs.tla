------------------------- MODULE OperationLogProofs -------------------------
(* The event log keeps its types, keeps what it showed, numbers the events of *)
(* its command in order, and shows `finished` only after the result.          *)
EXTENDS OperationLog, FiniteSetTheorems, TLAPS

(* What one append does to the lines: the one lemma about sequences. *)

\* Appending a line leaves every line alone but a cut last one, and ends the file
\* with that line or a corrupt one.
LEMMA AppendedLines ==
    ASSUME log \in Seq(Line), torn \in BOOLEAN, torn => log # <<>>,
           NEW line \in Line
    PROVE  /\ LinesWith(line) \in Seq(Line)
           /\ LinesWith(line) # <<>>
           /\ LinesWith(line)[Len(LinesWith(line))] \in {line, Corrupt}
           /\ \A i \in 1..Len(LinesWith(line)) :
                 \/ i = Len(LinesWith(line))
                 \/ i \in 1..Len(log) /\ LinesWith(line)[i] = log[i]
           /\ \A i \in 1..Len(log) : i \in 1..Len(LinesWith(line))
           /\ \A i \in 1..Len(log) :
                 \/ i = Len(log) /\ torn
                 \/ i # Len(LinesWith(line)) /\ LinesWith(line)[i] = log[i]
<1>1. Corrupt \in Line
  BY DEF Corrupt, Line
<1>2. CASE torn
  <2>1. Len(log) \in Nat \ {0}
    BY <1>2
  <2>2. LinesWith(line) = [log EXCEPT ![Len(log)] = Corrupt]
    BY <1>2 DEF LinesWith
  <2> DEFINE L == [log EXCEPT ![Len(log)] = Corrupt]
  <2>3. /\ L \in Seq(Line)
        /\ Len(L) = Len(log)
        /\ L[Len(log)] = Corrupt
        /\ \A i \in 1..Len(log) : i # Len(log) => L[i] = log[i]
    BY <1>1, <2>1
  <2> HIDE DEF L
  <2>4. L # <<>>
    BY <2>1, <2>3
  <2> QED
    BY <1>2, <2>1, <2>2, <2>3, <2>4 DEF L
<1>3. CASE ~torn
  <2>1. LinesWith(line) = Append(log, line)
    BY <1>3 DEF LinesWith
  <2>2. /\ Append(log, line) \in Seq(Line)
        /\ Len(Append(log, line)) = Len(log) + 1
        /\ Append(log, line)[Len(log) + 1] = line
        /\ \A i \in 1..Len(log) : Append(log, line)[i] = log[i]
    OBVIOUS
  <2>3. Len(log) \in Nat
    OBVIOUS
  <2>4. ASSUME NEW i \in 1..(Len(log) + 1), i # Len(log) + 1
        PROVE  i \in 1..Len(log)
    BY <2>3, <2>4
  <2>5. /\ Append(log, line) # <<>>
        /\ Append(log, line)[Len(Append(log, line))] \in {line, Corrupt}
    BY <2>2, <2>3
  <2>6. \A i \in 1..Len(Append(log, line)) :
           \/ i = Len(Append(log, line))
           \/ i \in 1..Len(log) /\ Append(log, line)[i] = log[i]
    BY <2>2, <2>4
  <2>7. \A i \in 1..Len(log) : /\ i \in 1..Len(Append(log, line))
                              /\ i # Len(Append(log, line))
                              /\ Append(log, line)[i] = log[i]
    BY <2>2, <2>3
  <2> QED
    BY <2>1, <2>2, <2>5, <2>6, <2>7
<1> QED
  BY <1>2, <1>3

(* What one write does, lost and cut ones included. *)

Shape(line) ==
    /\ \A i \in Shown' : \/ i \in Shown /\ log'[i] = log[i]
                         \/ i = Len(log') /\ log'[i] = line
    /\ \A i \in Shown : \/ i = Len(log) /\ torn
                        \/ i \in Shown' /\ log'[i] = log[i]
    /\ \A i \in Shown' : i \in Nat /\ i <= Len(log')

\* Every write keeps the types of the file and shows no event but its own.
LEMMA FileStep ==
    ASSUME TypeOK, torn => log # <<>>, NEW line \in Line,
           Written(line) \/ Cut(line) \/ Lost
    PROVE  /\ log' \in Seq(Line) /\ torn' \in BOOLEAN
           /\ torn' => log' # <<>>
           /\ faults' \in 0..MaxFaults
           /\ Shape(line)
<1> USE LogAssumption
<1>1. log \in Seq(Line) /\ torn \in BOOLEAN /\ faults \in 0..MaxFaults
  BY DEF TypeOK
<1>2. Corrupt \in Line /\ Corrupt.kind = "corrupt"
  BY DEF Corrupt, Line
<1>3. CASE Lost
  <2>1. log' = log /\ torn' = torn /\ faults' \in 0..MaxFaults
    BY <1>1, <1>3 DEF Lost, Fault, fileVars
  <2>2. DOMAIN log = 1..Len(log) /\ Len(log) \in Nat
    BY <1>1
  <2>3. Shown' = Shown /\ \A i \in Shown : i \in Nat /\ i <= Len(log)
    BY <2>1, <2>2 DEF Shown
  <2>4. Shape(line)
    BY <2>1, <2>3 DEF Shape
  <2> QED
    BY <1>1, <2>1, <2>4
<1>4. CASE Written(line) \/ Cut(line)
  <2>1. PICK part \in {line, Corrupt} : log' = LinesWith(part)
    BY <1>4 DEF Written, Cut
  <2>2. torn' \in BOOLEAN
    BY <1>4 DEF Written, Cut
  <2>10. faults' \in 0..MaxFaults
    BY <1>1, <1>4 DEF Written, Cut, Fault
  <2>3. part \in Line
    BY <1>2, <2>1
  <2>4. /\ log' \in Seq(Line)
        /\ log' # <<>>
        /\ log'[Len(log')] \in {part, Corrupt}
        /\ \A i \in 1..Len(log') :
              \/ i = Len(log')
              \/ i \in 1..Len(log) /\ log'[i] = log[i]
        /\ \A i \in 1..Len(log) : i \in 1..Len(log')
        /\ \A i \in 1..Len(log) :
              \/ i = Len(log) /\ torn
              \/ i # Len(log') /\ log'[i] = log[i]
    BY <1>1, <2>1, <2>3, AppendedLines
  <2>5. DOMAIN log = 1..Len(log) /\ DOMAIN log' = 1..Len(log') /\ Len(log') \in Nat
    BY <1>1, <2>4
  <2>6. ASSUME NEW i \in Shown'
        PROVE  \/ i \in Shown /\ log'[i] = log[i]
               \/ i = Len(log') /\ log'[i] = line
    <3>1. i \in 1..Len(log') /\ log'[i].kind # "corrupt"
      BY <2>5, <2>6 DEF Shown
    <3>2. CASE i = Len(log')
      BY <1>2, <2>1, <2>4, <3>1, <3>2
    <3>3. CASE i # Len(log')
      BY <2>4, <2>5, <3>1, <3>3 DEF Shown
    <3> QED
      BY <3>2, <3>3
  <2>7. ASSUME NEW i \in Shown
        PROVE  \/ i = Len(log) /\ torn
               \/ i \in Shown' /\ log'[i] = log[i]
    <3>1. i \in 1..Len(log) /\ log[i].kind # "corrupt"
      BY <2>5, <2>7 DEF Shown
    <3> QED
      BY <2>4, <2>5, <3>1 DEF Shown
  <2>8. \A i \in Shown' : i \in Nat /\ i <= Len(log')
    BY <2>5 DEF Shown
  <2>9. Shape(line)
    BY <2>6, <2>7, <2>8 DEF Shape
  <2> QED
    BY <2>2, <2>10, <2>4, <2>9
<1> QED
  BY <1>3, <1>4

\* A step that leaves the file alone shows what was shown.
LEMMA FileUnchanged ==
    ASSUME TypeOK, UNCHANGED fileVars
    PROVE  /\ Shown' = Shown /\ OwnEvents' = OwnEvents
           /\ log' = log /\ torn' = torn
BY DEF fileVars, Shown, OwnEvents

-----------------------------------------------------------------------------
(* The steps. *)

\* What the command writes next is numbered above everything it wrote, and is
\* `finished` only once the result is decided.
LEMMA OwnWrite ==
    ASSUME LogInv, owner \in {"running", "finishing"}, Shape(NextEvent),
           result' = result
    PROVE  /\ OwnEventsInOrder'
           /\ \A i \in OwnEvents' : log'[i].seq <= seq
           /\ ResultBeforeFinished'
<1>1. /\ NextEvent.seq = seq
      /\ NextEvent.kind = "finished" => owner = "finishing"
  BY DEF NextEvent, Event
<1>2. seq \in Nat /\ \A i \in OwnEvents : log[i].seq \in Nat /\ log[i].seq < seq
  <2>1. seq \in Nat /\ log \in Seq(Line)
    BY LogAssumption DEF LogInv, TypeOK
  <2>2. ASSUME NEW i \in OwnEvents
        PROVE  log[i] \in Line
    BY <2>1, <2>2 DEF OwnEvents, Shown
  <2>3. \A i \in OwnEvents : log[i].seq \in Nat
    BY <2>2 DEF Line
  <2> QED
    BY <2>1, <2>3 DEF LogInv
<1>3. ASSUME NEW i \in OwnEvents'
      PROVE  \/ i \in OwnEvents /\ log'[i] = log[i]
             \/ i = Len(log') /\ log'[i] = NextEvent
  BY <1>3 DEF Shape, OwnEvents
<1>4. \A i \in OwnEvents' : log'[i].seq <= seq
  BY <1>1, <1>2, <1>3
<1>5. ASSUME NEW i \in OwnEvents', NEW j \in OwnEvents', i < j
      PROVE  log'[i].seq < log'[j].seq
  <2>1. i \in Nat /\ j \in Nat /\ i <= Len(log') /\ j <= Len(log')
    BY <1>5 DEF Shape, OwnEvents
  <2>2. (i \in OwnEvents /\ log'[i] = log[i]) \/ i = Len(log')
    BY <1>3, <1>5
  <2>3. CASE i = Len(log')
    BY <1>5, <2>1, <2>3
  <2>4. CASE i \in OwnEvents /\ log'[i] = log[i]
    <3>1. CASE j \in OwnEvents /\ log'[j] = log[j]
      BY <1>5, <2>4, <3>1 DEF LogInv, OwnEventsInOrder
    <3>2. CASE log'[j] = NextEvent
      BY <1>1, <1>2, <2>4, <3>2
    <3> QED
      BY <1>3, <1>5, <3>1, <3>2
  <2> QED
    BY <2>2, <2>3, <2>4
<1>6. OwnEventsInOrder'
  BY <1>5 DEF OwnEventsInOrder
<1>7. ResultBeforeFinished'
  <2> SUFFICES ASSUME NEW i \in OwnEvents', log'[i].kind = "finished"
               PROVE  result' # "none"
    BY DEF ResultBeforeFinished
  <2>1. CASE i \in OwnEvents /\ log'[i] = log[i]
    BY <2>1 DEF LogInv, ResultBeforeFinished
  <2>2. CASE log'[i] = NextEvent
    BY <1>1, <2>2 DEF LogInv
  <2> QED
    BY <1>3, <2>1, <2>2
<1> QED
  BY <1>4, <1>6, <1>7

\* What a closer appends is none of the command's events.
LEMMA ForeignWrite ==
    ASSUME LogInv, NEW line \in Line, line.abandoned, Shape(line),
           result' = result, seq' = seq, owner' = owner
    PROVE  /\ OwnEventsInOrder'
           /\ \A i \in OwnEvents' : i \in OwnEvents /\ log'[i] = log[i]
           /\ ResultBeforeFinished'
<1>1. \A i \in OwnEvents' : i \in OwnEvents /\ log'[i] = log[i]
  BY DEF Shape, OwnEvents
<1>2. OwnEventsInOrder'
  BY <1>1 DEF LogInv, OwnEventsInOrder
<1>3. ResultBeforeFinished'
  BY <1>1 DEF LogInv, ResultBeforeFinished
<1> QED
  BY <1>1, <1>2, <1>3

\* Steps that do not write keep what is said of the file.
LEMMA QuietStep ==
    ASSUME LogInv, UNCHANGED fileVars, result' = result \/ result' # "none"
    PROVE  /\ OwnEventsInOrder' /\ ResultBeforeFinished'
           /\ torn' => log' # <<>>
           /\ \A i \in OwnEvents' : i \in OwnEvents /\ log'[i] = log[i]
           /\ log' \in Seq(Line) /\ torn' \in BOOLEAN
<1>1. TypeOK
  BY DEF LogInv
<1>2. /\ OwnEvents' = OwnEvents /\ log' = log /\ torn' = torn
  BY <1>1, FileUnchanged
<1>3. log \in Seq(Line) /\ torn \in BOOLEAN /\ (torn => log # <<>>)
  BY DEF LogInv, TypeOK
<1>4. OwnEventsInOrder' /\ ResultBeforeFinished'
  BY <1>2 DEF LogInv, OwnEventsInOrder, ResultBeforeFinished
<1> QED
  BY <1>2, <1>3, <1>4

-----------------------------------------------------------------------------
(* The inductive invariant. *)

\* The event about to be written, and every event a closer holds, is a line.
LEMMA EventsAreLines ==
    ASSUME LogInv
    PROVE  /\ NextEvent \in Line /\ ~NextEvent.abandoned
           /\ \A c \in Closers : closing[c] \in Line
           /\ seq \in Nat /\ clock \in Nat
<1>1. seq \in Nat /\ clock \in Nat
  BY LogAssumption DEF LogInv, TypeOK
<1>2. NextEvent \in Line /\ ~NextEvent.abandoned
  BY <1>1 DEF NextEvent, Event, Line, Kinds
<1>3. \A c \in Closers : closing[c] \in Line
  BY DEF LogInv, TypeOK
<1> QED
  BY <1>1, <1>2, <1>3

\* An event of the command, written, cut or lost.
LEMMA EmitKeeps ==
    ASSUME LogInv, Emit, result' = result, owner \in {"running", "finishing"},
           owner' \in {"running", "finishing", "done", "dead"},
           owner' \in {"running", "finishing"} => owner' = owner /\ seq < MaxEvents,
           owner' = "done" => owner = "finishing",
           UNCHANGED <<clock, closer, closing>>
    PROVE  LogInv'
<1> USE LogAssumption
<1>1. TypeOK /\ (torn => log # <<>>) /\ NextEvent \in Line
  BY EventsAreLines DEF LogInv
<1>2. Written(NextEvent) \/ Cut(NextEvent) \/ Lost
  BY DEF Emit
<1>3. /\ log' \in Seq(Line) /\ torn' \in BOOLEAN /\ (torn' => log' # <<>>)
      /\ faults' \in 0..MaxFaults /\ Shape(NextEvent)
  BY <1>1, <1>2, FileStep
<1>4. /\ OwnEventsInOrder' /\ ResultBeforeFinished'
      /\ \A i \in OwnEvents' : log'[i].seq <= seq
  BY <1>3, OwnWrite
<1>5. seq' = seq + 1 /\ seq \in 0..MaxEvents
  BY DEF Emit, NextNumber, LogInv, TypeOK
<1>6. TypeOK'
  <2>1. seq' \in 0..(MaxEvents + 1)
    BY <1>5
  <2>2. /\ clock' \in 0..MaxClock /\ result' \in {"none", "written", "failed"}
        /\ closer' \in [Closers -> {"idle", "appending", "closed", "failed"}]
        /\ closing' \in [Closers -> Line]
    BY <1>1 DEF TypeOK
  <2> QED
    BY <1>3, <2>1, <2>2 DEF TypeOK
<1>7. ASSUME owner' \in {"running", "finishing"}
      PROVE  seq' <= MaxEvents /\ \A i \in OwnEvents' : log'[i].seq < seq'
  <2>1. seq' = seq + 1 /\ seq < MaxEvents
    BY <1>5, <1>7
  <2>2. ASSUME NEW i \in OwnEvents'
        PROVE  log'[i].seq \in Nat
    <3>1. log'[i] \in Line
      BY <1>3, <2>2 DEF OwnEvents, Shown
    <3> QED
      BY <3>1 DEF Line
  <2> QED
    BY <1>4, <1>5, <2>1, <2>2
<1>8. owner' \in {"finishing", "done"} => result' # "none"
  BY DEF LogInv
<1>9. \A c \in Closers : closer'[c] = "appending" => closing'[c].abandoned
  BY DEF LogInv
<1> QED
  BY <1>3, <1>4, <1>6, <1>7, <1>8, <1>9 DEF LogInv

\* Steps that leave the file and its numbering alone.
LEMMA QuietKeeps ==
    ASSUME LogInv, UNCHANGED <<fileVars, faults, seq>>,
           result' \in {"none", "written", "failed"},
           result' = result \/ result' # "none",
           owner' \in {"running", "finishing", "done", "dead"},
           owner' \in {"running", "finishing"} => owner \in {"running", "finishing"},
           owner' \in {"finishing", "done"} => result' # "none",
           clock' \in 0..MaxClock,
           closer' \in [Closers -> {"idle", "appending", "closed", "failed"}],
           closing' \in [Closers -> Line],
           \A c \in Closers : closer'[c] = "appending" => closing'[c].abandoned
    PROVE  LogInv'
<1>1. /\ OwnEventsInOrder' /\ ResultBeforeFinished'
      /\ torn' => log' # <<>>
      /\ \A i \in OwnEvents' : i \in OwnEvents /\ log'[i] = log[i]
      /\ log' \in Seq(Line) /\ torn' \in BOOLEAN
  BY QuietStep
<1>2. seq' \in 0..(MaxEvents + 1) /\ faults' \in 0..MaxFaults
  BY DEF LogInv, TypeOK
<1>3. TypeOK'
  BY <1>1, <1>2 DEF TypeOK
<1>4. owner' \in {"running", "finishing"} =>
          seq' <= MaxEvents /\ \A i \in OwnEvents' : log'[i].seq < seq'
  BY <1>1 DEF LogInv
<1> QED
  BY <1>1, <1>3, <1>4 DEF LogInv

\* A closer's append, written, cut or lost.
LEMMA AppendCloseKeeps ==
    ASSUME LogInv, NEW c \in Closers, AppendClose(c)
    PROVE  LogInv'
<1>1. TypeOK /\ (torn => log # <<>>) /\ closing[c] \in Line
  BY EventsAreLines DEF LogInv
<1>2. closing[c].abandoned
  BY DEF LogInv, AppendClose
<1>3. Written(closing[c]) \/ Cut(closing[c]) \/ Lost
  BY DEF AppendClose
<1>4. /\ log' \in Seq(Line) /\ torn' \in BOOLEAN /\ (torn' => log' # <<>>)
      /\ faults' \in 0..MaxFaults /\ Shape(closing[c])
  BY <1>1, <1>3, FileStep
<1>5. /\ OwnEventsInOrder' /\ ResultBeforeFinished'
      /\ \A i \in OwnEvents' : i \in OwnEvents /\ log'[i] = log[i]
  BY <1>1, <1>2, <1>4, ForeignWrite DEF AppendClose
<1>6. UNCHANGED <<clock, owner, seq, result>>
  BY DEF AppendClose
<1>7. /\ closer' \in [Closers -> {"idle", "appending", "closed", "failed"}]
      /\ closer'[c] # "appending"
      /\ \A d \in Closers : d # c => closer'[d] = closer[d]
  BY <1>1 DEF AppendClose, TypeOK
<1>8. Corrupt \in Line
  BY DEF Corrupt, Line
<1>9. /\ closing' \in [Closers -> Line]
      /\ \A d \in Closers : d # c => closing'[d] = closing[d]
  BY <1>1, <1>8 DEF AppendClose, TypeOK
<1>10. TypeOK'
  BY <1>1, <1>4, <1>6, <1>7, <1>9 DEF TypeOK
<1>11. owner' \in {"running", "finishing"} =>
           seq' <= MaxEvents /\ \A i \in OwnEvents' : log'[i].seq < seq'
  BY <1>5, <1>6 DEF LogInv
<1>12. \A d \in Closers : closer'[d] = "appending" => closing'[d].abandoned
  BY <1>7, <1>9 DEF LogInv
<1>13. owner' \in {"finishing", "done"} => result' # "none"
  BY <1>6 DEF LogInv
<1> QED
  BY <1>4, <1>5, <1>10, <1>11, <1>12, <1>13 DEF LogInv

\* The process dies, perhaps in the middle of a write.
LEMMA DieKeeps ==
    ASSUME LogInv, Die
    PROVE  LogInv'
<1>1. /\ TypeOK /\ (torn => log # <<>>) /\ NextEvent \in Line
      /\ owner \in {"running", "finishing"} /\ owner' = "dead"
      /\ UNCHANGED <<clock, seq, result, closer, closing>>
  BY EventsAreLines DEF LogInv, Die
<1>2. CASE UNCHANGED <<fileVars, faults>>
  BY <1>1, <1>2, QuietKeeps DEF LogInv, TypeOK
<1>3. CASE Cut(NextEvent)
  <2>1. /\ log' \in Seq(Line) /\ torn' \in BOOLEAN /\ (torn' => log' # <<>>)
        /\ faults' \in 0..MaxFaults /\ Shape(NextEvent)
    BY <1>1, <1>3, FileStep
  <2>2. OwnEventsInOrder' /\ ResultBeforeFinished'
    BY <1>1, <2>1, OwnWrite
  <2>3. TypeOK'
    BY <1>1, <2>1 DEF TypeOK
  <2> QED
    BY <1>1, <2>1, <2>2, <2>3 DEF LogInv
<1> QED
  BY <1>2, <1>3 DEF Die

LEMMA InitInv == Init => LogInv
<1> SUFFICES ASSUME Init PROVE LogInv
  OBVIOUS
<1> USE LogAssumption DEF Init
<1>1. Corrupt \in Line
  BY DEF Corrupt, Line
<1>2. Shown = {} /\ OwnEvents = {}
  BY DEF Shown, OwnEvents
<1>3. TypeOK
  <2>1. log \in Seq(Line) /\ closing \in [Closers -> Line]
    BY <1>1
  <2>2. /\ closer \in [Closers -> {"idle", "appending", "closed", "failed"}]
        /\ torn \in BOOLEAN
    OBVIOUS
  <2>3. clock \in 0..MaxClock /\ faults \in 0..MaxFaults /\ seq \in 0..(MaxEvents + 1)
    OBVIOUS
  <2> QED
    BY <2>1, <2>2, <2>3 DEF TypeOK
<1>4. \A c \in Closers : closer[c] # "appending"
  OBVIOUS
<1>5. seq <= MaxEvents
  OBVIOUS
<1> QED
  BY <1>2, <1>3, <1>4, <1>5 DEF LogInv, OwnEventsInOrder, ResultBeforeFinished

LEMMA StepInv == LogInv /\ [Next]_vars => LogInv'
<1> SUFFICES ASSUME LogInv, [Next]_vars PROVE LogInv'
  OBVIOUS
<1> USE LogAssumption
<1>1. TypeOK
  BY DEF LogInv
<1>2. CASE EmitEvent
  <2>1. /\ Emit /\ owner = "running" /\ owner' = owner /\ seq < MaxEvents
        /\ UNCHANGED <<clock, result, closer, closing>>
    BY <1>2 DEF EmitEvent
  <2> QED
    BY <2>1, EmitKeeps
<1>3. CASE PersistResult
  BY <1>1, <1>3, QuietKeeps DEF PersistResult, PersistOutcomes, LogInv, TypeOK
<1>4. CASE EmitFinished
  <2>1. /\ Emit /\ owner = "finishing" /\ owner' = "done"
        /\ UNCHANGED <<clock, result, closer, closing>>
    BY <1>4 DEF EmitFinished
  <2> QED
    BY <2>1, EmitKeeps
<1>5. CASE Die
  BY <1>5, DieKeeps
<1>6. CASE Tick
  <2>1. clock' \in 0..MaxClock
    BY <1>1, <1>6 DEF Tick, TypeOK
  <2> QED
    BY <1>1, <1>6, <2>1, QuietKeeps DEF Tick, LogInv, TypeOK
<1>7. ASSUME NEW c \in Closers, NEW force \in BOOLEAN, StartClose(c, force)
      PROVE  LogInv'
  <2>1. PICK i \in Shown : closing' = [closing EXCEPT
                               ![c] = Event("finished", log[i].seq + 1, clock, TRUE)]
    BY <1>7 DEF StartClose
  <2>2. Event("finished", log[i].seq + 1, clock, TRUE) \in Line
    <3>1. log[i] \in Line
      BY <1>1 DEF TypeOK, Shown
    <3>2. log[i].seq + 1 \in Nat /\ clock \in Nat
      BY <1>1, <3>1 DEF Line, TypeOK
    <3> QED
      BY <3>2 DEF Event, Line, Kinds
  <2>3. closing' \in [Closers -> Line]
    BY <1>1, <2>1, <2>2 DEF TypeOK
  <2>4. closer' \in [Closers -> {"idle", "appending", "closed", "failed"}]
    BY <1>1, <1>7 DEF StartClose, TypeOK
  <2>5. /\ closing'[c].abandoned
        /\ \A d \in Closers : d # c => /\ closing'[d] = closing[d]
                                       /\ closer'[d] = closer[d]
    BY <1>1, <1>7, <2>1 DEF StartClose, Event, TypeOK
  <2>6. \A d \in Closers : closer'[d] = "appending" => closing'[d].abandoned
    BY <2>5 DEF LogInv
  <2>7. UNCHANGED <<fileVars, clock, owner, seq, result, faults>>
    BY <1>7 DEF StartClose
  <2> QED
    BY <1>1, <2>3, <2>4, <2>6, <2>7, QuietKeeps DEF LogInv, TypeOK
<1>8. ASSUME NEW c \in Closers, AppendClose(c) PROVE LogInv'
  BY <1>8, AppendCloseKeeps
<1>9. CASE UNCHANGED vars
  BY <1>1, <1>9, QuietKeeps DEF vars, LogInv, TypeOK
<1> QED
  BY <1>2, <1>3, <1>4, <1>5, <1>6, <1>7, <1>8, <1>9
     DEF Next, Owner, Close, AtRest

-----------------------------------------------------------------------------
(* The theorems. *)

\* The invariant holds in every reachable state, whatever the bounds.
THEOREM LogInductive == Spec => []LogInv
  BY InitInv, StepInv, PTL DEF Spec

\* The log and everybody's view of it keep their types.
THEOREM LogTypeCorrect == Spec => []TypeOK
<1>1. LogInv => TypeOK
  BY DEF LogInv
<1> QED
  BY <1>1, LogInductive, PTL

\* The command's events stand in the file in the order of their numbers
\* (events.py:60-73), whatever is lost and whoever else appends.
THEOREM EventsInOrder == Spec => []OwnEventsInOrder
<1>1. LogInv => OwnEventsInOrder
  BY DEF LogInv
<1> QED
  BY <1>1, LogInductive, PTL

\* The command's own `finished` is never visible before the result is decided
\* (executor.py:866-871).
THEOREM ResultFirst == Spec => []ResultBeforeFinished
<1>1. LogInv => ResultBeforeFinished
  BY DEF LogInv
<1> QED
  BY <1>1, LogInductive, PTL

\* No step takes away what a reader was shown, but for a line without a newline
\* (events.py:81, operations_index.py:208-209).
THEOREM KeptHistory == Spec => HistoryKept
<1> DEFINE Kept == \A i \in Shown : \/ i = Len(log) /\ torn
                                    \/ i \in Shown' /\ log'[i] = log[i]
<1>1. LogInv /\ [Next]_vars => [Kept]_vars
  <2> SUFFICES ASSUME LogInv, Next PROVE Kept
    OBVIOUS
  <2>1. TypeOK /\ (torn => log # <<>>)
    BY DEF LogInv
  <2>2. \/ UNCHANGED fileVars
        \/ \E line \in Line : Written(line) \/ Cut(line) \/ Lost
    BY EventsAreLines
       DEF Next, Owner, EmitEvent, PersistResult, EmitFinished, Emit, Die, Tick,
           Close, StartClose, AppendClose, AtRest, vars
  <2>3. CASE UNCHANGED fileVars
    BY <2>1, <2>3, FileUnchanged
  <2>4. ASSUME NEW line \in Line, Written(line) \/ Cut(line) \/ Lost
        PROVE  Kept
    BY <2>1, <2>4, FileStep DEF Shape
  <2> QED
    BY <2>2, <2>3, <2>4
<1> QED
  BY <1>1, LogInductive, PTL DEF Spec, HistoryKept
-----------------------------------------------------------------------------
(* How much a reader can miss. *)

\* The command's shown events are finitely many, and among the lines.
LEMMA OwnFinite ==
    ASSUME log \in Seq(Line)
    PROVE  /\ IsFiniteSet(OwnEvents) /\ Cardinality(OwnEvents) \in Nat
           /\ OwnEvents \subseteq 1..Len(log)
<1>1. OwnEvents \subseteq 1..Len(log) /\ Len(log) \in Nat
  BY DEF OwnEvents, Shown
<1>2. IsFiniteSet(1..Len(log))
  BY <1>1, FS_Interval
<1>3. IsFiniteSet(OwnEvents)
  BY <1>1, <1>2, FS_Subset
<1> QED
  BY <1>1, <1>3, FS_CardinalityType

\* What an append does to the events shown: joining a cut line costs at most the cut
\* event; on a line of its own an event of the command is one more.
LEMMA OwnCount ==
    ASSUME TypeOK, torn => log # <<>>, NEW line \in Line, NEW part \in {line, Corrupt},
           log' = LinesWith(part)
    PROVE  /\ Cardinality(OwnEvents) \in Nat /\ Cardinality(OwnEvents') \in Nat
           /\ torn => /\ Len(log') \notin OwnEvents'
                      /\ Cardinality(OwnEvents') =
                            IF Len(log) \in OwnEvents THEN Cardinality(OwnEvents) - 1
                            ELSE Cardinality(OwnEvents)
           /\ ~torn => IF part.kind # "corrupt" /\ ~part.abandoned
                       THEN Cardinality(OwnEvents') = Cardinality(OwnEvents) + 1
                       ELSE /\ Cardinality(OwnEvents') = Cardinality(OwnEvents)
                            /\ Len(log') \notin OwnEvents'
<1>1. log \in Seq(Line) /\ torn \in BOOLEAN /\ Len(log) \in Nat /\ DOMAIN log = 1..Len(log)
  BY DEF TypeOK
<1>2. /\ IsFiniteSet(OwnEvents) /\ Cardinality(OwnEvents) \in Nat
      /\ OwnEvents \subseteq 1..Len(log)
  BY <1>1, OwnFinite
<1>3. OwnEvents' = {i \in DOMAIN log' : log'[i].kind # "corrupt" /\ ~log'[i].abandoned}
  BY DEF OwnEvents, Shown
<1>4. OwnEvents = {i \in DOMAIN log : log[i].kind # "corrupt" /\ ~log[i].abandoned}
  BY DEF OwnEvents, Shown
<1>5. CASE torn
  <2>1. log' = [log EXCEPT ![Len(log)] = Corrupt] /\ Len(log) \in 1..Len(log)
    BY <1>1, <1>5 DEF LinesWith
  <2> DEFINE L == [log EXCEPT ![Len(log)] = Corrupt]
  <2>2. Corrupt \in Line /\ Corrupt.kind = "corrupt"
    BY DEF Corrupt, Line
  <2>3. L \in Seq(Line) /\ Len(L) = Len(log)
    BY <1>1, <2>2, <2>1
  <2>4. DOMAIN L = 1..Len(log) /\ L[Len(log)] = Corrupt
    BY <1>1, <2>1
  <2>5. \A i \in 1..Len(log) : i # Len(log) => L[i] = log[i]
    BY <1>1
  <2>6. log' = L
    BY <2>1
  <2> HIDE DEF L
  <2>7. /\ DOMAIN log' = 1..Len(log) /\ Len(log') = Len(log)
        /\ log'[Len(log)].kind = "corrupt"
        /\ \A i \in 1..Len(log) : i # Len(log) => log'[i] = log[i]
    BY <2>2, <2>3, <2>4, <2>5, <2>6
  <2>8. OwnEvents' = OwnEvents \ {Len(log)}
    BY <1>1, <1>3, <1>4, <2>7
  <2>9. Cardinality(OwnEvents') = IF Len(log) \in OwnEvents THEN Cardinality(OwnEvents) - 1
                                  ELSE Cardinality(OwnEvents)
    BY <1>2, <2>8, FS_RemoveElement
  <2>10. Cardinality(OwnEvents') \in Nat
    BY <1>2, <2>8, FS_RemoveElement, FS_CardinalityType
  <2>11. Len(log') \notin OwnEvents'
    BY <2>7, <2>8
  <2> QED
    BY <1>2, <1>5, <2>9, <2>10, <2>11
<1>6. CASE ~torn
  <2>1. log' = Append(log, part)
    BY <1>6 DEF LinesWith
  <2>2. /\ DOMAIN log' = 1..(Len(log) + 1) /\ Len(log') = Len(log) + 1
        /\ log'[Len(log) + 1] = part
        /\ \A i \in 1..Len(log) : log'[i] = log[i]
    BY <1>1, <2>1
  <2>3. /\ 1..(Len(log) + 1) = (1..Len(log)) \cup {Len(log) + 1}
        /\ Len(log) + 1 \notin 1..Len(log)
    BY <1>1
  <2>4. CASE part.kind # "corrupt" /\ ~part.abandoned
    <3>1. OwnEvents' = OwnEvents \cup {Len(log) + 1}
      BY <1>1, <1>3, <1>4, <2>2, <2>3, <2>4
    <3>2. Cardinality(OwnEvents') = Cardinality(OwnEvents) + 1
      BY <1>2, <2>3, <3>1, FS_AddElement
    <3> QED
      BY <1>2, <1>6, <2>4, <3>2
  <2>5. CASE ~(part.kind # "corrupt" /\ ~part.abandoned)
    <3>1. OwnEvents' = OwnEvents
      BY <1>1, <1>3, <1>4, <2>2, <2>3, <2>5
    <3> QED
      BY <1>2, <1>6, <2>2, <2>3, <2>5, <3>1
  <2> QED
    BY <2>4, <2>5
<1> QED
  BY <1>1, <1>5, <1>6

\* A write keeps the account, the command's own with the number it takes and anybody
\* else's.
LEMMA WriteKeepsLoss ==
    ASSUME TypeOK, LossInv, torn => log # <<>>, NEW line \in Line,
           Written(line) \/ Cut(line) \/ Lost,
           \/ seq' = seq
           \/ seq' = seq + 1 /\ line.kind # "corrupt" /\ ~line.abandoned
    PROVE  LossInv'
<1> DEFINE k == Cardinality(OwnEvents)
           own == line.kind # "corrupt" /\ ~line.abandoned
<1>1. log \in Seq(Line) /\ torn \in BOOLEAN /\ seq \in Nat /\ faults \in Nat
  BY LogAssumption DEF TypeOK
<1>2. Corrupt.kind = "corrupt"
  BY DEF Corrupt
<1>3. k \in Nat /\ seq + Exposed <= k + 2 * faults /\ Exposed \in 0..2
  BY <1>1, OwnFinite DEF LossInv, Exposed
<1>4. Exposed = IF ~torn THEN 0 ELSE IF Len(log) \in OwnEvents THEN 2 ELSE 1
  BY DEF Exposed
<1>5. Exposed' = IF ~torn' THEN 0 ELSE IF Len(log') \in OwnEvents' THEN 2 ELSE 1
  BY DEF Exposed
<1>6. CASE Lost
  <2>1. log' = log /\ torn' = torn /\ faults' = faults + 1
    BY <1>6 DEF Lost, Fault, fileVars
  <2>2. OwnEvents' = OwnEvents
    BY <2>1 DEF OwnEvents, Shown
  <2>3. Exposed' = Exposed /\ Cardinality(OwnEvents') = k
    BY <1>4, <1>5, <2>1, <2>2
  <2> QED
    BY <1>1, <1>3, <2>1, <2>3 DEF LossInv
<1>7. CASE Written(line)
  <2>1. log' = LinesWith(line) /\ torn' = FALSE /\ faults' = faults
    BY <1>7 DEF Written
  <2>2. /\ Cardinality(OwnEvents') \in Nat
        /\ torn => Cardinality(OwnEvents') = IF Len(log) \in OwnEvents THEN k - 1 ELSE k
        /\ ~torn => Cardinality(OwnEvents') = IF own THEN k + 1 ELSE k
    BY <2>1, OwnCount
  <2>3. Exposed' = 0
    BY <1>5, <2>1
  <2> QED
    BY <1>1, <1>3, <1>4, <2>1, <2>2, <2>3 DEF LossInv
<1>8. CASE Cut(line)
  <2>1. PICK part \in {line, Corrupt} : log' = LinesWith(part)
    BY <1>8 DEF Cut
  <2>2. torn' = TRUE /\ faults' = faults + 1
    BY <1>8 DEF Cut, Fault
  <2>3. /\ Cardinality(OwnEvents') \in Nat
        /\ torn => /\ Len(log') \notin OwnEvents'
                   /\ Cardinality(OwnEvents') = IF Len(log) \in OwnEvents THEN k - 1 ELSE k
        /\ ~torn => IF part.kind # "corrupt" /\ ~part.abandoned
                    THEN Cardinality(OwnEvents') = k + 1
                    ELSE Cardinality(OwnEvents') = k /\ Len(log') \notin OwnEvents'
    BY <2>1, OwnCount
  <2>4. Exposed' = IF Len(log') \in OwnEvents' THEN 2 ELSE 1
    BY <1>5, <2>2
  <2>5. seq' \in {seq, seq + 1}
    OBVIOUS
  <2>6. CASE torn
    BY <1>1, <1>3, <1>4, <2>2, <2>3, <2>4, <2>5, <2>6 DEF LossInv
  <2>7. CASE ~torn
    BY <1>1, <1>3, <1>4, <2>2, <2>3, <2>4, <2>5, <2>7 DEF LossInv
  <2> QED
    BY <1>1, <2>6, <2>7
<1> QED
  BY <1>6, <1>7, <1>8

LEMMA StepLoss == LogInv /\ LossInv /\ [Next]_vars => LossInv'
<1> SUFFICES ASSUME LogInv, LossInv, [Next]_vars PROVE LossInv'
  OBVIOUS
<1>1. TypeOK /\ (torn => log # <<>>)
  BY DEF LogInv
<1>2. NextEvent \in Line /\ NextEvent.kind # "corrupt" /\ ~NextEvent.abandoned
  BY EventsAreLines DEF NextEvent, Event
<1>3. CASE Emit
  <2>1. seq' = seq + 1 /\ (Written(NextEvent) \/ Cut(NextEvent) \/ Lost)
    BY <1>3 DEF Emit, NextNumber
  <2> QED
    BY <1>1, <1>2, <2>1, WriteKeepsLoss
<1>4. CASE seq' = seq /\ Cut(NextEvent)
  BY <1>1, <1>2, <1>4, WriteKeepsLoss
<1>5. ASSUME NEW c \in Closers, AppendClose(c)
      PROVE  LossInv'
  <2>1. closing[c] \in Line /\ seq' = seq
    BY <1>5, EventsAreLines DEF AppendClose
  <2>2. Written(closing[c]) \/ Cut(closing[c]) \/ Lost
    BY <1>5 DEF AppendClose
  <2> QED
    BY <1>1, <2>1, <2>2, WriteKeepsLoss
<1>6. CASE UNCHANGED <<fileVars, seq, faults>>
  <2>1. log' = log /\ torn' = torn /\ seq' = seq /\ faults' = faults
    BY <1>6 DEF fileVars
  <2>2. OwnEvents' = OwnEvents
    BY <2>1 DEF OwnEvents, Shown
  <2>3. Exposed' = Exposed
    BY <2>1, <2>2 DEF Exposed
  <2> QED
    BY <2>1, <2>2, <2>3 DEF LossInv
<1> QED
  BY <1>3, <1>4, <1>5, <1>6
     DEF Next, Owner, EmitEvent, EmitFinished, PersistResult, Die, Tick, Close, StartClose,
         AtRest, vars

\* However many writes fail, each costs a reader of the log at most two events of the
\* command: its own and the one the next append spoils (events.py:78-86,
\* operations_index.py:76-85).
THEOREM LossesAreBounded == Spec => []LossIsBounded
<1>1. Init => LossInv
  <2> SUFFICES ASSUME Init PROVE LossInv
    OBVIOUS
  <2>1. OwnEvents = {} /\ Exposed = 0 /\ seq = 0 /\ faults = 0
    BY DEF Init, OwnEvents, Shown, Exposed
  <2> QED
    BY <2>1, FS_EmptySet DEF LossInv
<1>2. LogInv /\ LossInv => LossIsBounded
  <2> SUFFICES ASSUME LogInv, LossInv PROVE LossIsBounded
    OBVIOUS
  <2>1. log \in Seq(Line) /\ torn \in BOOLEAN /\ seq \in Nat /\ faults \in Nat
    BY LogAssumption DEF LogInv, TypeOK
  <2>2. Exposed \in 0..2 /\ Cardinality(OwnEvents) \in Nat
    BY <2>1, OwnFinite DEF Exposed
  <2> QED
    BY <2>1, <2>2 DEF LossInv, LossIsBounded
<1> QED
  BY <1>1, <1>2, StepLoss, LogInductive, PTL DEF Spec
==============================================================================
