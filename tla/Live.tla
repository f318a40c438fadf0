------------------------------- MODULE Live -------------------------------
(* One session of internal/sessions, from the first byte its shell prints to  *)
(* the closed log: the pump goroutine (onData, scanGatesLocked), the timers   *)
(* that answer the startup gates, and the reap goroutine.                     *)
(*                                                                            *)
(* Output is a sequence of bytes, ANSI sequences aside.  The shell, and a     *)
(* claude that it forked, print to the PTY; pump reads it in chunks that fall *)
(* as they may, in the middle of a prompt too.                                *)
EXTENDS Naturals, SequencesExt

CONSTANTS Gates,            \* ids of startupPrompts
          Done,             \* gatesDone: remote control is up
          Bytes,
          Texts,            \* the texts that the pattern of a gate, or Done, matches
          LogCap,           \* logCap
          TailBytes,        \* tailBytes
          PromptWind,       \* promptWind
          GateWindowBytes,  \* gateWindowBytes
          ReadMax,          \* the most that one Read of the PTY returns
          MaxOut            \* bound: what the shell prints in all

ASSUME PatternAssumption ==
  /\ Done \notin Gates
  /\ Texts \in [Gates \cup {Done} -> SUBSET Seq(Bytes)]
  /\ \A x \in Gates \cup {Done} : <<>> \notin Texts[x]

ASSUME LimitAssumption ==
  /\ {LogCap, TailBytes, PromptWind, GateWindowBytes, ReadMax, MaxOut} \subseteq Nat
  /\ GateWindowBytes < LogCap  \* l.logged stops counting at the cap
  /\ ReadMax > 0

VARIABLES
  procs,     \* the live processes on the PTY: "shell", "claude"
  out,       \* all that they have printed
  read,      \* how much of it pump has read; the PTY buffers the rest
  pump,      \* "read", "scan" (before the critical section of onData), "write",
             \* "mark" (the cap marker), "arm" (the timers) or "closed"
  chunk,     \* pump's buffer
  hits,      \* the gates that this chunk showed
  writes,    \* onData's `write`
  capped,    \* onData's `capped`
  logged, head, tail, answered, gateShut,   \* the fields of `live`
  late,      \* gateWindow is over
  timer,     \* timer[g]: "idle", "armed", "checked", "typed" or "done"
  reap,      \* "wait", "reaped", "exited", "ptyClosed", "noted" or "done"
  log,       \* entries of the log file
  typed,     \* gates whose keystroke went to the PTY, in order
  cuts       \* history: where in `out` the reads ended

liveVars == <<logged, head, tail, answered, gateShut>>
onDataVars == <<liveVars, hits, writes, capped>>
vars == <<procs, out, read, pump, chunk, onDataVars,
          late, timer, reap, log, typed, cuts>>

-----------------------------------------------------------------------------

\* regexp.Match: the pattern of x matches somewhere in s.
Shows(s, x) == SubSeqs(s) \cap Texts[x] # {}

Entry(kind, of) == [kind |-> kind, of |-> of]

Data(bytes) == [i \in 1..Len(bytes) |-> Entry("data", bytes[i])]

Capped == Entry("capped", "log")
Exited == Entry("exited", "log")
Note(g) == Entry("note", g)

Entries == [kind : {"data", "capped", "exited", "note"},
            of : Bytes \cup Gates \cup {"log"}]

\* Faulty variants: the oldest bytes are kept; one byte too many is kept.
LastOf_Oldest(s, n) == SubSeq(s, 1, IF Len(s) > n THEN n ELSE Len(s))
LastOf_OneMore(s, n) == SubSeq(s, IF Len(s) > n THEN Len(s) - n ELSE 1, Len(s))

\* How `head` and `tail` are trimmed.
LastOf(s, n) == SubSeq(s, IF Len(s) > n THEN Len(s) - n + 1 ELSE 1, Len(s))

TypeOK ==
  /\ procs \subseteq {"shell", "claude"} /\ late \in BOOLEAN /\ gateShut \in BOOLEAN
  /\ writes \in BOOLEAN /\ capped \in BOOLEAN
  /\ out \in Seq(Bytes) /\ chunk \in Seq(Bytes)
  /\ head \in Seq(Bytes) /\ tail \in Seq(Bytes)
  /\ Len(head) <= PromptWind /\ Len(tail) <= TailBytes /\ Len(chunk) <= ReadMax
  /\ read \in 0..Len(out)
  /\ logged \in 0..(LogCap + ReadMax - 1)
  /\ pump \in {"read", "scan", "write", "mark", "arm", "closed"}
  /\ answered \subseteq Gates /\ hits \subseteq answered
  /\ timer \in [Gates -> {"idle", "armed", "checked", "typed", "done"}]
  /\ reap \in {"wait", "reaped", "exited", "ptyClosed", "noted", "done"}
  /\ log \in Seq(Entries)
  /\ typed \in Seq(Gates)
  /\ cuts \subseteq 1..read

\* The shell has become claude by exec, or has forked it.
Init ==
  /\ procs \in {{"shell"}, {"shell", "claude"}} /\ late = FALSE
  /\ out = <<>> /\ read = 0
  /\ pump = "read" /\ chunk = <<>>
  /\ logged = 0 /\ head = <<>> /\ tail = <<>> /\ answered = {} /\ gateShut = FALSE
  /\ hits = {} /\ writes = FALSE /\ capped = FALSE
  /\ timer = [g \in Gates |-> "idle"]
  /\ reap = "wait"
  /\ log = <<>> /\ typed = <<>>
  /\ cuts = {}

-----------------------------------------------------------------------------
(* The processes on the PTY, and the clock.                                   *)

PtyOpen == reap \in {"wait", "reaped", "exited"}

\* Any of them prints; writes to a PTY whose master is closed fail.
Prints(b) ==
  /\ procs # {} /\ PtyOpen
  /\ Len(out) < MaxOut
  /\ out' = Append(out, b)
  /\ UNCHANGED <<procs, read, pump, chunk, onDataVars,
                 late, timer, reap, log, typed, cuts>>

Exits(p) ==
  /\ p \in procs
  /\ procs' = procs \ {p}
  /\ UNCHANGED <<out, read, pump, chunk, onDataVars,
                 late, timer, reap, log, typed, cuts>>

GateWindowEnds ==
  /\ ~late
  /\ late' = TRUE
  /\ UNCHANGED <<procs, out, read, pump, chunk, onDataVars,
                 timer, reap, log, typed, cuts>>

-----------------------------------------------------------------------------
(* pump and onData.                                                           *)

\* pty.Read returns some of what is there.
Reads ==
  /\ pump = "read"
  /\ PtyOpen
  /\ \E n \in 1..ReadMax :
       /\ read + n <= Len(out)
       /\ chunk' = SubSeq(out, read + 1, read + n)
       /\ read' = read + n
       /\ cuts' = cuts \cup {read + n}
  /\ pump' = "scan"
  /\ UNCHANGED <<procs, out, onDataVars, late, timer, reap, log, typed>>

\* Faulty variant: closing the PTY does not end a blocked Read.
ReadEnds_AtEofOnly ==
  /\ pump = "read"
  /\ procs = {} /\ read = Len(out)
  /\ pump' = "closed"
  /\ UNCHANGED <<procs, out, read, chunk, onDataVars,
                 late, timer, reap, log, typed, cuts>>

\* pty.Read fails: the master is closed, unread output or not, or every process
\* on the PTY is gone and all of their output has been read.
ReadEnds ==
  /\ pump = "read"
  /\ ~PtyOpen \/ (procs = {} /\ read = Len(out))
  /\ pump' = "closed"
  /\ UNCHANGED <<procs, out, read, chunk, onDataVars,
                 late, timer, reap, log, typed, cuts>>

\* Faulty variant: output does not end startup.
StartupOver_NoByteLimit == answered = Gates \/ late

\* scanGatesLocked, which sees `logged` with the chunk already counted.
StartupOver == \/ answered = Gates
               \/ logged' > GateWindowBytes
               \/ late

\* Faulty variant: only what has just been read is looked at.
ScanWindow_ChunkOnly == LastOf(chunk, PromptWind)

\* The end of what has been read.  A prompt that was cut in two is whole again
\* here, unless its beginning has just been trimmed away.
ScanWindow == LastOf(head \o chunk, PromptWind)

\* Faulty variant: a gate is answered as long as its text is in the window.
NewHits_Again == {g \in Gates : Shows(ScanWindow, g)}

NewHits == {g \in Gates \ answered : Shows(ScanWindow, g)}

ScanGates ==
  IF gateShut
    THEN hits' = {} /\ UNCHANGED <<head, answered, gateShut>>
  ELSE IF StartupOver
    THEN hits' = {} /\ head' = <<>> /\ gateShut' = TRUE /\ UNCHANGED answered
  ELSE /\ hits' = NewHits
       /\ answered' = answered \cup hits'
       /\ gateShut' = Shows(ScanWindow, Done)
       /\ head' = IF gateShut' THEN <<>> ELSE ScanWindow

\* Faulty variant: every chunk past the cap is marked.
CapReached_EachTime == logged' >= LogCap

CapReached == writes' /\ logged' >= LogCap

\* The critical section of onData.
Scans ==
  /\ pump = "scan"
  /\ writes' = (logged < LogCap)
  /\ logged' = IF writes' THEN logged + Len(chunk) ELSE logged
  /\ capped' = CapReached
  /\ tail' = LastOf(tail \o chunk, TailBytes)
  /\ ScanGates
  /\ pump' = IF writes' THEN "write" ELSE IF capped' THEN "mark" ELSE "arm"
  /\ UNCHANGED <<procs, out, read, chunk, late, timer, reap, log, typed, cuts>>

\* Faulty variant: the note of the cap takes the place of the last chunk.
Writes_CapDropsChunk ==
  /\ pump = "write"
  /\ log' = IF capped THEN log ELSE log \o Data(chunk)
  /\ pump' = IF capped THEN "mark" ELSE "arm"
  /\ UNCHANGED <<procs, out, read, chunk, onDataVars, late, timer, reap, typed, cuts>>

\* log.Write, which onData leaves out past the cap.
Writes ==
  /\ pump = "write"
  /\ log' = log \o Data(chunk)
  /\ pump' = IF capped THEN "mark" ELSE "arm"
  /\ UNCHANGED <<procs, out, read, chunk, onDataVars, late, timer, reap, typed, cuts>>

Marks ==
  /\ pump = "mark"
  /\ log' = Append(log, Capped)
  /\ pump' = "arm"
  /\ UNCHANGED <<procs, out, read, chunk, onDataVars, late, timer, reap, typed, cuts>>

\* Faulty variant: one keystroke is enough for all the gates of a chunk.
Arms_FirstOnly ==
  /\ pump = "arm"
  /\ timer' = IF hits = {} THEN timer
              ELSE [timer EXCEPT ![CHOOSE g \in hits : TRUE] = "armed"]
  /\ chunk' = <<>> /\ hits' = {} /\ writes' = FALSE /\ capped' = FALSE
  /\ pump' = "read"
  /\ UNCHANGED <<procs, out, read, liveVars, late, reap, log, typed, cuts>>

\* time.AfterFunc for every hit, and back to Read; onData's locals are gone.
Arms ==
  /\ pump = "arm"
  /\ timer' = [g \in Gates |-> IF g \in hits THEN "armed" ELSE timer[g]]
  /\ chunk' = <<>> /\ hits' = {} /\ writes' = FALSE /\ capped' = FALSE
  /\ pump' = "read"
  /\ UNCHANGED <<procs, out, read, liveVars, late, reap, log, typed, cuts>>

-----------------------------------------------------------------------------
(* A gate's timer, gateAnswerDelay later, on a goroutine of its own.          *)

\* `exited` is read under l.mu; the keystroke comes after the unlock.
TimerChecks(g) ==
  /\ timer[g] = "armed"
  /\ timer' = [timer EXCEPT ![g] =
                 IF reap \in {"wait", "reaped"} THEN "checked" ELSE "done"]
  /\ UNCHANGED <<procs, out, read, pump, chunk, onDataVars,
                 late, reap, log, typed, cuts>>

\* pty.Write; it fails on a closed PTY.
TimerTypes(g) ==
  /\ timer[g] = "checked"
  /\ IF PtyOpen THEN typed' = Append(typed, g) ELSE UNCHANGED typed
  /\ timer' = [timer EXCEPT ![g] = IF PtyOpen THEN "typed" ELSE "done"]
  /\ UNCHANGED <<procs, out, read, pump, chunk, onDataVars, late, reap, log, cuts>>

\* The note in the log; it fails silently on a closed file.
TimerNotes(g) ==
  /\ timer[g] = "typed"
  /\ log' = IF reap # "done" THEN Append(log, Note(g)) ELSE log
  /\ timer' = [timer EXCEPT ![g] = "done"]
  /\ UNCHANGED <<procs, out, read, pump, chunk, onDataVars, late, reap, typed, cuts>>

-----------------------------------------------------------------------------
(* reap.                                                                      *)

ReapStep(from, to) == /\ reap = from
                      /\ reap' = to
                      /\ UNCHANGED <<procs, out, read, pump, chunk, onDataVars,
                                     late, timer, typed, cuts>>

\* cmd.Wait knows of the shell only.
WaitReturns == ReapStep("wait", "reaped") /\ "shell" \notin procs /\ UNCHANGED log

SetsExited == ReapStep("reaped", "exited") /\ UNCHANGED log

ClosesPty == ReapStep("exited", "ptyClosed") /\ UNCHANGED log

\* Faulty variant: reap does not wait for pump.
NotesExit_NoWait == /\ ReapStep("ptyClosed", "noted")
                    /\ log' = Append(log, Exited)

\* <-l.pumped, then the exit line.
NotesExit == /\ ReapStep("ptyClosed", "noted")
             /\ pump = "closed"
             /\ log' = Append(log, Exited)

ClosesLog == ReapStep("noted", "done") /\ UNCHANGED log

-----------------------------------------------------------------------------

Pump == Reads \/ ReadEnds \/ Scans \/ Writes \/ Marks \/ Arms

Timer(g) == TimerChecks(g) \/ TimerTypes(g) \/ TimerNotes(g)

Reap == WaitReturns \/ SetsExited \/ ClosesPty \/ NotesExit \/ ClosesLog

Next == \/ \E b \in Bytes : Prints(b)
        \/ \E p \in procs : Exits(p)
        \/ GateWindowEnds
        \/ Pump \/ Reap
        \/ \E g \in Gates : Timer(g)

Spec == Init /\ [][Next]_vars

\* Every goroutine that can run is run, and here the disk answers.  Nothing is
\* assumed of the shell or of claude.
Fairness == WF_vars(Pump) /\ WF_vars(Reap) /\ \A g \in Gates : WF_vars(Timer(g))

FairSpec == Spec /\ Fairness

-----------------------------------------------------------------------------
(* Properties.                                                                *)

\* The entries of log l with output of the shell, among its first n.
OutputIn(l, n) == {i \in 1..n : l[i].kind = "data"}

\* The output in log l is the first n bytes of s, in their order.
Carries(l, s, n) ==
  /\ Cardinality(OutputIn(l, Len(l))) = n
  /\ \A i \in OutputIn(l, Len(l)) : l[i].of = s[Cardinality(OutputIn(l, i))]

\* Between two chunks the log holds exactly what has been read, in order and
\* without a gap, up to the first chunk that reaches the cap.
LogFaithful ==
  pump \in {"read", "closed"} =>
    /\ Carries(log, out, logged)
    /\ logged < LogCap => logged = read

\* A log that reached its cap says so once, and nothing of the output follows.
CapMarkedOnce ==
  /\ \A i, j \in DOMAIN log :
       i < j /\ log[i] = Capped => log[j].kind \notin {"data", "capped"}
  /\ pump \in {"read", "closed"} => (Capped \in ToSet(log) <=> logged >= LogCap)

\* TailLog's answer follows the output past the cap of the log: between two
\* chunks it is the end of all that was read.
TailFresh ==
  pump \in {"read", "closed"} =>
    tail = SubSeq(out, Max({1, read - TailBytes + 1}), read)

\* When the read that ends at c was scanned, pattern x matched in the last
\* PromptWind bytes.
ShownAt(c, x) ==
  \E i, j \in 1..c : c < i + PromptWind /\ SubSeq(out, i, j) \in Texts[x]

\* That was within the first GateWindowBytes, and remote control had not been
\* seen to be up before.
InStartup(c) ==
  /\ c <= GateWindowBytes
  /\ \A d \in cuts : d < c => ~ShownAt(d, Done)

\* A session is not typed at because of ordinary output: a gate is answered only
\* for text that a read of the startup showed.
StartupOnly ==
  \A g \in answered : \E c \in cuts : InStartup(c) /\ ShownAt(c, g)

\* And within the time limit every such gate is answered, however its text was
\* cut into reads.  What is not promised is a prompt whose beginning is more than
\* PromptWind bytes back when its end has been read: one that is cut in two, with
\* nearly a windowful after it in the second read, hangs the launch.
GateNotMissed ==
  pump # "scan" /\ ~late =>
    \A g \in Gates, c \in cuts : InStartup(c) /\ ShownAt(c, g) => g \in answered

\* No gate is answered twice, however often its text is repainted: a second
\* Enter would confirm whatever dialog comes next.  Every note in the log is of
\* a keystroke that was sent.
AnsweredOnce ==
  /\ \A i, j \in DOMAIN typed : typed[i] = typed[j] => i = j
  /\ \A g \in Gates : Note(g) \in ToSet(log) => g \in ToSet(typed)

\* The exit line comes once, after everything that pump writes: all that may
\* follow it is the note of a late timer.
ExitAfterOutput ==
  \A i, j \in DOMAIN log : i < j /\ log[i] = Exited => log[j].kind = "note"

\* When the shell is gone, its exit is recorded and the log closed, also when a
\* claude that it forked holds the PTY and prints on: reap waits for a pump that
\* closing the PTY has released.
ExitRecorded == "shell" \notin procs ~> (reap = "done" /\ Exited \in ToSet(log))

\* Every gate marked as answered has its keystroke sent, or the PTY was closed
\* first: several hits of one chunk do not lose one another's timer.
GateTyped ==
  \A g \in Gates : g \in answered ~> (g \in ToSet(typed) \/ ~PtyOpen \/ reap = "exited")

\* The comment of reap: the order in which it closes things keeps the last
\* output before an exit.  The code does not: closing the PTY first makes
\* pump's next Read fail with output still unread.
NoOutputLost == reap = "done" => read = Len(out) \/ logged >= LogCap

\* The comments of `pumped` and of onData: nothing else writes to the log once
\* pump is done, so that the exit line ends it.  The code does not keep this: a
\* gate's timer writes its note when it likes.
ExitLineLast == reap = "done" => Last(log) = Exited

=============================================================================
