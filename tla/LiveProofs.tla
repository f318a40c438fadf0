----------------------------- MODULE LiveProofs -----------------------------
(* What holds of Live for any output, cut into reads in any way, any limits   *)
(* and any set of gates.                                                      *)
EXTENDS Live, SequenceTheorems, FiniteSetTheorems, TLAPS

-----------------------------------------------------------------------------
(* The inductive invariant.                                                   *)

\* The last k of the first n entries of s.
Window(s, n, k) == SubSeq(s, IF n > k THEN n - k + 1 ELSE 1, n)

\* How much of the output scanGatesLocked and the tail have seen.
Seen == IF pump = "scan" THEN read - Len(chunk) ELSE read

\* pump reads the output from front to back.
Reading ==
  /\ out \in Seq(Bytes) /\ read \in 0..Len(out)
  /\ pump \in {"read", "scan", "write", "mark", "arm", "closed"}
  /\ chunk \in Seq(Bytes) /\ Len(chunk) <= ReadMax /\ Len(chunk) <= read
  /\ pump = "scan" => /\ chunk = SubSeq(out, read - Len(chunk) + 1, read)
                      /\ Len(chunk) > 0 /\ read \in cuts
  /\ cuts \subseteq 1..read
  /\ \A c \in cuts : c <= Seen \/ c = read

\* What onData keeps of it: two windows and a count that stops at the cap.
Keeping ==
  /\ tail = Window(out, Seen, TailBytes)
  /\ gateShut \in BOOLEAN /\ late \in BOOLEAN
  /\ head = IF gateShut THEN <<>> ELSE Window(out, Seen, PromptWind)
  /\ logged \in Nat /\ logged <= Seen /\ logged <= LogCap + ReadMax - 1
  /\ logged < LogCap => logged = Seen

\* No entry of one of these kinds comes after e.
NoneAfter(l, e, kinds) ==
  \A i, j \in 1..Len(l) : i < j /\ l[i] = e => l[j].kind \notin kinds

\* The log: the mark of the cap goes in with the chunk that reaches it, and the
\* exit line when pump is done.
Logging ==
  /\ log \in Seq(Entries)
  /\ writes \in BOOLEAN /\ capped \in BOOLEAN
  /\ reap \in {"wait", "reaped", "exited", "ptyClosed", "noted", "done"}
  /\ reap \in {"noted", "done"} => pump = "closed"
  /\ Exited \in ToSet(log) => reap \in {"noted", "done"}
  /\ pump \in {"read", "scan", "arm", "closed"} =>
       (Capped \in ToSet(log) <=> logged >= LogCap)
  /\ pump \in {"write", "mark"} => Capped \notin ToSet(log)
  /\ pump = "write" => (capped <=> logged >= LogCap)
  /\ pump = "mark" => logged >= LogCap
  /\ NoneAfter(log, Capped, {"data", "capped"})
  /\ NoneAfter(log, Exited, {"data", "capped", "exited"})

\* A gate goes from unanswered to a hit, an armed timer, a keystroke and a note,
\* and never back.
Answering ==
  /\ answered \subseteq Gates /\ hits \subseteq answered
  /\ pump \in {"read", "scan", "closed"} => hits = {}
  /\ timer \in [Gates -> {"idle", "armed", "checked", "typed", "done"}]
  /\ \A g \in Gates : g \notin answered \/ g \in hits => timer[g] = "idle"
  /\ typed \in Seq(Gates)
  /\ \A i \in 1..Len(typed) : timer[typed[i]] \in {"typed", "done"}
  /\ \A i, j \in 1..Len(typed) : typed[i] = typed[j] => i = j
  /\ \A g \in Gates : timer[g] = "typed" \/ Note(g) \in ToSet(log) => g \in ToSet(typed)

LiveInv == Reading /\ Keeping /\ Logging /\ Answering

-----------------------------------------------------------------------------
(* Lemmas on sequences.                                                       *)

\* What has been printed does not change when more is.
LEMMA OldOutput ==
  ASSUME NEW S, NEW s \in Seq(S), NEW e \in S,
         NEW m \in Nat \ {0}, NEW n \in 0..Len(s)
  PROVE  SubSeq(Append(s, e), m, n) = SubSeq(s, m, n)
<1>1. CASE n < m
  BY <1>1, SubSeqEmpty
<1>2. CASE m <= n
  BY <1>2, AppendIsConcat, SubSeqOfConcat1
<1> QED
  BY <1>1, <1>2

\* Trimming a window that a chunk was appended to moves it on.
LEMMA WindowSlides ==
  ASSUME NEW S, NEW s \in Seq(S), NEW m \in 0..Len(s), NEW n \in m..Len(s), NEW k \in Nat
  PROVE  LastOf(Window(s, m, k) \o SubSeq(s, m + 1, n), k) = Window(s, n, k)
<1> DEFINE a == IF m > k THEN m - k + 1 ELSE 1
           t == SubSeq(s, a, n)
<1>1. Len(s) \in Nat
  BY LenProperties
<1>2. a \in 1..(Len(s) + 1) /\ m \in (a - 1)..Len(s) /\ n \in m..Len(s)
  BY <1>1
<1>3. Window(s, m, k) \o SubSeq(s, m + 1, n) = t
  <2> HIDE DEF a
  <2>1. SubSeq(s, a, m) \o SubSeq(s, m + 1, n) = SubSeq(s, a, n)
    BY <1>2, ConcatAdjacentSubSeq
  <2> QED
    BY <2>1 DEF Window, a
<1>4. \A i \in a..n : s[i] \in S
  BY <1>1, <1>2, ElementOfSeq
<1>5. t \in Seq(S) /\ Len(t) = n - a + 1
  <2> HIDE DEF a
  <2> QED
    BY <1>1, <1>2, <1>4, SubSeqProperties
<1>6. CASE Len(t) <= k
  <2>1. LastOf(t, k) = t
    BY <1>5, <1>6, SubSeqFull DEF LastOf
  <2>2. a = IF n > k THEN n - k + 1 ELSE 1
    BY <1>1, <1>2, <1>5, <1>6
  <2> QED
    BY <1>3, <2>1, <2>2 DEF Window
<1>7. CASE Len(t) > k
  <2>1. LastOf(t, k) = SubSeq(t, Len(t) - k + 1, Len(t))
    BY <1>7 DEF LastOf
  <2>2. n > k /\ n - k + 1 = a + Len(t) - k
    BY <1>1, <1>2, <1>5, <1>7
  <2>3. CASE k = 0
    <3>1. SubSeq(t, Len(t) - k + 1, Len(t)) = <<>> /\ SubSeq(s, n - k + 1, n) = <<>>
      <4>1. Len(t) - k + 1 \in Int /\ Len(t) < Len(t) - k + 1
        BY <1>1, <1>2, <1>5, <2>3
      <4>2. n - k + 1 \in Int /\ n < n - k + 1 /\ n \in Int /\ Len(t) \in Int
        BY <1>1, <1>2, <1>5, <2>3
      <4> HIDE DEF t
      <4> QED
        BY <4>1, <4>2, SubSeqEmpty
    <3> HIDE DEF a, t
    <3> QED
      BY <1>3, <2>1, <2>2, <3>1 DEF Window
  <2>4. CASE k > 0
    <3>1. /\ a \in 1..Len(s) /\ n \in 1..Len(s)
          /\ Len(t) - k + 1 \in 1..(n - a + 1) /\ Len(t) \in 1..(n - a + 1)
      BY <1>1, <1>2, <1>5, <1>7, <2>2, <2>4
    <3>2. SubSeq(t, Len(t) - k + 1, Len(t)) = SubSeq(s, a + (Len(t) - k + 1) - 1, a + Len(t) - 1)
      <4> HIDE DEF a
      <4> QED
        BY <1>5, <3>1, SubSeqOfSubSeq
    <3>3. a + (Len(t) - k + 1) - 1 = n - k + 1 /\ a + Len(t) - 1 = n
      BY <1>1, <1>2, <1>5, <2>2
    <3> HIDE DEF a, t
    <3> QED
      BY <1>3, <2>1, <2>2, <3>2, <3>3 DEF Window
  <2> QED
    BY <2>3, <2>4
<1> QED
  BY <1>1, <1>2, <1>5, <1>6, <1>7

\* One element more.
LEMMA AppendAdds ==
  ASSUME NEW S, NEW s \in Seq(S), NEW e \in S
  PROVE  ToSet(Append(s, e)) = ToSet(s) \cup {e}
<1> DEFINE more == Append(s, e)
<1>1. /\ DOMAIN s = 1..Len(s) /\ Len(s) \in Nat
      /\ more \in Seq(S) /\ Len(more) = Len(s) + 1
      /\ \A i \in 1..Len(s) : more[i] = s[i]
      /\ more[Len(s) + 1] = e
  BY LenProperties, AppendProperties
<1> HIDE DEF more
<1>2. DOMAIN more = 1..Len(more)
  BY <1>1, LenProperties
<1>3. ToSet(more) = ToSet(s) \cup {e}
  BY <1>1, <1>2 DEF ToSet
<1> QED
  BY <1>3 DEF more

\* What is in a log, and what comes after what, when more is written to it.
LEMMA LogGrows ==
  ASSUME NEW l \in Seq(Entries), NEW more \in Seq(Entries)
  PROVE  /\ l \o more \in Seq(Entries)
         /\ ToSet(l \o more) = ToSet(l) \cup ToSet(more)
         /\ \A e, kinds :
              /\ NoneAfter(l, e, kinds) /\ NoneAfter(more, e, kinds)
              /\ e \in ToSet(l) => \A j \in 1..Len(more) : more[j].kind \notin kinds
              => NoneAfter(l \o more, e, kinds)
<1> DEFINE both == l \o more
<1>1. /\ Len(l) \in Nat /\ Len(more) \in Nat
      /\ DOMAIN l = 1..Len(l) /\ DOMAIN more = 1..Len(more)
  BY LenProperties
<1>2. /\ both \in Seq(Entries)
      /\ Len(both) = Len(l) + Len(more)
      /\ \A i \in 1..(Len(l) + Len(more)) :
           both[i] = IF i <= Len(l) THEN l[i] ELSE more[i - Len(l)]
  BY ConcatProperties
<1>3. DOMAIN both = 1..Len(both)
  BY <1>2, LenProperties
<1> HIDE DEF both
<1>4. ToSet(both) \subseteq ToSet(l) \cup ToSet(more)
  <2> SUFFICES ASSUME NEW i \in 1..Len(both) PROVE both[i] \in ToSet(l) \cup ToSet(more)
    BY <1>3 DEF ToSet
  <2>1. CASE i <= Len(l)
    BY <1>1, <1>2, <2>1 DEF ToSet
  <2>2. CASE i > Len(l)
    <3>1. i - Len(l) \in 1..Len(more) /\ both[i] = more[i - Len(l)]
      BY <1>1, <1>2, <2>2
    <3> QED
      BY <1>1, <3>1 DEF ToSet
  <2> QED
    BY <1>1, <1>2, <2>1, <2>2
<1>5. ToSet(l) \cup ToSet(more) \subseteq ToSet(both)
  <2>1. ASSUME NEW i \in 1..Len(l) PROVE l[i] \in ToSet(both)
    <3>1. i \in 1..Len(both) /\ both[i] = l[i]
      BY <1>1, <1>2
    <3> QED
      BY <1>3, <3>1 DEF ToSet
  <2>2. ASSUME NEW i \in 1..Len(more) PROVE more[i] \in ToSet(both)
    <3>1. Len(l) + i \in 1..Len(both) /\ both[Len(l) + i] = more[i]
      BY <1>1, <1>2
    <3> QED
      BY <1>3, <3>1 DEF ToSet
  <2> QED
    BY <1>1, <2>1, <2>2 DEF ToSet
<1>6. ASSUME NEW e, NEW kinds, NoneAfter(l, e, kinds), NoneAfter(more, e, kinds),
             e \in ToSet(l) => \A j \in 1..Len(more) : more[j].kind \notin kinds
      PROVE  NoneAfter(both, e, kinds)
  <2> SUFFICES ASSUME NEW i \in 1..Len(both), NEW j \in 1..Len(both), i < j, both[i] = e
               PROVE  both[j].kind \notin kinds
    BY DEF NoneAfter
  <2>1. CASE j <= Len(l)
    <3>1. i \in 1..Len(l) /\ j \in 1..Len(l) /\ both[i] = l[i] /\ both[j] = l[j]
      BY <1>1, <1>2, <2>1
    <3> QED
      BY <1>6, <3>1 DEF NoneAfter
  <2>2. CASE j > Len(l) /\ i <= Len(l)
    <3>1. i \in 1..Len(l) /\ both[i] = l[i] /\ j - Len(l) \in 1..Len(more)
          /\ both[j] = more[j - Len(l)]
      BY <1>1, <1>2, <2>2
    <3> QED
      BY <1>1, <1>6, <3>1 DEF ToSet
  <2>3. CASE i > Len(l)
    <3>1. /\ i - Len(l) \in 1..Len(more) /\ j - Len(l) \in 1..Len(more)
          /\ both[i] = more[i - Len(l)] /\ both[j] = more[j - Len(l)]
          /\ i - Len(l) < j - Len(l)
      BY <1>1, <1>2, <2>3
    <3> QED
      BY <1>6, <3>1 DEF NoneAfter
  <2> QED
    BY <1>1, <1>2, <2>1, <2>2, <2>3
<1> QED
  BY <1>2, <1>4, <1>5, <1>6 DEF both

\* One entry more.
LEMMA LogAppends ==
  ASSUME NEW l \in Seq(Entries), NEW x \in Entries
  PROVE  /\ Append(l, x) \in Seq(Entries)
         /\ ToSet(Append(l, x)) = ToSet(l) \cup {x}
         /\ \A e, kinds :
              NoneAfter(l, e, kinds) /\ (e \in ToSet(l) => x.kind \notin kinds)
              => NoneAfter(Append(l, x), e, kinds)
<1> DEFINE one == <<x>>
<1>1. Append(l, x) = l \o one
  BY AppendIsConcat
<1>2. one \in Seq(Entries) /\ ToSet(one) = {x} /\ Len(one) = 1 /\ one[1] = x
  BY DEF ToSet
<1> HIDE DEF one
<1>3. \A e, kinds : NoneAfter(one, e, kinds)
  BY <1>2 DEF NoneAfter
<1>4. \A j \in 1..Len(one) : one[j] = x
  BY <1>2
<1>5. ASSUME NEW e, NEW kinds,
             NoneAfter(l, e, kinds), e \in ToSet(l) => x.kind \notin kinds
      PROVE  NoneAfter(Append(l, x), e, kinds)
  <2>1. e \in ToSet(l) => \A j \in 1..Len(one) : one[j].kind \notin kinds
    BY <1>4, <1>5
  <2> QED
    BY <1>1, <1>2, <1>3, <1>5, <2>1, LogGrows
<1> QED
  BY <1>1, <1>2, <1>5, LogGrows

\* A chunk in the log.
LEMMA ChunkEntries ==
  ASSUME NEW bytes \in Seq(Bytes)
  PROVE  /\ Data(bytes) \in Seq(Entries)
         /\ \A j \in 1..Len(Data(bytes)) : Data(bytes)[j].kind = "data"
         /\ \A e \in ToSet(Data(bytes)) : e.kind = "data"
<1>1. Len(bytes) \in Nat /\ \A i \in 1..Len(bytes) : bytes[i] \in Bytes
  BY LenProperties
<1>2. \A i \in 1..Len(bytes) : Entry("data", bytes[i]) \in Entries
  BY <1>1 DEF Entry, Entries
<1>3. Data(bytes) \in [1..Len(bytes) -> Entries]
  BY <1>2 DEF Data
<1>4. Data(bytes) \in Seq(Entries) /\ Len(Data(bytes)) = Len(bytes)
  <2> DEFINE d == Data(bytes)
             n == Len(bytes)
  <2>1. d \in [1..n -> Entries] /\ n \in Nat
    BY <1>1, <1>3
  <2> HIDE DEF d, n
  <2>2. d \in Seq(Entries)
    BY <2>1, SeqDef
  <2>3. Len(d) = n
    BY <2>1, <2>2, LenProperties
  <2> QED
    BY <2>2, <2>3 DEF d, n
<1>5. \A j \in 1..Len(bytes) : Data(bytes)[j].kind = "data"
  BY DEF Data, Entry
<1> QED
  BY <1>3, <1>4, <1>5 DEF ToSet

-----------------------------------------------------------------------------
(* The steps.                                                                 *)

LEMMA LimitsAreNat ==
  /\ LogCap \in Nat /\ TailBytes \in Nat /\ PromptWind \in Nat
  /\ GateWindowBytes \in Nat /\ ReadMax \in Nat \ {0}
  /\ GateWindowBytes < LogCap
BY LimitAssumption

\* The initial states satisfy the inductive invariant.
LEMMA LiveInitInv == Init => LiveInv
<1> SUFFICES ASSUME Init PROVE LiveInv
  OBVIOUS
<1> USE LimitsAreNat DEF Init
<1>1. /\ <<>> \in Seq(Bytes) /\ <<>> \in Seq(Entries) /\ <<>> \in Seq(Gates)
      /\ Len(<<>>) = 0 /\ ToSet(<<>>) = {}
  BY EmptySeq DEF ToSet
<1>2. Reading
  BY <1>1 DEF Reading
<1>3. Seen = 0 /\ \A k \in Nat : Window(out, 0, k) = <<>>
  BY SubSeqEmpty DEF Seen, Window
<1>4. Keeping
  <2>1. Window(out, Seen, TailBytes) = <<>> /\ Window(out, Seen, PromptWind) = <<>>
    BY <1>3
  <2>2. head = IF gateShut THEN <<>> ELSE Window(out, Seen, PromptWind)
    BY <2>1, Zenon
  <2>3. gateShut \in BOOLEAN /\ late \in BOOLEAN /\ tail = Window(out, Seen, TailBytes)
    BY <2>1, Zenon
  <2>4. logged \in Nat /\ logged <= Seen /\ logged <= LogCap + ReadMax - 1 /\ logged = Seen
    BY <1>3
  <2> HIDE DEF Init
  <2> QED
    BY <2>2, <2>3, <2>4 DEF Keeping
<1>5. Logging
  <2>1. log \in Seq(Entries) /\ ToSet(log) = {} /\ Len(log) = 0
    BY <1>1
  <2>2. NoneAfter(log, Capped, {"data", "capped"}) /\ NoneAfter(log, Exited, {"data", "capped", "exited"})
    BY <2>1 DEF NoneAfter
  <2>3. writes \in BOOLEAN /\ capped \in BOOLEAN /\ pump = "read" /\ reap = "wait"
    BY Zenon
  <2>4. ~(logged >= LogCap)
    OBVIOUS
  <2> HIDE DEF Init
  <2> QED
    BY <2>1, <2>2, <2>3, <2>4 DEF Logging
<1>6. Answering
  BY <1>1 DEF Answering
<1> QED
  BY <1>2, <1>4, <1>5, <1>6 DEF LiveInv

\* What is printed, and what is read of it.
LEMMA ReadingStep ==
  ASSUME LiveInv, [Next]_vars
  PROVE  Reading'
<1> USE LimitsAreNat DEF LiveInv, Reading
<1>1. ASSUME NEW b \in Bytes, Prints(b) PROVE Reading'
  <2>1. /\ out' \in Seq(Bytes) /\ Len(out') = Len(out) + 1
        /\ Len(out) \in Nat /\ Len(chunk) \in Nat
    BY <1>1, AppendProperties, LenProperties DEF Prints
  <2>2. pump = "scan" => chunk = SubSeq(out', read - Len(chunk) + 1, read)
    BY <1>1, <2>1, OldOutput DEF Prints
  <2>3. Seen' = Seen
    BY <1>1 DEF Prints, Seen
  <2> QED
    BY <1>1, <2>1, <2>2, <2>3 DEF Prints
<1>2. CASE Reads
  <2>1. PICK n \in 1..ReadMax : /\ read + n <= Len(out) /\ read' = read + n
                                /\ chunk' = SubSeq(out, read + 1, read + n)
                                /\ cuts' = cuts \cup {read + n}
    BY <1>2 DEF Reads
  <2>2. Len(out) \in Nat /\ \A i \in (read + 1)..(read + n) : out[i] \in Bytes
    BY <2>1, LenProperties
  <2>3. chunk' \in Seq(Bytes) /\ Len(chunk') = n
    BY <2>1, <2>2, SubSeqProperties
  <2>4. pump' = "scan" /\ out' = out
    BY <1>2 DEF Reads
  <2>5. \A c \in cuts' : c \in 1..read' /\ (c <= read \/ c = read')
    BY <2>1, <2>2
  <2>6. Seen' = read
    BY <2>1, <2>3, <2>4 DEF Seen
  <2> QED
    BY <2>1, <2>2, <2>3, <2>4, <2>5, <2>6
<1>3. CASE Arms
  <2>1. <<>> \in Seq(Bytes) /\ Len(<<>>) = 0
    BY EmptySeq
  <2> QED
    BY <1>3, <2>1 DEF Arms, Seen
<1>4. CASE ReadEnds \/ Scans \/ Writes \/ Marks
  <2>1. UNCHANGED <<out, read, chunk, cuts>> /\ pump' \in {"write", "mark", "arm", "closed"}
    BY <1>4, Zenon DEF ReadEnds, Scans, Writes, Marks
  <2> QED
    BY <2>1 DEF Seen
<1>5. CASE Reap
  BY <1>5 DEF Reap, WaitReturns, SetsExited, ClosesPty, NotesExit, ClosesLog, ReapStep, Seen
<1>6. ASSUME NEW g \in Gates, Timer(g) PROVE Reading'
  BY <1>6 DEF Timer, TimerChecks, TimerTypes, TimerNotes, Seen
<1>7. CASE (\E p \in procs : Exits(p)) \/ GateWindowEnds
  BY <1>7 DEF Exits, GateWindowEnds, Seen
<1>8. CASE UNCHANGED vars
  BY <1>8 DEF vars, Seen
<1> QED
  BY <1>1, <1>2, <1>3, <1>4, <1>5, <1>6, <1>7, <1>8 DEF Next, Pump

\* The critical section of onData moves both windows on to what was read.
LEMMA ScanStep ==
  ASSUME LiveInv, Scans
  PROVE  /\ Seen = read - Len(chunk) /\ Seen \in 0..read /\ Seen' = read
         /\ \A k \in Nat : LastOf(Window(out, Seen, k) \o chunk, k) = Window(out, read, k)
         /\ logged' = IF logged < LogCap THEN read ELSE logged
         /\ chunk = SubSeq(out, Seen + 1, read)
<1> USE LimitsAreNat DEF LiveInv, Reading
<1>1. Len(out) \in Nat /\ Len(chunk) \in Nat
  BY LenProperties
<1>2. pump = "scan" /\ pump' # "scan" /\ read' = read
  BY DEF Scans
<1>3. Seen = read - Len(chunk) /\ Seen \in 0..read /\ Seen' = read
  BY <1>1, <1>2 DEF Seen
<1>4. chunk = SubSeq(out, Seen + 1, read)
  BY <1>2, <1>3
<1>5. ASSUME NEW k \in Nat
      PROVE  LastOf(Window(out, Seen, k) \o chunk, k) = Window(out, read, k)
  <2>1. Seen \in 0..Len(out) /\ read \in Seen..Len(out)
    BY <1>1, <1>3
  <2> QED
    BY <1>4, <2>1, WindowSlides
<1>6. logged' = IF logged < LogCap THEN read ELSE logged
  <2>1. writes' = (logged < LogCap)
    BY DEF Scans
  <2>2. logged' = IF writes' THEN logged + Len(chunk) ELSE logged
    BY DEF Scans
  <2>3. CASE logged < LogCap
    <3>1. logged' = logged + Len(chunk)
      BY <2>1, <2>2, <2>3, Zenon
    <3> QED
      BY <1>1, <1>3, <2>3, <3>1 DEF Keeping
  <2>4. CASE ~(logged < LogCap)
    BY <2>1, <2>2, <2>4, Zenon
  <2> QED
    BY <2>3, <2>4
<1> QED
  BY <1>3, <1>4, <1>5, <1>6

\* Steps that are neither of pump nor of the shell leave what pump keeps alone.
LEMMA OthersKeep ==
  ASSUME [Next]_vars, ~Pump, ~\E b \in Bytes : Prints(b)
  PROVE  /\ UNCHANGED <<out, read, pump, chunk, onDataVars, cuts>>
         /\ \/ UNCHANGED late
            \/ late' = TRUE
BY DEF Next, Pump, Reap, WaitReturns, SetsExited, ClosesPty, NotesExit, ClosesLog,
   ReapStep, Timer, TimerChecks, TimerTypes, TimerNotes, Exits,
   GateWindowEnds, vars

\* Only Scans moves the windows.
LEMMA SeenStays ==
  ASSUME LiveInv, [Next]_vars, ~Scans
  PROVE  /\ Seen' = Seen /\ Seen \in 0..Len(out)
         /\ UNCHANGED liveVars
         /\ late' = late \/ late' = TRUE
         /\ out' = out \/ \E b \in Bytes : out' = Append(out, b)
<1> USE LimitsAreNat DEF LiveInv
<1>1. Len(chunk) \in Nat /\ Len(out) \in Nat /\ Seen \in 0..Len(out) /\ read \in 0..Len(out)
  BY LenProperties DEF Reading, Seen
<1>2. CASE \E b \in Bytes : Prints(b)
  BY <1>1, <1>2 DEF Prints, Seen, onDataVars
<1>3. CASE Reads
  <2>1. PICK n \in 1..ReadMax : /\ read + n <= Len(out) /\ read' = read + n
                                /\ chunk' = SubSeq(out, read + 1, read + n)
    BY <1>3 DEF Reads
  <2>2. Len(chunk') = n
    <3>1. read \in Nat /\ \A i \in (read + 1)..(read + n) : out[i] \in Bytes
      BY <1>1, <2>1, LenProperties DEF Reading
    <3> QED
      BY <2>1, <3>1, SubSeqProperties
  <2>3. pump = "read" /\ pump' = "scan" /\ UNCHANGED <<out, liveVars, late>>
    BY <1>3 DEF Reads, onDataVars
  <2>4. Seen = read /\ Seen' = read' - Len(chunk')
    BY <2>3 DEF Seen
  <2> QED
    BY <1>1, <2>1, <2>2, <2>3, <2>4
<1>4. CASE ReadEnds \/ Writes \/ Marks \/ Arms
  BY <1>1, <1>4 DEF ReadEnds, Writes, Marks, Arms, Seen, onDataVars
<1>5. CASE ~Pump /\ ~\E b \in Bytes : Prints(b)
  BY <1>1, <1>5, OthersKeep DEF Seen, onDataVars
<1> QED
  BY <1>2, <1>3, <1>4, <1>5 DEF Pump

\* The windows, and the count.
LEMMA KeepingStep ==
  ASSUME LiveInv, [Next]_vars
  PROVE  Keeping'
<1> USE LimitsAreNat DEF LiveInv
<1>1. Len(chunk) \in Nat /\ Len(out) \in Nat /\ Seen \in 0..read /\ read \in 0..Len(out)
  BY LenProperties DEF Reading, Seen
<1>2. CASE ~Scans
  <2>1. /\ Seen' = Seen /\ UNCHANGED <<logged, head, tail, gateShut>>
        /\ late' = late \/ late' = TRUE
    BY <1>2, SeenStays DEF liveVars
  <2>2. \A k \in Nat : Window(out', Seen, k) = Window(out, Seen, k)
    <3> SUFFICES ASSUME NEW k \in Nat PROVE Window(out', Seen, k) = Window(out, Seen, k)
      OBVIOUS
    <3> DEFINE a == IF Seen > k THEN Seen - k + 1 ELSE 1
    <3>1. a \in Nat \ {0} /\ Seen \in 0..Len(out) /\ out \in Seq(Bytes)
      BY <1>1 DEF Reading
    <3>2. \A b \in Bytes : SubSeq(Append(out, b), a, Seen) = SubSeq(out, a, Seen)
      <4> HIDE DEF a
      <4> QED
        BY <3>1, OldOutput
    <3>3. out' = out \/ \E b \in Bytes : out' = Append(out, b)
      BY <1>2, SeenStays
    <3> QED
      BY <3>2, <3>3 DEF Window
  <2>3. tail' = Window(out', Seen', TailBytes)
        /\ Window(out', Seen', PromptWind) = Window(out, Seen, PromptWind)
    BY <2>1, <2>2 DEF Keeping
  <2>4. /\ gateShut' \in BOOLEAN /\ late' \in BOOLEAN
        /\ head' = IF gateShut' THEN <<>> ELSE Window(out', Seen', PromptWind)
    BY <2>1, <2>3, Zenon DEF Keeping
  <2>5. /\ logged' \in Nat /\ logged' <= Seen' /\ logged' <= LogCap + ReadMax - 1
        /\ logged' < LogCap => logged' = Seen'
    BY <2>1 DEF Keeping
  <2> QED
    BY <2>3, <2>4, <2>5 DEF Keeping
<1>3. CASE Scans
  <2>1. /\ Seen' = read /\ out' = out /\ late' = late
        /\ LastOf(tail \o chunk, TailBytes) = Window(out, read, TailBytes)
        /\ gateShut \/ LastOf(head \o chunk, PromptWind) = Window(out, read, PromptWind)
        /\ logged' = IF logged < LogCap THEN read ELSE logged
    BY <1>3, ScanStep DEF Keeping, Scans
  <2>2. tail' = Window(out', Seen', TailBytes)
    BY <1>3, <2>1 DEF Scans
  <2>3. gateShut' \in BOOLEAN
        /\ head' = IF gateShut' THEN <<>> ELSE Window(out', Seen', PromptWind)
    <3>1. ScanGates
      BY <1>3 DEF Scans
    <3>2. CASE gateShut
      <4>1. gateShut' = gateShut /\ head' = <<>>
        BY <3>1, <3>2, Zenon DEF ScanGates, Keeping
      <4> QED
        BY <3>2, <4>1, Zenon DEF Keeping
    <3>3. CASE ~gateShut /\ StartupOver
      <4>1. gateShut' = TRUE /\ head' = <<>>
        BY <3>1, <3>3, Zenon DEF ScanGates
      <4> QED
        BY <4>1, Zenon
    <3>4. CASE ~gateShut /\ ~StartupOver
      <4>1. /\ gateShut' = Shows(ScanWindow, Done)
            /\ head' = IF gateShut' THEN <<>> ELSE ScanWindow
        BY <3>1, <3>4, Zenon DEF ScanGates
      <4>2. ScanWindow = Window(out', Seen', PromptWind)
        BY <2>1, <3>4 DEF ScanWindow
      <4>3. gateShut' \in BOOLEAN
        BY <4>1 DEF Shows
      <4> QED
        BY <4>1, <4>2, <4>3, Zenon
    <3> QED
      BY <3>2, <3>3, <3>4
  <2>4. late' \in BOOLEAN
    BY <2>1, Zenon DEF Keeping
  <2>5. /\ logged' \in Nat /\ logged' <= Seen' /\ logged' <= LogCap + ReadMax - 1
        /\ logged' < LogCap => logged' = Seen'
    BY <1>1, <1>3, <2>1, ScanStep DEF Keeping, Reading
  <2> QED
    BY <2>2, <2>3, <2>4, <2>5 DEF Keeping
<1> QED
  BY <1>2, <1>3

\* The log.
LEMMA LoggingStep ==
  ASSUME LiveInv, [Next]_vars
  PROVE  Logging'
<1> USE LimitsAreNat DEF LiveInv
<1>1. /\ Capped \in Entries /\ Exited \in Entries
      /\ \A g \in Gates : Note(g) \in Entries
      /\ Capped.kind = "capped" /\ Exited.kind = "exited"
      /\ \A g \in Gates : Note(g).kind = "note"
  BY DEF Capped, Exited, Note, Entry, Entries
<1>2. Capped # Exited /\ \A g \in Gates : Note(g) \notin {Capped, Exited}
  BY <1>1
<1>3. CASE Writes
  <2> DEFINE more == Data(chunk)
  <2>1. /\ more \in Seq(Entries)
        /\ \A j \in 1..Len(more) : more[j].kind = "data"
        /\ \A e \in ToSet(more) : e.kind = "data"
    BY ChunkEntries DEF Reading
  <2> HIDE DEF more
  <2>2. log' = log \o more
    BY <1>3 DEF Writes, more
  <2>3. Capped \notin ToSet(more) /\ Exited \notin ToSet(more)
    BY <1>1, <2>1
  <2>4. Capped \notin ToSet(log) /\ Exited \notin ToSet(log)
    BY <1>3 DEF Writes, Logging
  <2>5. log' \in Seq(Entries) /\ ToSet(log') = ToSet(log) \cup ToSet(more)
    BY <2>1, <2>2, LogGrows DEF Logging
  <2>6. /\ NoneAfter(more, Capped, {"data", "capped"})
        /\ NoneAfter(more, Exited, {"data", "capped", "exited"})
    BY <1>1, <2>1 DEF NoneAfter
  <2>7. /\ NoneAfter(log', Capped, {"data", "capped"})
        /\ NoneAfter(log', Exited, {"data", "capped", "exited"})
    BY <2>1, <2>2, <2>4, <2>6, LogGrows DEF Logging
  <2>8. pump = "write" /\ pump' = (IF capped THEN "mark" ELSE "arm")
        /\ UNCHANGED <<writes, capped, logged, reap>>
    BY <1>3 DEF Writes, onDataVars, liveVars
  <2>9. Capped \notin ToSet(log') /\ Exited \notin ToSet(log')
    BY <2>3, <2>4, <2>5
  <2> QED
    BY <2>5, <2>7, <2>8, <2>9 DEF Logging
<1>4. CASE Marks
  <2>1. /\ log' = Append(log, Capped) /\ pump = "mark" /\ pump' = "arm"
        /\ UNCHANGED <<writes, capped, logged, reap>>
    BY <1>4 DEF Marks, onDataVars, liveVars
  <2>2. Capped \notin ToSet(log) /\ Exited \notin ToSet(log) /\ logged >= LogCap
    BY <2>1 DEF Logging
  <2>3. log' \in Seq(Entries) /\ ToSet(log') = ToSet(log) \cup {Capped}
    BY <1>1, <2>1, LogAppends DEF Logging
  <2>4. /\ NoneAfter(log', Capped, {"data", "capped"})
        /\ NoneAfter(log', Exited, {"data", "capped", "exited"})
    BY <1>1, <2>1, <2>2, LogAppends DEF Logging
  <2> QED
    BY <1>2, <2>1, <2>2, <2>3, <2>4 DEF Logging
<1>5. ASSUME NEW g \in Gates, Timer(g) PROVE Logging'
  <2>1. UNCHANGED <<pump, writes, capped, logged, reap>>
    BY <1>5 DEF Timer, TimerChecks, TimerTypes, TimerNotes, onDataVars, liveVars
  <2>2. log' = log \/ log' = Append(log, Note(g))
    BY <1>5 DEF Timer, TimerChecks, TimerTypes, TimerNotes
  <2>3. CASE log' = log
    BY <2>1, <2>3 DEF Logging
  <2>4. CASE log' = Append(log, Note(g))
    <3>1. log' \in Seq(Entries) /\ ToSet(log') = ToSet(log) \cup {Note(g)}
      BY <1>1, <2>4, LogAppends DEF Logging
    <3>2. /\ NoneAfter(log', Capped, {"data", "capped"})
          /\ NoneAfter(log', Exited, {"data", "capped", "exited"})
      BY <1>1, <2>4, LogAppends DEF Logging
    <3>3. (Capped \in ToSet(log') <=> Capped \in ToSet(log))
          /\ (Exited \in ToSet(log') <=> Exited \in ToSet(log))
      BY <1>2, <3>1
    <3> QED
      BY <2>1, <3>1, <3>2, <3>3 DEF Logging
  <2> QED
    BY <2>2, <2>3, <2>4
<1>6. CASE NotesExit
  <2>1. /\ log' = Append(log, Exited) /\ pump = "closed" /\ reap' = "noted"
        /\ UNCHANGED <<pump, writes, capped, logged>>
    BY <1>6 DEF NotesExit, ReapStep, onDataVars, liveVars
  <2>2. log' \in Seq(Entries) /\ ToSet(log') = ToSet(log) \cup {Exited}
    BY <1>1, <2>1, LogAppends DEF Logging
  <2>3. Exited \notin ToSet(log)
    <3>1. reap = "ptyClosed"
      BY <1>6 DEF NotesExit, ReapStep
    <3> QED
      BY <3>1 DEF Logging
  <2>4. /\ NoneAfter(log', Capped, {"data", "capped"})
        /\ NoneAfter(log', Exited, {"data", "capped", "exited"})
    BY <1>1, <2>1, <2>3, LogAppends DEF Logging
  <2> QED
    BY <1>2, <2>1, <2>2, <2>4 DEF Logging
<1>7. CASE Scans
  <2>1. /\ pump = "scan" /\ UNCHANGED <<log, reap>>
        /\ writes' = (logged < LogCap)
        /\ capped' = (writes' /\ logged' >= LogCap)
        /\ pump' = IF writes' THEN "write" ELSE IF capped' THEN "mark" ELSE "arm"
    BY <1>7 DEF Scans, CapReached
  <2>2. /\ reap \notin {"noted", "done"} /\ Exited \notin ToSet(log)
        /\ (Capped \in ToSet(log) <=> logged >= LogCap)
    BY <2>1 DEF Logging
  <2>3. writes' \in BOOLEAN /\ capped' \in BOOLEAN
    <3>1. (logged < LogCap) \in BOOLEAN /\ (writes' /\ logged' >= LogCap) \in BOOLEAN
      BY SMT
    <3> QED
      BY <2>1, <3>1, SMT
  <2>4. logged \in Nat /\ logged' \in Nat
    <3>1. logged \in Nat /\ read \in Nat
      BY LenProperties DEF Keeping, Reading
    <3> QED
      BY <1>7, <3>1, ScanStep
  <2>5. CASE logged < LogCap
    <3>1. pump' = "write" /\ (capped' <=> logged' >= LogCap)
      BY <2>1, <2>5, Zenon
    <3>2. Capped \notin ToSet(log)
      BY <2>2, <2>4, <2>5
    <3> QED
      BY <2>1, <2>2, <2>3, <3>1, <3>2 DEF Logging
  <2>6. CASE ~(logged < LogCap)
    <3>1. pump' = "arm"
      BY <2>1, <2>6, Zenon
    <3>2. logged' = logged
      BY <1>7, <2>6, ScanStep
    <3> QED
      BY <2>1, <2>2, <2>3, <3>1, <3>2 DEF Logging
  <2> QED
    BY <2>5, <2>6
<1>8. CASE Arms
  <2>1. /\ UNCHANGED <<log, reap, logged>> /\ pump = "arm" /\ pump' = "read"
        /\ writes' = FALSE /\ capped' = FALSE
    BY <1>8 DEF Arms, liveVars
  <2>2. writes' \in BOOLEAN /\ capped' \in BOOLEAN
    BY <2>1, Zenon
  <2> QED
    BY <2>1, <2>2 DEF Logging
<1>9. CASE Reads \/ ReadEnds
  <2>1. /\ UNCHANGED <<log, reap, logged, writes, capped>>
        /\ pump = "read" /\ pump' \in {"scan", "closed"}
    BY <1>9 DEF Reads, ReadEnds, onDataVars, liveVars
  <2>2. reap \notin {"noted", "done"}
    BY <2>1 DEF Logging
  <2> QED
    BY <2>1, <2>2 DEF Logging
<1>10. CASE WaitReturns \/ SetsExited \/ ClosesPty \/ ClosesLog
  <2>1. /\ UNCHANGED <<log, pump, logged, writes, capped>>
        /\ \/ reap = "noted" /\ reap' = "done"
           \/ reap \notin {"noted", "done"} /\ reap' \in {"reaped", "exited", "ptyClosed"}
    BY <1>10 DEF WaitReturns, SetsExited, ClosesPty, ClosesLog, ReapStep,
       onDataVars, liveVars
  <2> QED
    BY <2>1 DEF Logging
<1>11. CASE \/ (\E p \in procs : Exits(p)) \/ (\E b \in Bytes : Prints(b))
             \/ GateWindowEnds \/ UNCHANGED vars
  <2>1. UNCHANGED <<log, reap, pump, logged, writes, capped>>
    BY <1>11 DEF Exits, GateWindowEnds, Prints, vars, onDataVars, liveVars
  <2> QED
    BY <2>1 DEF Logging
<1> QED
  BY <1>3, <1>4, <1>5, <1>6, <1>7, <1>8, <1>9, <1>10, <1>11 DEF Next, Pump, Reap

\* What onData finds is new.
LEMMA ScanHits ==
  ASSUME LiveInv, Scans
  PROVE  /\ hits' \subseteq Gates \ answered
         /\ answered' = answered \cup hits'
<1>1. ScanGates
  BY DEF Scans
<1>2. CASE gateShut
  BY <1>1, <1>2, Zenon DEF ScanGates
<1>3. CASE ~gateShut /\ StartupOver
  BY <1>1, <1>3, Zenon DEF ScanGates
<1>4. CASE ~gateShut /\ ~StartupOver
  <2>1. hits' = NewHits /\ answered' = answered \cup hits'
    BY <1>1, <1>4, Zenon DEF ScanGates
  <2> QED
    BY <2>1 DEF NewHits
<1> QED
  BY <1>2, <1>3, <1>4

\* The gates and their timers.
LEMMA AnsweringStep ==
  ASSUME LiveInv, [Next]_vars
  PROVE  Answering'
<1> USE DEF LiveInv
<1>1. /\ DOMAIN typed = 1..Len(typed) /\ Len(typed) \in Nat
      /\ \A i \in 1..Len(typed) : typed[i] \in Gates
  BY LenProperties, ElementOfSeq DEF Answering
<1>2. /\ \A g \in Gates : Note(g) \in Entries /\ Note(g) \notin {Capped, Exited}
      /\ \A g, h \in Gates : Note(g) = Note(h) => g = h
      /\ \A g \in Gates : Note(g).kind = "note"
      /\ Capped \in Entries /\ Exited \in Entries
  BY DEF Note, Capped, Exited, Entry, Entries
<1>3. CASE Scans
  <2>1. UNCHANGED <<timer, typed, log>> /\ pump' \notin {"read", "scan", "closed"}
    BY <1>3, Zenon DEF Scans
  <2>2. pump = "scan"
    BY <1>3 DEF Scans
  <2>3. /\ answered' \subseteq Gates /\ hits' \subseteq answered'
        /\ \A g \in Gates : g \notin answered' \/ g \in hits' => timer[g] = "idle"
    BY <1>3, ScanHits DEF Answering
  <2> QED
    BY <2>1, <2>3 DEF Answering
<1>4. CASE Arms
  <2>1. /\ timer' = [g \in Gates |-> IF g \in hits THEN "armed" ELSE timer[g]]
        /\ hits' = {} /\ UNCHANGED <<answered, typed, log>>
    BY <1>4 DEF Arms, liveVars
  <2>2. timer' \in [Gates -> {"idle", "armed", "checked", "typed", "done"}]
    BY <2>1 DEF Answering
  <2>3. \A i \in 1..Len(typed) : timer'[typed[i]] = timer[typed[i]]
    BY <1>1, <2>1 DEF Answering
  <2>4. \A g \in Gates : timer'[g] = "typed" => timer[g] = "typed"
    BY <2>1
  <2>5. \A g \in Gates : g \notin answered => timer'[g] = "idle"
    BY <2>1 DEF Answering
  <2> QED
    BY <2>1, <2>2, <2>3, <2>4, <2>5 DEF Answering
<1>5. CASE Writes
  <2>1. /\ UNCHANGED <<answered, hits, timer, typed>> /\ log' = log \o Data(chunk)
        /\ pump' \in {"mark", "arm"}
    BY <1>5, Zenon DEF Writes, onDataVars, liveVars
  <2>2. ToSet(log') = ToSet(log) \cup ToSet(Data(chunk))
    BY <2>1, ChunkEntries, LogGrows DEF Reading, Logging
  <2>3. \A g \in Gates : Note(g) \in ToSet(log') => Note(g) \in ToSet(log)
    BY <1>2, <2>2, ChunkEntries DEF Reading
  <2> QED
    BY <2>1, <2>3 DEF Answering
<1>6. CASE Marks \/ NotesExit
  <2>1. /\ UNCHANGED <<answered, hits, timer, typed>>
        /\ \E e \in {Capped, Exited} : log' = Append(log, e)
        /\ pump' = pump \/ pump' = "arm"
    BY <1>6 DEF Marks, NotesExit, ReapStep, onDataVars, liveVars
  <2>2. ToSet(log') \subseteq ToSet(log) \cup {Capped, Exited}
    BY <1>2, <2>1, LogAppends DEF Logging
  <2>3. \A g \in Gates : Note(g) \in ToSet(log') => Note(g) \in ToSet(log)
    BY <1>2, <2>2
  <2> QED
    BY <2>1, <2>3 DEF Answering
<1>7. ASSUME NEW g \in Gates, TimerChecks(g) PROVE Answering'
  <2>1. /\ UNCHANGED <<answered, hits, pump, typed, log>> /\ timer[g] = "armed"
        /\ \E new \in {"checked", "done"} : timer' = [timer EXCEPT ![g] = new]
    BY <1>7, Zenon DEF TimerChecks, onDataVars, liveVars
  <2>2. \A i \in 1..Len(typed) : typed[i] # g
    BY <2>1 DEF Answering
  <2> QED
    BY <1>1, <2>1, <2>2 DEF Answering
<1>8. ASSUME NEW g \in Gates, TimerTypes(g) PROVE Answering'
  <2>1. /\ UNCHANGED <<answered, hits, pump, log>> /\ timer[g] = "checked"
        /\ \/ typed' = Append(typed, g) /\ timer' = [timer EXCEPT ![g] = "typed"]
           \/ typed' = typed /\ timer' = [timer EXCEPT ![g] = "done"]
    BY <1>8, Zenon DEF TimerTypes, onDataVars, liveVars
  <2>2. \A i \in 1..Len(typed) : typed[i] # g
    BY <2>1 DEF Answering
  <2>3. CASE typed' = Append(typed, g) /\ timer' = [timer EXCEPT ![g] = "typed"]
    <3>1. /\ typed' \in Seq(Gates) /\ Len(typed') = Len(typed) + 1
          /\ \A i \in 1..Len(typed) : typed'[i] = typed[i]
          /\ typed'[Len(typed) + 1] = g
      BY <2>3, AppendProperties DEF Answering
    <3>2. ToSet(typed') = ToSet(typed) \cup {g}
      BY <2>3, AppendAdds DEF Answering
    <3>3. /\ timer' \in [Gates -> {"idle", "armed", "checked", "typed", "done"}]
          /\ timer'[g] = "typed" /\ \A h \in Gates \ {g} : timer'[h] = timer[h]
      BY <2>3 DEF Answering
    <3>4. \A i \in 1..Len(typed') : timer'[typed'[i]] \in {"typed", "done"}
      BY <1>1, <2>2, <3>1, <3>3 DEF Answering
    <3>5. \A i, j \in 1..Len(typed') : typed'[i] = typed'[j] => i = j
      BY <1>1, <2>2, <3>1 DEF Answering
    <3>6. \A h \in Gates : timer'[h] = "typed" \/ Note(h) \in ToSet(log')
                            => h \in ToSet(typed')
      BY <2>1, <3>2, <3>3 DEF Answering
    <3> QED
      BY <2>1, <3>1, <3>3, <3>4, <3>5, <3>6 DEF Answering
  <2>4. CASE typed' = typed /\ timer' = [timer EXCEPT ![g] = "done"]
    BY <1>1, <2>1, <2>2, <2>4 DEF Answering
  <2> QED
    BY <2>1, <2>3, <2>4
<1>9. ASSUME NEW g \in Gates, TimerNotes(g) PROVE Answering'
  <2>1. /\ UNCHANGED <<answered, hits, pump, typed>> /\ timer[g] = "typed"
        /\ timer' = [timer EXCEPT ![g] = "done"]
        /\ log' = log \/ log' = Append(log, Note(g))
    BY <1>9, Zenon DEF TimerNotes, onDataVars, liveVars
  <2>2. ToSet(log') \subseteq ToSet(log) \cup {Note(g)}
    BY <1>2, <2>1, LogAppends DEF Logging
  <2>3. g \in ToSet(typed)
    BY <2>1 DEF Answering
  <2>4. \A h \in Gates : Note(h) \in ToSet(log') => h \in ToSet(typed)
    BY <1>2, <2>2, <2>3 DEF Answering
  <2> QED
    BY <1>1, <2>1, <2>4 DEF Answering
<1>10. CASE \/ Reads \/ ReadEnds \/ WaitReturns \/ SetsExited \/ ClosesPty \/ ClosesLog
            \/ (\E p \in procs : Exits(p)) \/ GateWindowEnds \/ (\E b \in Bytes : Prints(b))
            \/ UNCHANGED vars
  <2>1. /\ UNCHANGED <<answered, hits, timer, typed, log>>
        /\ pump' = pump \/ pump = "read"
    BY <1>10 DEF Reads, ReadEnds, WaitReturns, SetsExited, ClosesPty, ClosesLog,
       ReapStep, Exits, GateWindowEnds, Prints, vars, onDataVars, liveVars
  <2> QED
    BY <2>1 DEF Answering
<1> QED
  BY <1>3, <1>4, <1>5, <1>6, <1>7, <1>8, <1>9, <1>10 DEF Next, Pump, Reap, Timer

\* The inductive invariant holds for ever.
THEOREM LiveInvariance == Spec => []LiveInv
<1>1. LiveInv /\ [Next]_vars => LiveInv'
  BY ReadingStep, KeepingStep, LoggingStep, AnsweringStep DEF LiveInv
<1> QED
  BY LiveInitInv, <1>1, PTL DEF Spec

-----------------------------------------------------------------------------
(* What follows.                                                              *)

\* For any gates and any output: no gate is answered twice, and every note in
\* the log is of a keystroke that was sent.
THEOREM GatesAnsweredOnce == Spec => []AnsweredOnce
<1>1. LiveInv => AnsweredOnce
  <2> SUFFICES ASSUME LiveInv PROVE AnsweredOnce
    OBVIOUS
  <2>1. DOMAIN typed = 1..Len(typed)
    BY LenProperties DEF LiveInv, Answering
  <2> QED
    BY <2>1 DEF LiveInv, Answering, AnsweredOnce
<1> QED
  BY LiveInvariance, <1>1, PTL

\* However reap, pump and the timers interleave: the exit line comes once, and
\* nothing but the note of a timer comes after it.
THEOREM ExitLineFollows == Spec => []ExitAfterOutput
<1>1. LiveInv => ExitAfterOutput
  <2> SUFFICES ASSUME LiveInv PROVE ExitAfterOutput
    OBVIOUS
  <2>1. DOMAIN log = 1..Len(log) /\ \A j \in 1..Len(log) : log[j] \in Entries
    BY LenProperties, ElementOfSeq DEF LiveInv, Logging
  <2>2. \A j \in 1..Len(log) : log[j].kind \in {"data", "capped", "exited", "note"}
    BY <2>1 DEF Entries
  <2> QED
    BY <2>1, <2>2 DEF LiveInv, Logging, NoneAfter, ExitAfterOutput
<1> QED
  BY LiveInvariance, <1>1, PTL

\* For any cap and any cut of the output into reads: a log that reached its cap
\* says so, once, and nothing of the output follows.
THEOREM CapIsMarkedOnce == Spec => []CapMarkedOnce
<1>1. LiveInv => CapMarkedOnce
  <2> SUFFICES ASSUME LiveInv PROVE CapMarkedOnce
    OBVIOUS
  <2>1. DOMAIN log = 1..Len(log)
    BY LenProperties DEF LiveInv, Logging
  <2> QED
    BY <2>1 DEF LiveInv, Logging, NoneAfter, CapMarkedOnce
<1> QED
  BY LiveInvariance, <1>1, PTL

\* For any cap: the tail is the end of all that was read.
THEOREM TailStaysFresh == Spec => []TailFresh
<1>1. LiveInv => TailFresh
  <2> SUFFICES ASSUME LiveInv, pump \in {"read", "closed"}
               PROVE  tail = SubSeq(out, Max({1, read - TailBytes + 1}), read)
    BY DEF TailFresh
  <2>1. read \in Nat /\ TailBytes \in Nat
    BY LimitsAreNat, LenProperties DEF LiveInv, Reading
  <2>2. Max({1, read - TailBytes + 1}) = IF read > TailBytes THEN read - TailBytes + 1 ELSE 1
    <3> DEFINE m == IF read > TailBytes THEN read - TailBytes + 1 ELSE 1
               both == {1, read - TailBytes + 1}
    <3>1. m \in both /\ \A y \in both : m >= y
      BY <2>1
    <3>2. \A x \in both : (\A y \in both : x >= y) => x = m
      BY <2>1
    <3> HIDE DEF m, both
    <3>3. Max(both) = m
      BY <3>1, <3>2 DEF Max
    <3> QED
      BY <3>3 DEF m, both
  <2>3. tail = Window(out, read, TailBytes)
    BY DEF LiveInv, Keeping, Seen
  <2> QED
    BY <2>2, <2>3 DEF Window
<1> QED
  BY LiveInvariance, <1>1, PTL

\* What a window is.
LEMMA WindowType ==
  ASSUME NEW S, NEW s \in Seq(S), NEW n \in 0..Len(s), NEW k \in Nat
  PROVE  Window(s, n, k) \in Seq(S) /\ Len(Window(s, n, k)) <= k
<1> DEFINE a == IF n > k THEN n - k + 1 ELSE 1
           w == SubSeq(s, a, n)
<1>1. Len(s) \in Nat /\ \A i \in 1..Len(s) : s[i] \in S
  BY LenProperties, ElementOfSeq
<1>2. a \in 1..(n + 1) /\ n - a + 1 \in 0..k
  BY <1>1
<1>3. w \in Seq(S) /\ Len(w) = IF a <= n THEN n - a + 1 ELSE 0
  <2>1. \A i \in a..n : s[i] \in S
    BY <1>1, <1>2
  <2>2. a \in Int /\ n \in Int
    BY <1>1, <1>2
  <2> HIDE DEF a
  <2> QED
    BY <2>1, <2>2, SubSeqProperties
<1>4. Window(s, n, k) = w
  BY DEF Window
<1> HIDE DEF a, w
<1> QED
  BY <1>2, <1>3, <1>4

ProcsType == procs \subseteq {"shell", "claude"}

\* Type correctness, with the lengths of the windows and the bound on `logged`.
THEOREM LiveTypeCorrect == Spec => []TypeOK
<1>1. Init => ProcsType
  BY DEF Init, ProcsType
<1>2. ProcsType /\ [Next]_vars => ProcsType'
  <2> SUFFICES ASSUME ProcsType, [Next]_vars PROVE ProcsType'
    OBVIOUS
  <2>1. procs' \subseteq procs
    BY DEF Next, Prints, Exits, GateWindowEnds, Pump, Reads, ReadEnds, Scans,
       Writes, Marks, Arms, Reap, WaitReturns, SetsExited, ClosesPty, NotesExit,
       ClosesLog, ReapStep, Timer, TimerChecks, TimerTypes, TimerNotes, vars
  <2> QED
    BY <2>1 DEF ProcsType
<1>3. Spec => []ProcsType
  BY <1>1, <1>2, PTL DEF Spec
<1>4. LiveInv /\ ProcsType => TypeOK
  <2> SUFFICES ASSUME LiveInv, ProcsType PROVE TypeOK
    OBVIOUS
  <2> USE LimitsAreNat DEF LiveInv
  <2>1. /\ Len(chunk) \in Nat /\ Len(out) \in Nat /\ read \in 0..Len(out)
        /\ Seen \in 0..Len(out)
    BY LenProperties DEF Reading, Seen
  <2>2. tail \in Seq(Bytes) /\ Len(tail) <= TailBytes
    BY <2>1, WindowType DEF Reading, Keeping
  <2>3. head \in Seq(Bytes) /\ Len(head) <= PromptWind
    <3>1. /\ Window(out, Seen, PromptWind) \in Seq(Bytes)
          /\ Len(Window(out, Seen, PromptWind)) <= PromptWind
      BY <2>1, WindowType DEF Reading
    <3>2. <<>> \in Seq(Bytes) /\ Len(<<>>) <= PromptWind
      BY EmptySeq
    <3> QED
      BY <3>1, <3>2, Zenon DEF Keeping
  <2>4. procs \subseteq {"shell", "claude"} /\ late \in BOOLEAN /\ gateShut \in BOOLEAN
        /\ writes \in BOOLEAN /\ capped \in BOOLEAN
    BY Zenon DEF Keeping, Logging, ProcsType
  <2>5. log \in Seq(Entries)
    BY DEF Logging
  <2>6. logged \in 0..(LogCap + ReadMax - 1)
    BY DEF Keeping
  <2> QED
    BY <2>1, <2>2, <2>3, <2>4, <2>5, <2>6 DEF TypeOK, Reading, Logging, Answering
<1> QED
  BY LiveInvariance, <1>3, <1>4, PTL

-----------------------------------------------------------------------------
(* The gates' window of time and of output.                                   *)

\* The reads that onData has scanned.
Scanned == {c \in cuts : c <= Seen}

\* Why scanning goes on, why a gate was answered, why one was not, and why
\* scanning ended.
Startup ==
  /\ ~gateShut => \A d \in Scanned : ~ShownAt(d, Done)
  /\ \A g \in answered : \E c \in Scanned : InStartup(c) /\ ShownAt(c, g)
  /\ ~late => \A g \in Gates, c \in Scanned :
                InStartup(c) /\ ShownAt(c, g) => g \in answered
  /\ gateShut => \/ late \/ Seen > GateWindowBytes \/ answered = Gates
                 \/ \E d \in Scanned : ShownAt(d, Done)

\* A pattern matches in the window exactly if one of its texts ends before the
\* end of the read and begins less than PromptWind bytes before it.
LEMMA WindowShows ==
  ASSUME LiveInv, NEW c \in 1..Len(out), NEW x \in Gates \cup {Done}
  PROVE  Shows(Window(out, c, PromptWind), x) <=> ShownAt(c, x)
<1> USE LimitsAreNat
<1> DEFINE a == IF c > PromptWind THEN c - PromptWind + 1 ELSE 1
           w == SubSeq(out, a, c)
<1>1. out \in Seq(Bytes) /\ Len(out) \in Nat /\ \A i \in 1..Len(out) : out[i] \in Bytes
  BY LenProperties, ElementOfSeq DEF LiveInv, Reading
<1>2. a \in 1..(c + 1) /\ c \in 1..Len(out) /\ c < a + PromptWind
  BY <1>1
<1>3. <<>> \notin Texts[x]
  BY PatternAssumption
<1>4. Window(out, c, PromptWind) = w
  BY DEF Window
<1>5. \A i \in 1..c : c < i + PromptWind => a <= i
  BY <1>1
<1> HIDE DEF a
<1>6. w \in Seq(Bytes) /\ Len(w) = IF a <= c THEN c - a + 1 ELSE 0
  <2>1. \A i \in a..c : out[i] \in Bytes
    BY <1>1, <1>2
  <2>2. a \in Int /\ c \in Int
    BY <1>1, <1>2
  <2> QED
    BY <2>1, <2>2, SubSeqProperties
<1> HIDE DEF w
<1>7. ASSUME NEW i \in 0..Len(w), NEW j \in 0..Len(w), i < j
      PROVE  SubSeq(w, i + 1, j) = SubSeq(out, a + i, a + j - 1)
  <2>1. /\ a \in 1..Len(out) /\ i + 1 \in 1..(c - a + 1) /\ j \in 1..(c - a + 1)
        /\ a + (i + 1) - 1 = a + i
    BY <1>1, <1>2, <1>6, <1>7
  <2>2. SubSeq(SubSeq(out, a, c), i + 1, j) = SubSeq(out, a + (i + 1) - 1, a + j - 1)
    BY <1>1, <1>2, <2>1, SubSeqOfSubSeq
  <2> QED
    BY <2>1, <2>2 DEF w
<1>8. ASSUME ShownAt(c, x) PROVE Shows(w, x)
  <2>1. PICK i \in 1..c, j \in 1..c : c < i + PromptWind /\ SubSeq(out, i, j) \in Texts[x]
    BY <1>8 DEF ShownAt
  <2>2. i <= j
    <3>1. i \in Int /\ j \in Int
      BY <1>1
    <3>2. j < i => SubSeq(out, i, j) = <<>>
      BY <3>1, SubSeqEmpty
    <3>3. ~(j < i)
      BY <1>3, <2>1, <3>2, Zenon
    <3> QED
      BY <3>1, <3>3
  <2> DEFINE m == i - a
             n == j - a + 1
  <2>3. a <= i
    BY <1>5, <2>1
  <2>4. Len(w) = c - a + 1
    BY <1>1, <1>2, <1>6, <2>3
  <2>5. m \in 0..Len(w) /\ n \in 0..Len(w) /\ m < n /\ a + m = i /\ a + n - 1 = j
    BY <1>1, <1>2, <2>2, <2>3, <2>4
  <2> HIDE DEF m, n
  <2>6. SubSeq(w, m + 1, n) = SubSeq(out, i, j)
    BY <1>7, <2>5
  <2>7. SubSeq(w, m + 1, n) \in SubSeqs(w)
    BY <2>5 DEF SubSeqs
  <2> QED
    BY <2>1, <2>6, <2>7 DEF Shows
<1>9. ASSUME Shows(w, x) PROVE ShownAt(c, x)
  <2>1. PICK i \in 0..Len(w), j \in 0..Len(w) : SubSeq(w, i + 1, j) \in Texts[x]
    <3>1. PICK text \in SubSeqs(w) : text \in Texts[x]
      BY <1>9, Zenon DEF Shows
    <3>2. PICK i \in 0..Len(w), j \in 0..Len(w) : text = SubSeq(w, i + 1, j)
      BY <3>1, SMT DEF SubSeqs
    <3> QED
      BY <3>1, <3>2, Zenon
  <2>2. i < j
    <3>1. i + 1 \in Int /\ j \in Int /\ i \in Int
      BY <1>1, <1>2, <1>6
    <3>2. j < i + 1 => SubSeq(w, i + 1, j) = <<>>
      BY <3>1, SubSeqEmpty
    <3>3. ~(j < i + 1)
      BY <1>3, <2>1, <3>2, Zenon
    <3> QED
      BY <3>1, <3>3
  <2>3. a + i \in 1..c /\ a + j - 1 \in 1..c /\ c < (a + i) + PromptWind
    BY <1>1, <1>2, <1>6, <2>2
  <2> QED
    BY <1>7, <2>1, <2>2, <2>3 DEF ShownAt
<1> QED
  BY <1>4, <1>8, <1>9

\* What a read showed does not change when more is printed.
LEMMA ShownStays ==
  ASSUME LiveInv, [Next]_vars
  PROVE  \A c \in 0..Len(out), x \in Gates \cup {Done} : ShownAt(c, x)' <=> ShownAt(c, x)
<1>1. out \in Seq(Bytes) /\ Len(out) \in Nat
  BY LenProperties DEF LiveInv, Reading
<1>2. out' = out \/ \E b \in Bytes : out' = Append(out, b)
  <2>1. CASE Scans
    BY <2>1 DEF Scans
  <2> QED
    BY <2>1, SeenStays
<1>3. \A i \in 1..Len(out), j \in 0..Len(out) : SubSeq(out', i, j) = SubSeq(out, i, j)
  <2> SUFFICES ASSUME NEW i \in 1..Len(out), NEW j \in 0..Len(out)
               PROVE  SubSeq(out', i, j) = SubSeq(out, i, j)
    OBVIOUS
  <2>1. i \in Nat \ {0}
    BY <1>1
  <2>2. \A b \in Bytes : SubSeq(Append(out, b), i, j) = SubSeq(out, i, j)
    BY <1>1, <2>1, OldOutput
  <2> QED
    BY <1>2, <2>2
<1>4. \A c \in 0..Len(out) : \A i \in 1..c : i \in 1..Len(out) /\ i \in 0..Len(out)
  BY <1>1
<1> QED
  BY <1>3, <1>4 DEF ShownAt

\* Nor does it matter to a read what is read after it.
LEMMA StartupOfOldReads ==
  ASSUME LiveInv, [Next]_vars
  PROVE  /\ \A c \in cuts : InStartup(c)' <=> InStartup(c)
         /\ cuts \subseteq 1..read /\ read \in 0..Len(out) /\ Len(out) \in Nat
         /\ Scanned' = IF Scans THEN cuts ELSE Scanned
<1> USE LimitsAreNat
<1>1. /\ read \in 0..Len(out) /\ Len(out) \in Nat /\ Len(chunk) \in Nat
      /\ cuts \subseteq 1..read /\ Seen \in 0..read
  BY LenProperties DEF LiveInv, Reading, Seen
<1>2. cuts' = cuts \/ (~Scans /\ \E n \in 1..ReadMax : cuts' = cuts \cup {read + n})
  <2>1. CASE Reads
    <3>1. ~Scans
      BY <2>1 DEF Reads, Scans
    <3> QED
      BY <2>1, <3>1 DEF Reads
  <2>2. CASE \/ \E b \in Bytes : Prints(b)
             \/ ReadEnds \/ Scans \/ Writes \/ Marks \/ Arms
    BY <2>2 DEF Prints, ReadEnds, Scans, Writes, Marks, Arms
  <2> QED
    BY <2>1, <2>2, OthersKeep DEF Pump
<1>3. \A d \in cuts' : d \in Nat /\ (d \in cuts \/ d > read)
  <2>1. \A d \in cuts : d \in Nat
    BY <1>1
  <2>2. \A n \in 1..ReadMax : read + n \in Nat /\ read + n > read
    BY <1>1
  <2> QED
    BY <1>2, <2>1, <2>2
<1>4. cuts \subseteq cuts'
  BY <1>2
<1>5. \A c \in cuts : InStartup(c)' <=> InStartup(c)
  <2> SUFFICES ASSUME NEW c \in cuts PROVE InStartup(c)' <=> InStartup(c)
    OBVIOUS
  <2>1. /\ \A d \in cuts : d \in cuts'
        /\ \A d \in cuts' : d < c => d \in cuts
    BY <1>1, <1>3, <1>4
  <2>2. \A d \in cuts : ShownAt(d, Done)' <=> ShownAt(d, Done)
    <3>1. \A d \in cuts : d \in 0..Len(out)
      BY <1>1
    <3> QED
      BY <3>1, ShownStays
  <2> QED
    BY <2>1, <2>2 DEF InStartup
<1>6. CASE Scans
  <2>1. Seen' = read /\ cuts' = cuts
    BY <1>6, ScanStep DEF Scans
  <2>2. \A c \in cuts : c <= read
    BY <1>1
  <2>3. Scanned' = cuts
    BY <2>1, <2>2, Zenon DEF Scanned
  <2> QED
    BY <1>1, <1>5, <1>6, <2>3, Zenon
<1>7. CASE ~Scans
  <2>1. Seen' = Seen
    BY <1>7, SeenStays
  <2>2. \A d \in cuts' : d <= Seen => d \in cuts
    BY <1>1, <1>3
  <2>3. Scanned' = Scanned
    BY <1>4, <2>1, <2>2 DEF Scanned
  <2> QED
    BY <1>1, <1>5, <1>7, <2>3, Zenon
<1> QED
  BY <1>6, <1>7

\* More output and more time change none of it.
LEMMA StartupStays ==
  ASSUME LiveInv, Startup, [Next]_vars, ~Scans
  PROVE  Startup'
<1>1. /\ Seen' = Seen /\ UNCHANGED <<answered, gateShut>>
      /\ late => late'
  <2>1. Seen' = Seen /\ UNCHANGED liveVars /\ (late' = late \/ late' = TRUE)
    BY SeenStays, Zenon
  <2>2. late => late'
    BY <2>1, Zenon
  <2> QED
    BY <2>1, <2>2 DEF liveVars
<1>2. /\ Scanned' = Scanned /\ Scanned \subseteq cuts
      /\ \A c \in Scanned : InStartup(c)' <=> InStartup(c)
  BY StartupOfOldReads DEF Scanned
<1>3. \A c \in Scanned, x \in Gates \cup {Done} : ShownAt(c, x)' <=> ShownAt(c, x)
  <2>1. Scanned \subseteq 0..Len(out)
    BY <1>2, StartupOfOldReads
  <2> QED
    BY <2>1, ShownStays
<1>4. \A d \in Scanned : ShownAt(d, Done)' <=> ShownAt(d, Done)
  BY <1>3
<1>5. \A c \in Scanned, g \in Gates :
        (InStartup(c) /\ ShownAt(c, g))' <=> InStartup(c) /\ ShownAt(c, g)
  BY <1>2, <1>3
<1>6. ~gateShut' => \A d \in Scanned' : ~ShownAt(d, Done)'
  BY <1>1, <1>2, <1>4, Zenon DEF Startup
<1>7. \A g \in answered' : \E c \in Scanned' : InStartup(c)' /\ ShownAt(c, g)'
  <2>1. answered \subseteq Gates
    BY DEF LiveInv, Answering
  <2> QED
    BY <1>1, <1>2, <1>5, <2>1 DEF Startup
<1>8. ~late' => \A g \in Gates, c \in Scanned' :
                  InStartup(c)' /\ ShownAt(c, g)' => g \in answered'
  BY <1>1, <1>2, <1>5 DEF Startup
<1>9. gateShut' => \/ late' \/ Seen' > GateWindowBytes \/ answered' = Gates
                   \/ \E d \in Scanned' : ShownAt(d, Done)'
  BY <1>1, <1>2, <1>4 DEF Startup
<1> QED
  BY <1>6, <1>7, <1>8, <1>9 DEF Startup

\* A chunk is scanned.
LEMMA StartupScan ==
  ASSUME LiveInv, Startup, Scans
  PROVE  Startup'
<1> USE LimitsAreNat
<1>1. /\ Seen \in 0..read /\ Seen < read /\ Seen' = read
      /\ read \in 1..Len(out) /\ Len(out) \in Nat
      /\ logged' = IF logged < LogCap THEN read ELSE logged
      /\ logged \in Nat /\ logged <= Seen
      /\ late' = late /\ ScanGates
  <2>1. pump = "scan" /\ late' = late /\ ScanGates
    BY DEF Scans
  <2>2. Len(chunk) > 0 /\ Len(chunk) \in Nat /\ Len(out) \in Nat /\ read \in 0..Len(out)
    BY <2>1, LenProperties DEF LiveInv, Reading
  <2> QED
    BY <2>1, <2>2, ScanStep DEF LiveInv, Keeping
<1>2. logged' <= read
  BY <1>1
<1>3. [Next]_vars
  BY DEF Next, Pump
<1>4. Scanned' = cuts /\ cuts = Scanned \cup {read} /\ Scanned \subseteq 0..Seen
  <2>1. pump = "scan"
    BY DEF Scans
  <2>2. read \in cuts /\ cuts \subseteq 1..read /\ \A c \in cuts : c <= Seen \/ c = read
    BY <2>1 DEF LiveInv, Reading
  <2>3. Scanned' = cuts
    BY <1>3, StartupOfOldReads
  <2>4. \A c \in cuts : c \in 0..Seen \/ c = read
    BY <1>1, <2>2
  <2>5. ~(read <= Seen) /\ \A c \in 0..Seen : c <= Seen
    BY <1>1
  <2> QED
    BY <2>2, <2>3, <2>4, <2>5, Zenon DEF Scanned
<1>5. /\ \A c \in cuts : InStartup(c)' <=> InStartup(c)
      /\ \A c \in cuts, x \in Gates \cup {Done} : ShownAt(c, x)' <=> ShownAt(c, x)
  <2>1. cuts \subseteq 0..Len(out)
    BY <1>1, <1>4
  <2> QED
    BY <1>3, <2>1, StartupOfOldReads, ShownStays
<1>6. \A c \in Scanned : c < read
  BY <1>1, <1>4
<1>7. /\ answered \subseteq Gates
      /\ \A g \in Gates, c \in cuts :
           (InStartup(c)' /\ ShownAt(c, g)') <=> (InStartup(c) /\ ShownAt(c, g))
      /\ \A g \in answered : \E c \in Scanned : InStartup(c) /\ ShownAt(c, g)
  BY <1>5 DEF LiveInv, Answering, Startup
<1>8. InStartup(read) => read <= GateWindowBytes /\ \A d \in Scanned : ~ShownAt(d, Done)
  BY <1>4, <1>6 DEF InStartup
<1>9. CASE gateShut
  <2>1. answered' = answered /\ gateShut' = gateShut
    BY <1>1, <1>9, Zenon DEF ScanGates
  <2>2. ~late /\ InStartup(read) => answered = Gates
    BY <1>1, <1>8, <1>9 DEF Startup
  <2>3. gateShut' => \/ late' \/ Seen' > GateWindowBytes \/ answered' = Gates
                     \/ \E d \in Scanned' : ShownAt(d, Done)'
    BY <1>1, <1>4, <1>5, <2>1 DEF Startup
  <2>4. \A g \in answered' : \E c \in Scanned' : InStartup(c)' /\ ShownAt(c, g)'
    BY <1>4, <1>7, <2>1
  <2>5. ~late' => \A g \in Gates, c \in Scanned' :
                    InStartup(c)' /\ ShownAt(c, g)' => g \in answered'
    BY <1>1, <1>4, <1>5, <2>1, <2>2 DEF Startup
  <2> QED
    BY <1>9, <2>1, <2>3, <2>4, <2>5 DEF Startup
<1>10. CASE ~gateShut /\ StartupOver
  <2>1. answered' = answered /\ gateShut' = TRUE
    BY <1>1, <1>10, Zenon DEF ScanGates
  <2>2. answered = Gates \/ read > GateWindowBytes \/ late
    BY <1>1, <1>2, <1>10 DEF StartupOver
  <2>3. \A g \in answered' : \E c \in Scanned' : InStartup(c)' /\ ShownAt(c, g)'
    BY <1>4, <1>7, <2>1
  <2>4. ~late /\ InStartup(read) => answered = Gates
    BY <1>1, <1>8, <2>2
  <2>5. ~late' => \A g \in Gates, c \in Scanned' :
                    InStartup(c)' /\ ShownAt(c, g)' => g \in answered'
    BY <1>1, <1>4, <1>5, <2>1, <2>4 DEF Startup
  <2> QED
    BY <1>1, <2>1, <2>2, <2>3, <2>5 DEF Startup
<1>11. CASE ~gateShut /\ ~StartupOver
  <2>1. /\ hits' = NewHits /\ answered' = answered \cup hits'
        /\ gateShut' = Shows(ScanWindow, Done)
    BY <1>1, <1>11, Zenon DEF ScanGates
  <2>2. ScanWindow = Window(out, read, PromptWind)
    <3>1. head = Window(out, Seen, PromptWind)
      BY <1>11, Zenon DEF LiveInv, Keeping
    <3> QED
      BY <3>1, ScanStep DEF ScanWindow
  <2>3. \A x \in Gates \cup {Done} : Shows(ScanWindow, x) <=> ShownAt(read, x)
    BY <1>1, <2>2, WindowShows
  <2>4. answered' = answered \cup {g \in Gates : ShownAt(read, g)}
    <3>1. hits' = {g \in Gates \ answered : ShownAt(read, g)}
      BY <2>1, <2>3 DEF NewHits
    <3>2. answered \subseteq Gates
      BY DEF LiveInv, Answering
    <3> QED
      BY <2>1, <3>1, <3>2
  <2>5. gateShut' <=> ShownAt(read, Done)
    BY <2>1, <2>3
  <2>6. \A d \in Scanned : ~ShownAt(d, Done)
    BY <1>11 DEF Startup
  <2>7. InStartup(read)
    <3>1. read <= GateWindowBytes
      BY <1>1, <1>11 DEF StartupOver
    <3>2. \A d \in cuts : d < read => d \in Scanned
      BY <1>1, <1>4
    <3> QED
      BY <2>6, <3>1, <3>2 DEF InStartup
  <2>8. ~gateShut' => \A d \in Scanned' : ~ShownAt(d, Done)'
    BY <1>4, <1>5, <2>5, <2>6
  <2>9. \A g \in answered' : \E c \in Scanned' : InStartup(c)' /\ ShownAt(c, g)'
    BY <1>4, <1>7, <2>4, <2>7
  <2>10. ~late' => \A g \in Gates, c \in Scanned' :
                     InStartup(c)' /\ ShownAt(c, g)' => g \in answered'
    BY <1>1, <1>4, <1>5, <2>4 DEF Startup
  <2>11. gateShut' => \E d \in Scanned' : ShownAt(d, Done)'
    BY <1>4, <1>5, <2>5
  <2> QED
    BY <2>8, <2>9, <2>10, <2>11 DEF Startup
<1> QED
  BY <1>9, <1>10, <1>11

\* Startup holds for ever.
LEMMA StartupInvariance == Spec => []Startup
<1>1. Init => Startup
  BY DEF Init, Scanned, Startup
<1>2. LiveInv /\ Startup /\ [Next]_vars => Startup'
  BY StartupStays, StartupScan
<1> QED
  BY <1>1, <1>2, LiveInvariance, PTL DEF Spec

\* For any patterns, any output and any cut of it into reads: a gate is answered
\* only for text that a read of the startup showed.
THEOREM OnlyAtStartup == Spec => []StartupOnly
<1>1. Startup => StartupOnly
  BY DEF Startup, Scanned, StartupOnly
<1> QED
  BY <1>1, StartupInvariance, PTL

\* And every gate that a read of the startup showed is answered, also if its text
\* came in several reads.
THEOREM NoGateMissed == Spec => []GateNotMissed
<1>1. LiveInv /\ Startup => GateNotMissed
  <2> SUFFICES ASSUME LiveInv, Startup, pump # "scan", ~late
               PROVE  \A g \in Gates, c \in cuts :
                        InStartup(c) /\ ShownAt(c, g) => g \in answered
    BY DEF GateNotMissed
  <2>1. /\ read \in Nat /\ cuts \subseteq 1..read /\ Seen = read
    BY LenProperties DEF LiveInv, Reading, Seen
  <2>2. \A c \in cuts : c <= Seen
    BY <2>1
  <2>3. Scanned = cuts
    BY <2>2, Zenon DEF Scanned
  <2> QED
    BY <2>3 DEF Startup
<1> QED
  BY <1>1, LiveInvariance, StartupInvariance, PTL

\* What is read is soon the end of a read.
ReadsReach == \A j \in 1..read : \E c \in cuts : j <= c /\ c < j + ReadMax

\* A text that has been read was in the window when its end came, if it is short
\* enough to fit there beside a whole read but its last byte.
SplitsAreShown ==
  \A x \in Gates \cup {Done}, i, j \in 1..read :
    SubSeq(out, i, j) \in Texts[x] /\ j - i + ReadMax <= PromptWind =>
      \E c \in cuts : ShownAt(c, x)

\* Wherever reads cut a text that is short enough, one of them shows it: with the
\* last two theorems, it is answered if that was in startup.
THEOREM SplitsAreSeen == Spec => []SplitsAreShown
<1> USE LimitsAreNat
<1>1. Init => ReadsReach
  BY DEF Init, ReadsReach
<1>2. LiveInv /\ ReadsReach /\ [Next]_vars => ReadsReach'
  <2> SUFFICES ASSUME LiveInv, ReadsReach, [Next]_vars PROVE ReadsReach'
    OBVIOUS
  <2>1. CASE Reads
    <3>1. PICK n \in 1..ReadMax : read' = read + n /\ cuts' = cuts \cup {read + n}
      BY <2>1 DEF Reads
    <3>2. read \in Nat
      BY LenProperties DEF LiveInv, Reading
    <3>3. ASSUME NEW j \in 1..read' PROVE \E c \in cuts' : j <= c /\ c < j + ReadMax
      <4>1. CASE j <= read
        BY <3>1, <3>2, <4>1 DEF ReadsReach
      <4>2. CASE j > read
        BY <3>1, <3>2, <4>2
      <4> QED
        BY <3>1, <3>2, <4>1, <4>2
    <3> QED
      BY <3>3 DEF ReadsReach
  <2>2. CASE \/ \E b \in Bytes : Prints(b)
             \/ ReadEnds \/ Scans \/ Writes \/ Marks \/ Arms
    BY <2>2 DEF Prints, ReadEnds, Scans, Writes, Marks, Arms, ReadsReach
  <2>3. CASE ~Pump /\ ~\E b \in Bytes : Prints(b)
    BY <2>3, OthersKeep DEF ReadsReach
  <2> QED
    BY <2>1, <2>2, <2>3 DEF Pump
<1>3. LiveInv /\ ReadsReach => SplitsAreShown
  <2> SUFFICES ASSUME LiveInv, ReadsReach,
                      NEW x \in Gates \cup {Done}, NEW i \in 1..read, NEW j \in 1..read,
                      SubSeq(out, i, j) \in Texts[x], j - i + ReadMax <= PromptWind
               PROVE  \E c \in cuts : ShownAt(c, x)
    BY DEF SplitsAreShown
  <2>1. read \in Nat /\ cuts \subseteq 1..read
    BY LenProperties DEF LiveInv, Reading
  <2>2. i <= j
    <3>1. i \in Int /\ j \in Int /\ read \in Nat
      BY <2>1
    <3>2. j < i => SubSeq(out, i, j) = <<>>
      BY <3>1, SubSeqEmpty
    <3>3. <<>> \notin Texts[x]
      BY PatternAssumption
    <3>4. SubSeq(out, i, j) \in Texts[x]
      OBVIOUS
    <3>5. ~(j < i)
      BY <3>2, <3>3, <3>4, Zenon
    <3> QED
      BY <3>1, <3>5
  <2>3. PICK c \in cuts : j <= c /\ c < j + ReadMax
    BY DEF ReadsReach
  <2>4. i \in 1..c /\ j \in 1..c /\ c < i + PromptWind
    BY <2>1, <2>2, <2>3
  <2> QED
    BY <2>3, <2>4 DEF ShownAt
<1> QED
  BY <1>1, <1>2, <1>3, LiveInvariance, PTL DEF Spec

-----------------------------------------------------------------------------
(* The output in the log.                                                     *)

\* The entries with output are places in the log, and each has a number.
LEMMA OutputEntries ==
  ASSUME NEW l \in Seq(Entries), NEW n \in 0..Len(l)
  PROVE  /\ OutputIn(l, n) \subseteq OutputIn(l, Len(l))
         /\ IsFiniteSet(OutputIn(l, n)) /\ Cardinality(OutputIn(l, n)) \in Nat
         /\ Cardinality(OutputIn(l, n)) <= Cardinality(OutputIn(l, Len(l)))
         /\ n \in OutputIn(l, Len(l)) => Cardinality(OutputIn(l, n)) > 0
<1>1. Len(l) \in Nat
  BY LenProperties
<1>2. ASSUME NEW m \in 0..Len(l) PROVE IsFiniteSet(OutputIn(l, m))
  <2>1. IsFiniteSet(1..m)
    BY <1>1, FS_Interval
  <2>2. OutputIn(l, m) \in SUBSET (1..m)
    BY DEF OutputIn
  <2> QED
    BY <2>1, <2>2, FS_Subset
<1>3. OutputIn(l, n) \subseteq OutputIn(l, Len(l))
  BY <1>1 DEF OutputIn
<1>4. IsFiniteSet(OutputIn(l, n)) /\ IsFiniteSet(OutputIn(l, Len(l)))
  BY <1>1, <1>2
<1>5. Cardinality(OutputIn(l, n)) <= Cardinality(OutputIn(l, Len(l)))
  BY <1>3, <1>4, FS_Subset
<1>6. Cardinality(OutputIn(l, n)) \in Nat
  BY <1>4, FS_CardinalityType
<1>7. ASSUME n \in OutputIn(l, Len(l)) PROVE Cardinality(OutputIn(l, n)) > 0
  <2>1. n \in OutputIn(l, n)
    BY <1>1, <1>7 DEF OutputIn
  <2>2. Cardinality(OutputIn(l, n)) # 0
    BY <1>4, <2>1, FS_EmptySet
  <2> QED
    BY <1>6, <2>2
<1> QED
  BY <1>3, <1>4, <1>5, <1>6, <1>7

\* More output does not change what the log has of it.
LEMMA CarriesStill ==
  ASSUME NEW l \in Seq(Entries), NEW s \in Seq(Bytes), NEW b \in Bytes,
         NEW n \in 0..Len(s), Carries(l, s, n)
  PROVE  Carries(l, Append(s, b), n)
<1>1. ASSUME NEW i \in OutputIn(l, Len(l))
      PROVE  Cardinality(OutputIn(l, i)) \in 1..Len(s)
  <2>1. Len(l) \in Nat /\ Len(s) \in Nat
    BY LenProperties
  <2>2. i \in 0..Len(l)
    BY <2>1 DEF OutputIn
  <2>3. /\ Cardinality(OutputIn(l, i)) \in Nat /\ Cardinality(OutputIn(l, i)) > 0
        /\ Cardinality(OutputIn(l, i)) <= n
    BY <2>2, OutputEntries DEF Carries
  <2> QED
    BY <2>1, <2>3
<1>2. \A k \in 1..Len(s) : Append(s, b)[k] = s[k]
  BY AppendProperties
<1> QED
  BY <1>1, <1>2 DEF Carries

\* A chunk that is written behind the output that is there continues it.
LEMMA CarriesMore ==
  ASSUME NEW l \in Seq(Entries), NEW s \in Seq(Bytes), NEW n \in Nat, Carries(l, s, n),
         NEW bytes \in Seq(Bytes), \A k \in 1..Len(bytes) : bytes[k] = s[n + k]
  PROVE  Carries(l \o Data(bytes), s, n + Len(bytes))
<1> DEFINE d == Data(bytes)
           both == l \o d
           a == Len(l)
           m == Len(bytes)
<1>1. a \in Nat /\ m \in Nat
  BY LenProperties
<1>2. d \in Seq(Entries) /\ Len(d) = m /\ \A k \in 1..m : d[k] = Entry("data", bytes[k])
  <2>1. d \in Seq(Entries)
    BY ChunkEntries
  <2>2. DOMAIN d = 1..m /\ DOMAIN d = 1..Len(d) /\ Len(d) \in Nat
    BY <2>1, LenProperties DEF Data
  <2>3. Len(d) = m
    BY <1>1, <2>2
  <2>4. \A k \in 1..m : d[k] = Entry("data", bytes[k])
    BY DEF Data
  <2> QED
    BY <2>1, <2>3, <2>4
<1> HIDE DEF d, m
<1>3. /\ both \in Seq(Entries) /\ Len(both) = a + m
      /\ \A i \in 1..a : both[i] = l[i]
      /\ \A k \in 1..m : both[a + k] = Entry("data", bytes[k])
  <2>1. /\ both \in Seq(Entries) /\ Len(both) = a + m
        /\ \A i \in 1..(a + m) : both[i] = IF i <= a THEN l[i] ELSE d[i - a]
    BY <1>2, ConcatProperties
  <2> HIDE DEF both, a
  <2>2. \A i \in 1..a : both[i] = l[i]
    BY <1>1, <2>1
  <2>3. ASSUME NEW k \in 1..m PROVE both[a + k] = Entry("data", bytes[k])
    <3>1. PICK i \in 1..(a + m) : i = a + k /\ ~(i <= a) /\ i - a = k
      <4>1. a + k \in 1..(a + m) /\ ~(a + k <= a) /\ (a + k) - a = k
        BY <1>1
      <4> QED
        BY <4>1
    <3>2. both[i] = d[k]
      BY <2>1, <3>1
    <3> QED
      BY <1>2, <3>1, <3>2
  <2> QED
    BY <2>1, <2>2, <2>3
<1> HIDE DEF both, a
<1>4. ASSUME NEW i \in 0..a PROVE OutputIn(both, i) = OutputIn(l, i)
  <2>1. \A j \in 1..i : both[j] = l[j]
    BY <1>1, <1>3
  <2> QED
    BY <2>1 DEF OutputIn
<1>5. IsFiniteSet(OutputIn(l, a)) /\ Cardinality(OutputIn(l, a)) = n
  <2>1. a = Len(l) /\ a \in 0..Len(l)
    BY <1>1 DEF a
  <2>2. IsFiniteSet(OutputIn(l, a))
    BY <2>1, OutputEntries
  <2> QED
    BY <2>1, <2>2 DEF Carries
<1>6. ASSUME NEW k \in 0..m PROVE Cardinality(OutputIn(both, a + k)) = n + k
  <2> DEFINE new == (a + 1)..(a + k)
  <2>1. OutputIn(both, a + k) = OutputIn(l, a) \cup new
    <3>1. \A i \in new : both[i].kind = "data"
      <4> SUFFICES ASSUME NEW i \in new PROVE both[i].kind = "data"
        OBVIOUS
      <4>1. i - a \in 1..m /\ a + (i - a) = i
        BY <1>1
      <4>2. both[i] = Entry("data", bytes[i - a])
        BY <1>3, <4>1
      <4> QED
        BY <4>2 DEF Entry
    <3>2. 1..(a + k) = (1..a) \cup new
      BY <1>1
    <3>3. OutputIn(both, a) = OutputIn(l, a)
      BY <1>1, <1>4
    <3> HIDE DEF new
    <3> QED
      BY <3>1, <3>2, <3>3 DEF OutputIn
  <2>2. IsFiniteSet(new) /\ Cardinality(new) = k
    <3>1. a + 1 \in Int /\ a + k \in Int
      BY <1>1
    <3>2. /\ IsFiniteSet(new)
          /\ Cardinality(new) = IF a + 1 > a + k THEN 0 ELSE (a + k) - (a + 1) + 1
      BY <3>1, FS_Interval
    <3> HIDE DEF new
    <3> QED
      BY <1>1, <3>2
  <2>3. OutputIn(l, a) \cap new = {}
    BY <1>1 DEF OutputIn
  <2> HIDE DEF new
  <2>4. /\ Cardinality(OutputIn(l, a) \cup new)
             = Cardinality(OutputIn(l, a)) + Cardinality(new) - Cardinality(OutputIn(l, a) \cap new)
    BY <1>5, <2>2, FS_Union
  <2>5. Cardinality(OutputIn(l, a) \cap new) = 0
    BY <2>3, FS_EmptySet
  <2>6. Cardinality(OutputIn(l, a) \cup new) = n + k - 0
    BY <1>5, <2>2, <2>4, <2>5
  <2>7. n + k - 0 = n + k
    BY <1>1
  <2> QED
    BY <2>1, <2>6, <2>7
<1>7. Cardinality(OutputIn(both, Len(both))) = n + m
  BY <1>1, <1>3, <1>6
<1>8. ASSUME NEW i \in OutputIn(both, Len(both))
      PROVE  both[i].of = s[Cardinality(OutputIn(both, i))]
  <2>1. i \in 1..(a + m)
    BY <1>3, <1>8 DEF OutputIn
  <2>2. CASE i <= a
    <3>1. i \in 0..a /\ i \in OutputIn(l, a) /\ both[i] = l[i]
      BY <1>1, <1>3, <1>8, <2>1, <2>2 DEF OutputIn
    <3>2. l[i].of = s[Cardinality(OutputIn(l, i))]
      BY <3>1 DEF Carries, a
    <3> QED
      BY <1>4, <3>1, <3>2
  <2>3. CASE i > a
    <3>1. PICK k \in 1..m : i = a + k
      <4>1. i - a \in 1..m /\ i = a + (i - a)
        BY <1>1, <2>1, <2>3
      <4> QED
        BY <4>1
    <3>2. both[i] = Entry("data", bytes[k]) /\ both[i].of = bytes[k]
      BY <1>3, <3>1 DEF Entry
    <3>3. k \in 0..m
      BY <1>1
    <3> QED
      BY <1>6, <3>1, <3>2, <3>3 DEF m
  <2> QED
    BY <1>1, <2>1, <2>2, <2>3
<1> QED
  BY <1>7, <1>8 DEF Carries, both, d, m

\* Another entry changes nothing.
LEMMA CarriesOther ==
  ASSUME NEW l \in Seq(Entries), NEW s, NEW n, Carries(l, s, n),
         NEW x \in Entries, x.kind # "data"
  PROVE  Carries(Append(l, x), s, n)
<1> DEFINE more == Append(l, x)
           a == Len(l)
<1>1. /\ a \in Nat /\ Len(more) = a + 1
      /\ \A i \in 1..a : more[i] = l[i]
      /\ more[a + 1] = x
  BY AppendProperties, LenProperties
<1> HIDE DEF more
<1>2. \A i \in 0..a : OutputIn(more, i) = OutputIn(l, i)
  BY <1>1 DEF OutputIn
<1>3. OutputIn(more, a + 1) = OutputIn(l, a)
  <2>1. 1..(a + 1) = (1..a) \cup {a + 1}
    BY <1>1
  <2>2. OutputIn(more, a + 1) = OutputIn(more, a)
    BY <1>1, <2>1 DEF OutputIn
  <2> QED
    BY <1>1, <1>2, <2>2
<1>4. ASSUME NEW i \in OutputIn(more, Len(more))
      PROVE  more[i].of = s[Cardinality(OutputIn(more, i))]
  <2>1. i \in OutputIn(l, a)
    BY <1>1, <1>3, <1>4
  <2>2. i \in 1..a /\ i \in 0..a
    BY <1>1, <2>1 DEF OutputIn
  <2> QED
    BY <1>1, <1>2, <2>1, <2>2 DEF Carries
<1> QED
  BY <1>1, <1>3, <1>4 DEF Carries, more

\* How much of the output is in the log: a chunk is counted before it is written.
Filed == IF pump = "write" THEN logged - Len(chunk) ELSE logged

\* The log has the output that pump has taken care of, and pump the rest.
Filing ==
  /\ pump = "write" => /\ logged = read
                       /\ chunk = SubSeq(out, read - Len(chunk) + 1, read)
  /\ Carries(log, out, Filed)

\* Every step keeps this.
LEMMA FilingStep ==
  ASSUME LiveInv, Filing, [Next]_vars
  PROVE  Filing'
<1> USE LimitsAreNat
<1>1. /\ out \in Seq(Bytes) /\ chunk \in Seq(Bytes) /\ log \in Seq(Entries)
      /\ Len(out) \in Nat /\ Len(chunk) \in Nat /\ logged \in Nat
      /\ read \in 0..Len(out) /\ Len(chunk) <= read
      /\ logged <= Seen /\ Seen \in 0..read
  BY LenProperties DEF LiveInv, Reading, Keeping, Logging, Seen
<1>2. Carries(log, out, Filed) /\ Filed \in 0..Len(out)
  BY <1>1 DEF Filing, Filed
<1>3. ASSUME NEW b \in Bytes, Prints(b) PROVE Filing'
  <2>1. out' = Append(out, b) /\ UNCHANGED <<read, pump, chunk, logged, log>>
    BY <1>3 DEF Prints, onDataVars, liveVars
  <2>2. Carries(log', out', Filed')
    BY <1>1, <1>2, <2>1, CarriesStill DEF Filed
  <2>3. ASSUME pump = "write" PROVE chunk = SubSeq(out', read - Len(chunk) + 1, read)
    <3>1. read - Len(chunk) + 1 \in Nat \ {0} /\ read \in 0..Len(out)
      BY <1>1
    <3> QED
      BY <1>1, <2>1, <2>3, <3>1, OldOutput DEF Filing
  <2> QED
    BY <2>1, <2>2, <2>3 DEF Filing
<1>4. CASE Scans
  <2>1. /\ UNCHANGED <<out, read, chunk, log>> /\ pump = "scan"
        /\ writes' = (logged < LogCap)
        /\ pump' = IF writes' THEN "write" ELSE IF capped' THEN "mark" ELSE "arm"
    BY <1>4 DEF Scans
  <2>2. /\ Seen = read - Len(chunk) /\ chunk = SubSeq(out, Seen + 1, read)
        /\ logged' = IF logged < LogCap THEN read ELSE logged
    BY <1>4, ScanStep
  <2>3. logged < LogCap => logged = Seen
    BY DEF LiveInv, Keeping
  <2>4. Filed = logged
    BY <2>1 DEF Filed
  <2>5. CASE logged < LogCap
    <3>1. pump' = "write"
      BY <2>1, <2>5, Zenon
    <3>2. Filed' = Filed /\ logged' = read
      BY <1>1, <2>1, <2>2, <2>3, <2>4, <2>5, <3>1 DEF Filed
    <3>3. read - Len(chunk) + 1 = Seen + 1
      BY <2>2
    <3> QED
      BY <1>2, <2>1, <2>2, <3>2, <3>3 DEF Filing
  <2>6. CASE ~(logged < LogCap)
    <3>1. pump' # "write"
      BY <2>1, <2>6, Zenon
    <3>2. Filed' = Filed
      BY <2>2, <2>4, <2>6, <3>1 DEF Filed
    <3> QED
      BY <1>2, <2>1, <3>1, <3>2 DEF Filing
  <2> QED
    BY <2>5, <2>6
<1>5. CASE Writes
  <2>1. /\ pump = "write" /\ pump' # "write" /\ log' = log \o Data(chunk)
        /\ UNCHANGED <<out, logged>>
    BY <1>5 DEF Writes, onDataVars, liveVars
  <2>2. Filed = read - Len(chunk) /\ Filed' = Filed + Len(chunk) /\ Filed \in Nat
    BY <1>1, <2>1 DEF Filed, Filing
  <2>3. chunk = SubSeq(out, Filed + 1, read)
    BY <2>1, <2>2 DEF Filing
  <2>4. \A k \in 1..Len(chunk) : chunk[k] = out[Filed + k]
    <3>1. \A i \in (Filed + 1)..read : out[i] \in Bytes
      BY <1>1, <2>2, ElementOfSeq
    <3>2. Filed + 1 \in Int /\ read \in Int
      BY <1>1, <2>2
    <3>3. \A k \in 1..(read - (Filed + 1) + 1) : chunk[k] = out[Filed + 1 + k - 1]
      BY <2>3, <3>1, <3>2, SubSeqProperties
    <3>4. ASSUME NEW k \in 1..Len(chunk) PROVE chunk[k] = out[Filed + k]
      <4>1. k \in 1..(read - (Filed + 1) + 1) /\ Filed + 1 + k - 1 = Filed + k
        BY <1>1, <2>2
      <4> QED
        BY <3>3, <4>1
    <3> QED
      BY <3>4
  <2>5. Carries(log \o Data(chunk), out, Filed + Len(chunk))
    BY <1>1, <1>2, <2>2, <2>4, CarriesMore
  <2> QED
    BY <2>1, <2>2, <2>5 DEF Filing
<1>6. ASSUME NEW x \in Entries, x.kind # "data", log' = Append(log, x),
             UNCHANGED <<out, read, chunk, logged>>,
             pump' = pump \/ (pump' # "write" /\ pump # "write")
      PROVE  Filing'
  <2>1. Filed' = Filed
    BY <1>6 DEF Filed
  <2>2. Carries(log', out', Filed')
    BY <1>1, <1>2, <1>6, <2>1, CarriesOther
  <2> QED
    BY <1>6, <2>2 DEF Filing
<1>7. ASSUME UNCHANGED <<out, log, logged>>,
             \/ UNCHANGED <<read, pump, chunk>>
             \/ pump # "write" /\ pump' # "write"
      PROVE  Filing'
  <2>1. Filed' = Filed
    BY <1>7 DEF Filed
  <2> QED
    BY <1>2, <1>7, <2>1 DEF Filing
<1>8. Capped \in Entries /\ Exited \in Entries /\ \A g \in Gates : Note(g) \in Entries
  BY DEF Capped, Exited, Note, Entry, Entries
<1>9. Capped.kind # "data" /\ Exited.kind # "data" /\ \A g \in Gates : Note(g).kind # "data"
  BY DEF Capped, Exited, Note, Entry
<1>10. CASE Marks \/ NotesExit
  BY <1>6, <1>8, <1>9, <1>10 DEF Marks, NotesExit, ReapStep, onDataVars, liveVars
<1>11. ASSUME NEW g \in Gates, TimerNotes(g) PROVE Filing'
  BY <1>6, <1>7, <1>8, <1>9, <1>11 DEF TimerNotes, onDataVars, liveVars
<1>12. CASE Reads \/ ReadEnds \/ Arms
  BY <1>7, <1>12 DEF Reads, ReadEnds, Arms, onDataVars, liveVars
<1>13. CASE (\E p \in procs : Exits(p)) \/ GateWindowEnds \/ WaitReturns \/ SetsExited \/ ClosesPty \/ ClosesLog
  BY <1>7, <1>13 DEF Exits, GateWindowEnds, WaitReturns, SetsExited, ClosesPty,
     ClosesLog, ReapStep, onDataVars, liveVars
<1>14. ASSUME NEW g \in Gates, TimerChecks(g) \/ TimerTypes(g) PROVE Filing'
  BY <1>7, <1>14 DEF TimerChecks, TimerTypes, onDataVars, liveVars
<1>15. CASE UNCHANGED vars
  BY <1>7, <1>15 DEF vars, onDataVars, liveVars
<1> QED
  BY <1>3, <1>4, <1>5, <1>10, <1>11, <1>12, <1>13, <1>14, <1>15 DEF Next, Pump, Reap, Timer

\* For any output, cut into reads in any way, and any cap: between two chunks
\* the log has exactly what was read, in order and without a gap, up to the
\* first chunk that reaches the cap.
THEOREM LogIsFaithful == Spec => []LogFaithful
<1>1. Init => Filing
  <2> SUFFICES ASSUME Init PROVE Filing
    OBVIOUS
  <2>1. OutputIn(log, Len(log)) = {}
    BY EmptySeq DEF Init, OutputIn
  <2>2. Carries(log, out, 0)
    BY <2>1, FS_EmptySet DEF Carries
  <2> QED
    BY <2>2 DEF Init, Filing, Filed
<1>2. LiveInv /\ Filing /\ [Next]_vars => Filing'
  BY FilingStep
<1>3. LiveInv /\ Filing => LogFaithful
  <2> SUFFICES ASSUME LiveInv, Filing, pump \in {"read", "closed"}
               PROVE  Carries(log, out, logged) /\ (logged < LogCap => logged = read)
    BY DEF LogFaithful
  <2>1. Filed = logged /\ Seen = read
    BY DEF Filed, Seen
  <2> QED
    BY <2>1 DEF LiveInv, Keeping, Filing
<1> QED
  BY <1>1, <1>2, <1>3, LiveInvariance, PTL DEF Spec

-----------------------------------------------------------------------------
(* What is left in the end.                                                   *)

ExitNoted == reap \in {"noted", "done"} => Exited \in ToSet(log)

\* No entry is taken back, and reap closes the log only after the exit line.
LEMMA ExitNotedStep ==
  ASSUME LiveInv, ExitNoted, [Next]_vars
  PROVE  /\ ExitNoted'
         /\ reap = "done" => UNCHANGED <<reap, log>>
<1> USE DEF LiveInv
<1>1. Exited \in Entries /\ Capped \in Entries /\ \A g \in Gates : Note(g) \in Entries
  BY DEF Exited, Capped, Note, Entry, Entries
<1>2. CASE Writes \/ Marks
  <2>1. reap' = reap /\ pump # "closed"
    BY <1>2 DEF Writes, Marks
  <2> QED
    BY <2>1 DEF ExitNoted, Logging
<1>3. CASE NotesExit
  <2>1. log' = Append(log, Exited) /\ reap = "ptyClosed"
    BY <1>3 DEF NotesExit, ReapStep
  <2>2. ToSet(log') = ToSet(log) \cup {Exited}
    BY <1>1, <2>1, LogAppends DEF Logging
  <2> QED
    BY <2>1, <2>2 DEF ExitNoted
<1>4. ASSUME NEW g \in Gates, Timer(g)
      PROVE  ExitNoted' /\ (reap = "done" => UNCHANGED <<reap, log>>)
  <2>1. /\ reap' = reap
        /\ log' = log \/ (log' = Append(log, Note(g)) /\ reap # "done")
    BY <1>4 DEF Timer, TimerChecks, TimerTypes, TimerNotes
  <2>2. ToSet(Append(log, Note(g))) = ToSet(log) \cup {Note(g)}
    BY <1>1, LogAppends DEF Logging
  <2> QED
    BY <2>1, <2>2 DEF ExitNoted
<1>5. CASE WaitReturns \/ SetsExited \/ ClosesPty \/ ClosesLog
  <2>1. /\ log' = log /\ reap # "done"
        /\ reap' \in {"noted", "done"} => reap = "noted"
    BY <1>5 DEF WaitReturns, SetsExited, ClosesPty, ClosesLog, ReapStep
  <2> QED
    BY <2>1 DEF ExitNoted
<1>6. CASE \/ \E b \in Bytes : Prints(b)
           \/ (\E p \in procs : Exits(p)) \/ GateWindowEnds \/ Reads \/ ReadEnds \/ Scans \/ Arms
           \/ UNCHANGED vars
  <2>1. UNCHANGED <<reap, log>>
    BY <1>6 DEF Prints, Exits, GateWindowEnds, Reads, ReadEnds, Scans, Arms, vars
  <2> QED
    BY <2>1 DEF ExitNoted
<1> QED
  BY <1>2, <1>3, <1>4, <1>5, <1>6 DEF Next, Pump, Reap

\* What is found in the log file of a session that is over.
ClosedLog ==
  reap = "done" => /\ Exited \in ToSet(log)
                   /\ Carries(log, out, logged)
                   /\ logged < LogCap => logged = read

\* When reap closes the log, the exit line is in it, and all that pump ever read
\* is, up to the cap: no chunk is still on its way to a file that is closed
\* under it.  Nothing changes the file afterwards, a late timer included.
THEOREM ClosedLogIsWhole == Spec => []ClosedLog /\ [][reap = "done" => log' = log]_vars
<1>1. Init => ExitNoted
  BY DEF Init, ExitNoted
<1>2. LiveInv /\ ExitNoted /\ [Next]_vars =>
        ExitNoted' /\ [reap = "done" => log' = log]_vars
  BY ExitNotedStep
<1>3. LiveInv /\ LogFaithful /\ ExitNoted => ClosedLog
  BY DEF LiveInv, Logging, LogFaithful, ExitNoted, ClosedLog
<1> QED
  BY <1>1, <1>2, <1>3, LiveInvariance, LogIsFaithful, PTL DEF Spec

\* A gate that onData marked as answered is a hit of the chunk in hand, or has a
\* timer that will type its key, or was typed, or came too late for a shell that
\* had been reaped.
AnswerKept ==
  \A g \in answered :
    \/ g \in hits
    \/ timer[g] \in {"armed", "checked"}
    \/ g \in ToSet(typed)
    \/ timer[g] = "done" /\ reap \notin {"wait", "reaped"}

\* Every step keeps an answer in one of these hands.
LEMMA AnswerKeptStep ==
  ASSUME LiveInv, AnswerKept, [Next]_vars
  PROVE  AnswerKept'
<1> USE DEF LiveInv
<1>1. /\ answered \subseteq Gates /\ hits \subseteq answered
      /\ timer \in [Gates -> {"idle", "armed", "checked", "typed", "done"}]
      /\ typed \in Seq(Gates)
  BY DEF Answering
<1>2. CASE Scans
  <2>1. hits = {} /\ answered' = answered \cup hits' /\ UNCHANGED <<timer, typed, reap>>
    BY <1>2, ScanHits DEF Scans, Answering
  <2> QED
    BY <2>1 DEF AnswerKept
<1>3. CASE Arms
  <2>1. /\ timer' = [g \in Gates |-> IF g \in hits THEN "armed" ELSE timer[g]]
        /\ UNCHANGED <<answered, typed, reap>>
    BY <1>3 DEF Arms, liveVars
  <2>2. \A g \in answered : timer'[g] = IF g \in hits THEN "armed" ELSE timer[g]
    BY <1>1, <2>1
  <2> QED
    BY <2>1, <2>2 DEF AnswerKept
<1>4. ASSUME NEW g \in Gates, TimerChecks(g) PROVE AnswerKept'
  <2>1. /\ UNCHANGED <<answered, hits, typed, reap>>
        /\ timer' = [timer EXCEPT ![g] = IF reap \in {"wait", "reaped"} THEN "checked"
                                         ELSE "done"]
    BY <1>4 DEF TimerChecks, onDataVars, liveVars
  <2> QED
    BY <1>1, <2>1 DEF AnswerKept
<1>5. ASSUME NEW g \in Gates, TimerTypes(g) PROVE AnswerKept'
  <2>1. UNCHANGED <<answered, hits, reap>>
    BY <1>5 DEF TimerTypes, onDataVars, liveVars
  <2>2. CASE PtyOpen
    <3>1. typed' = Append(typed, g) /\ timer' = [timer EXCEPT ![g] = "typed"]
      BY <1>5, <2>2 DEF TimerTypes
    <3>2. ToSet(typed') = ToSet(typed) \cup {g}
      BY <1>1, <3>1, AppendAdds
    <3> QED
      BY <1>1, <2>1, <3>1, <3>2 DEF AnswerKept
  <2>3. CASE ~PtyOpen
    <3>1. typed' = typed /\ timer' = [timer EXCEPT ![g] = "done"]
      BY <1>5, <2>3 DEF TimerTypes
    <3>2. reap \notin {"wait", "reaped"}
      BY <2>3 DEF PtyOpen
    <3> QED
      BY <1>1, <2>1, <3>1, <3>2 DEF AnswerKept
  <2> QED
    BY <2>2, <2>3
<1>6. ASSUME NEW g \in Gates, TimerNotes(g) PROVE AnswerKept'
  <2>1. /\ UNCHANGED <<answered, hits, typed, reap>>
        /\ timer[g] = "typed" /\ timer' = [timer EXCEPT ![g] = "done"]
    BY <1>6 DEF TimerNotes, onDataVars, liveVars
  <2>2. g \in ToSet(typed)
    BY <2>1 DEF Answering
  <2> QED
    BY <1>1, <2>1, <2>2 DEF AnswerKept
<1>7. CASE Reap
  <2>1. /\ UNCHANGED <<answered, hits, typed, timer>>
        /\ reap \notin {"wait", "reaped"} => reap' \notin {"wait", "reaped"}
    BY <1>7 DEF Reap, WaitReturns, SetsExited, ClosesPty, NotesExit, ClosesLog,
       ReapStep, onDataVars, liveVars
  <2> QED
    BY <2>1 DEF AnswerKept
<1>8. CASE \/ \E b \in Bytes : Prints(b)
           \/ (\E p \in procs : Exits(p)) \/ GateWindowEnds \/ Reads \/ ReadEnds \/ Writes \/ Marks
           \/ UNCHANGED vars
  <2>1. UNCHANGED <<answered, hits, typed, timer, reap>>
    BY <1>8 DEF Prints, Exits, GateWindowEnds, Reads, ReadEnds, Writes, Marks,
       vars, onDataVars, liveVars
  <2> QED
    BY <2>1 DEF AnswerKept
<1> QED
  BY <1>2, <1>3, <1>4, <1>5, <1>6, <1>7, <1>8 DEF Next, Pump, Timer

\* No answer is lost between the chunk that showed the gate and the keystroke,
\* however many gates one chunk shows.  When pump is back at its Read and no
\* timer is left to run, every gate marked as answered has been typed, or
\* nothing was there any more to type it to.
THEOREM AnswersAreKept ==
  Spec => /\ []AnswerKept
          /\ [](/\ pump \in {"read", "closed"}
                /\ \A g \in Gates : timer[g] \notin {"armed", "checked"}
                => answered \subseteq ToSet(typed) \/ reap \notin {"wait", "reaped"})
<1>1. Init => AnswerKept
  BY DEF Init, AnswerKept
<1>2. LiveInv /\ AnswerKept /\ [Next]_vars => AnswerKept'
  BY AnswerKeptStep
<1>3. LiveInv /\ AnswerKept =>
        (/\ pump \in {"read", "closed"}
         /\ \A g \in Gates : timer[g] \notin {"armed", "checked"}
         => answered \subseteq ToSet(typed) \/ reap \notin {"wait", "reaped"})
  BY DEF LiveInv, Answering, AnswerKept
<1> QED
  BY <1>1, <1>2, <1>3, LiveInvariance, PTL DEF Spec

=============================================================================
