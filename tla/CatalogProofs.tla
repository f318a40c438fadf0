--------------------------- MODULE CatalogProofs ---------------------------
(* What holds of Catalog for any number of requests and of edits.             *)
EXTENDS Catalog, TLAPS

-----------------------------------------------------------------------------
(* The inductive invariant.                                                   *)

\* Requests are served once New is done, which has started from the defaults.
StartsClean ==
  /\ phase # "up" => \A t \in Threads : pc[t] = "idle"
  /\ phase = "new" => cur = 0
  /\ phase \in {"new", "stamping"} => gen = 1

\* Edition e is not ahead of the file.
Behind(e) == e <= edits + 1 /\ (disk # 0 => e <= disk)

\* Editions only get newer: the file never holds an older one than the store.
OnlyNewer == disk <= edits + 1 /\ Behind(cur)

\* The goroutine that is about to publish has read a whole edition, and nothing
\* newer was published since.
CarriesNewer ==
  \A t \in Threads :
    pc[t] = "stamp" => got[t] \in good /\ cur <= got[t] /\ Behind(got[t])

\* The stamp is that of the catalog in force.
StampMatches == phase # "stamping" /\ ~overtaken => stamp = cur

IInv == TypeOK /\ StartsClean /\ OnlyNewer /\ CarriesNewer /\ StampMatches

-----------------------------------------------------------------------------

\* The initial states satisfy the inductive invariant.
LEMMA InitInv == Init => IInv
<1> SUFFICES ASSUME Init PROVE IInv
  OBVIOUS
<1>1. disk \in Nat /\ good \subseteq Nat \ {0} /\ disk <= 1
  BY DEF Init
<1>2. \A t \in Threads : writer = t <=> pc[t] \in {"read", "stamp"}
  BY ThreadsAssumption DEF Init
<1>3. TypeOK
  BY <1>1, <1>2 DEF Init, TypeOK
<1>4. StartsClean /\ OnlyNewer /\ CarriesNewer /\ StampMatches
  BY <1>1 DEF Init, StartsClean, OnlyNewer, Behind, CarriesNewer, StampMatches
<1> QED
  BY <1>3, <1>4 DEF IInv

\* The editor keeps the inductive invariant.
LEMMA EditorStep == IInv /\ Editor => IInv'
<1> SUFFICES ASSUME IInv, Editor PROVE IInv'
  OBVIOUS
<1> USE ThreadsAssumption
    DEF IInv, TypeOK, StartsClean, OnlyNewer, Behind, CarriesNewer, StampMatches,
    Editor, store, locals, Parses
<1>1. CASE Write
  BY <1>1 DEF Write, Edit
<1>2. CASE FinishWrite
  BY <1>2 DEF FinishWrite
<1>3. CASE Delete
  BY <1>3 DEF Delete, Edit
<1> QED
  BY <1>1, <1>2, <1>3

\* So does New.
LEMMA StartedStep == IInv /\ Started => IInv'
<1> SUFFICES ASSUME IInv, Started PROVE IInv'
  OBVIOUS
<1> USE ThreadsAssumption
    DEF IInv, TypeOK, StartsClean, OnlyNewer, Behind, CarriesNewer, StampMatches,
    file, locals, Parses
<1>1. CASE NewReads
  BY <1>1 DEF NewReads
<1>2. CASE NewStamps
  BY <1>2 DEF NewStamps
<1> QED
  BY <1>1, <1>2 DEF Started

\* And so does every step of a request.
LEMMA RequestStep ==
  ASSUME IInv, NEW t \in Threads, Stats(t) \/ Reload(t) \/ Answers(t)
  PROVE  IInv'
<1> USE ThreadsAssumption
    DEF IInv, TypeOK, StartsClean, OnlyNewer, Behind, CarriesNewer, StampMatches,
    file, store, Parses, Goto, Unlocked
<1>1. CASE Stats(t)
  BY <1>1 DEF Stats
<1>2. CASE Compares(t)
  BY <1>2 DEF Compares
<1>3. CASE Locks(t)
  <2>1. CASE FindsItDone(t)
    BY <1>3, <2>1 DEF Locks, FindsItDone
  <2>2. CASE FindsItGone(t)
    BY <1>3, <2>2 DEF Locks, FindsItGone
  <2>3. CASE GoesOnToRead(t)
    BY <1>3, <2>3 DEF Locks, GoesOnToRead
  <2> QED
    BY <1>3, <2>1, <2>2, <2>3 DEF Locks
<1>4. CASE Reads(t)
  BY <1>4 DEF Reads
<1>5. CASE ReadFails(t)
  BY <1>5 DEF ReadFails
<1>6. CASE Publishes(t)
  <2>1. cur' = got[t] /\ gen' \in Nat /\ stamp' = disk /\ disk' = disk
    BY <1>6 DEF Publishes
  <2>2. got[t] \in good /\ got[t] \in Nat
    BY <1>6 DEF Publishes
  <2>3. writer = t /\ \A u \in Threads : pc'[u] \notin {"read", "stamp"}
    BY <1>6 DEF Publishes
  <2>4. TypeOK'
    BY <1>6, <2>1, <2>2, <2>3 DEF Publishes
  <2>5. StartsClean'
    BY <1>6 DEF Publishes
  <2>6. OnlyNewer'
    BY <1>6, <2>1, <2>2 DEF Publishes
  <2>7. CarriesNewer' /\ StampMatches'
    BY <1>6, <2>1, <2>3 DEF Publishes
  <2> QED
    BY <2>4, <2>5, <2>6, <2>7
<1>7. CASE Answers(t)
  BY <1>7 DEF Answers
<1> QED
  BY <1>1, <1>2, <1>3, <1>4, <1>5, <1>6, <1>7 DEF Reload

\* Nothing but these steps moves the catalog.
LEMMA CatalogStep == IInv /\ [Next]_catalogVars => IInv'
<1>1. IInv /\ UNCHANGED catalogVars => IInv'
  BY DEF IInv, TypeOK, StartsClean, OnlyNewer, Behind, CarriesNewer,
     StampMatches, catalogVars, file, store, locals, Unlocked
<1> QED
  BY <1>1, EditorStep, StartedStep, RequestStep DEF Next

\* The inductive invariant holds for ever.
THEOREM CatalogInvariance == Spec => []IInv
  BY InitInv, CatalogStep, PTL DEF Spec

\* Every variable keeps its type, and the lock its holder.
THEOREM CatalogTypeCorrect == Spec => []TypeOK
<1>1. IInv => TypeOK
  BY DEF IInv
<1> QED
  BY CatalogInvariance, <1>1, PTL

\* For any number of requests and edits: as long as no write fell between the
\* read and the stamp of the last load, a stamp that matches the file means that
\* the file is loaded.
THEOREM StampIsHonest == Spec => []StampMeansLoadedUnlessOvertaken
<1>1. IInv => StampMeansLoadedUnlessOvertaken
  BY DEF IInv, StampMatches, StampMeansLoadedUnlessOvertaken, StampTrue
<1> QED
  BY CatalogInvariance, <1>1, PTL

\* A step that changes the catalog in force moves it to a newer edition.
LEMMA MovesForward ==
  IInv /\ [Next]_catalogVars => (cur' # cur => cur' > cur /\ cur' \in good)
<1> SUFFICES ASSUME IInv, [Next]_catalogVars, cur' # cur
             PROVE  cur' > cur /\ cur' \in good
  OBVIOUS
<1>1. CASE NewReads
  BY <1>1 DEF NewReads, IInv, TypeOK, StartsClean, Parses
<1>2. CASE \E t \in Threads : Publishes(t)
  BY <1>2 DEF Publishes, IInv, TypeOK, CarriesNewer
<1>3. NewReads \/ \E t \in Threads : Publishes(t)
  BY DEF Next, Editor, Started, NewStamps, Stats, Reload, Compares, Locks, Reads,
     ReadFails, Answers, store, catalogVars
<1> QED
  BY <1>1, <1>2, <1>3

\* For any number of requests, in whatever order they stat, wait for the lock
\* and read: the catalog in force is only ever replaced by a newer, whole one.
THEOREM RollsForward == Spec => NeverRollsBack
<1>1. IInv /\ [Next]_catalogVars
        => [cur' # cur => cur' > cur /\ cur' \in good]_cur
  BY MovesForward
<1> QED
  BY CatalogInvariance, <1>1, PTL DEF Spec, NeverRollsBack

-----------------------------------------------------------------------------
(* What a request gets to see of the file.                                    *)

\* A call that found edition e in place answers with e, or a write overtook the
\* last load.
Heeds(t, e) ==
  /\ pc[t] # "idle" => now[t] = e
  /\ pc[t] = "stamp" => got[t] = e
  /\ pc[t] = "ready" => cur = e \/ overtaken

\* While the file stays as it is, every step keeps this.
LEMMA HeedsStep ==
  ASSUME IInv, [Next]_catalogVars, NEW t \in Threads, NEW e \in Nat,
         disk = e, disk' = e, e \in good, Heeds(t, e)
  PROVE  Heeds(t, e)'
<1> USE DEF Heeds, IInv, TypeOK
<1>1. CASE Editor
  BY <1>1 DEF Editor, store, locals
<1>2. CASE Started
  BY <1>2 DEF Started, NewReads, NewStamps, StartsClean, locals, file
<1>3. ASSUME NEW u \in Threads, Stats(u) PROVE Heeds(t, e)'
  BY <1>3 DEF Stats, Goto, store, file
<1>4. ASSUME NEW u \in Threads, Answers(u) PROVE Heeds(t, e)'
  BY <1>4 DEF Answers, Goto, store, file
<1>5. now[t] = stamp /\ pc[t] # "idle" => cur = e \/ overtaken
  BY DEF StartsClean, StampMatches
<1>6. ASSUME NEW u \in Threads, Compares(u) PROVE Heeds(t, e)'
  BY <1>5, <1>6 DEF Compares, Goto, store, file
<1>7. ASSUME NEW u \in Threads, Locks(u) PROVE Heeds(t, e)'
  BY <1>5, <1>7 DEF Locks, FindsItDone, FindsItGone, GoesOnToRead, Goto, file
<1>8. ASSUME NEW u \in Threads, Reads(u) PROVE Heeds(t, e)'
  BY <1>8 DEF Reads, Goto, store, file
<1>9. ASSUME NEW u \in Threads, ReadFails(u) PROVE Heeds(t, e)'
  BY <1>9 DEF ReadFails, Parses
<1>10. ASSUME NEW u \in Threads, Publishes(u) PROVE Heeds(t, e)'
  BY <1>10 DEF Publishes, Goto, file
<1>11. CASE UNCHANGED catalogVars
  BY <1>11 DEF catalogVars, store, locals
<1> QED
  BY <1>1, <1>2, <1>3, <1>4, <1>6, <1>7, <1>8, <1>9, <1>10, <1>11 DEF Next, Reload

\* An edit takes effect with the next request: once a valid edition is in place
\* and as long as it stays there, every call that starts from then on answers
\* with it, the first one included, whatever other calls have in hand and
\* however often the file was met half-written before; unless a load that a
\* write overtook recorded the edition's stamp for an older one.
THEOREM EditsTakeEffect ==
  ASSUME NEW t \in Threads, NEW e \in Nat
  PROVE  Spec => [](pc[t] = "idle" /\ [](disk = e /\ e \in good)
                      => [](pc[t] = "ready" => cur = e \/ overtaken))
<1> DEFINE InPlace == disk = e /\ e \in good
<1>1. pc[t] = "idle" => Heeds(t, e)
  BY DEF Heeds
<1>2. IInv /\ [Next]_catalogVars /\ InPlace /\ InPlace' /\ Heeds(t, e) => Heeds(t, e)'
  BY HeedsStep
<1>3. Heeds(t, e) => (pc[t] = "ready" => cur = e \/ overtaken)
  BY DEF Heeds
<1> HIDE DEF InPlace
<1>4. Spec => [](pc[t] = "idle" /\ []InPlace => [](pc[t] = "ready" => cur = e \/ overtaken))
  BY CatalogInvariance, <1>1, <1>2, <1>3, PTL DEF Spec
<1> QED
  BY <1>4 DEF InPlace

=============================================================================
