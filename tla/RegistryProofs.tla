--------------------------- MODULE RegistryProofs ---------------------------
(* What holds of Registry for any number of requests and of edits.            *)
EXTENDS Registry, CatalogProofs

-----------------------------------------------------------------------------
(* The inductive invariant.                                                   *)

\* Before New is done nobody has called Available.
NothingCached ==
  phase # "up" =>
    /\ found = -1 /\ tag = 0
    /\ \A t \in Threads : call[t] = "none" /\ told[t] = -1

\* No generation and no edition is known before it exists.
KnownGens == tag <= gen /\ found <= cur /\ \A t \in Threads : asked[t] <= gen

\* While a call of Available is under way, the catalog does not fall behind what
\* it was when the call asked, and neither does a cache with that call's tag.
NotBehind ==
  \A t \in Threads : call[t] \in {"lock", "shells"} =>
    /\ since[t] <= cur
    /\ tag = asked[t] /\ found # -1 => since[t] <= found

\* What Available has told a launch is of an edition in force since it asked.
ToldInForce ==
  \A t \in Threads :
    /\ call[t] \in {"gen", "lock", "shells"} => told[t] = -1
    /\ call[t] = "resolve" => told[t] # -1
    /\ told[t] # -1 => since[t] <= told[t] /\ told[t] <= cur

RegInv == /\ IInv /\ RegTypeOK /\ NothingCached /\ KnownGens
          /\ CacheIsCurrent /\ NotBehind /\ ToldInForce

-----------------------------------------------------------------------------

\* The registry drives the catalog by the catalog's own steps.
LEMMA RegStepIsCatalogStep == [RegNext]_vars => [Next]_catalogVars
<1>1. RegNext => Next \/ UNCHANGED catalogVars
  BY DEF RegNext, Next, Environment, Request, AsksModels, AsksGen, GetsModels,
     AsksModel, ResolvesModel, Available, GetsGen, ReturnsCached,
     AsksShells, Detects, RegReload
<1>2. UNCHANGED vars => UNCHANGED catalogVars
  BY DEF vars
<1> QED
  BY <1>1, <1>2

\* Everything proved of Catalog holds of the catalog under the registry.
THEOREM RegistryUsesCatalog == RegSpec => Spec
<1>1. RegInit => Init
  BY DEF RegInit
<1> QED
  BY <1>1, RegStepIsCatalogStep, PTL DEF RegSpec, Spec

\* A reload changes nothing that the registry relies on, or makes a new
\* generation of a catalog that is no older.
LEMMA ReloadEffect ==
  ASSUME IInv, NEW t \in Threads, Reload(t)
  PROVE  /\ phase' = phase
         /\ \/ cur' = cur /\ gen' = gen
            \/ cur <= cur' /\ gen' = gen + 1
<1>1. CASE Publishes(t)
  BY <1>1 DEF Publishes, IInv, TypeOK, CarriesNewer
<1>2. CASE Compares(t) \/ Locks(t) \/ Reads(t) \/ ReadFails(t)
  BY <1>2 DEF Compares, Locks, Reads, ReadFails, store
<1> QED
  BY <1>1, <1>2 DEF Reload

\* The initial states satisfy the inductive invariant.
LEMMA RegInitInv == RegInit => RegInv
<1> SUFFICES ASSUME RegInit PROVE RegInv
  OBVIOUS
<1>1. IInv
  BY InitInv DEF RegInit
<1>2. \A t \in Threads : holder = t <=> call[t] = "shells"
  BY ThreadsAssumption DEF RegInit
<1>3. RegTypeOK
  BY <1>1, <1>2 DEF IInv, RegInit, RegTypeOK
<1>4. NothingCached /\ KnownGens /\ CacheIsCurrent /\ NotBehind /\ ToldInForce
  BY <1>1 DEF RegInit, Init, IInv, TypeOK, NothingCached, KnownGens,
     CacheIsCurrent, NotBehind, ToldInForce
<1> QED
  BY <1>1, <1>3, <1>4 DEF RegInv

\* Edits, New and reloads keep what the registry knows of the catalog.
LEMMA EnvironmentStep ==
  ASSUME RegInv, IInv', Environment \/ \E t \in Threads : RegReload(t)
  PROVE  RegInv'
<1>1. UNCHANGED <<cache, calls>>
  BY DEF Environment, RegReload
<1>2. RegTypeOK'
  BY <1>1 DEF RegInv, IInv, RegTypeOK, cache, calls
<1> USE DEF RegInv, IInv, TypeOK, RegTypeOK, NothingCached, KnownGens,
    CacheIsCurrent, NotBehind, ToldInForce, cache, calls
<1>3. CASE Editor
  BY <1>1, <1>2, <1>3 DEF Editor, store
<1>4. CASE NewReads
  BY <1>1, <1>2, <1>4 DEF NewReads
<1>5. CASE NewStamps
  BY <1>1, <1>2, <1>5 DEF NewStamps, StartsClean
<1>6. ASSUME NEW t \in Threads, Reload(t) PROVE RegInv'
  <2>1. /\ phase' = phase
        /\ \/ cur' = cur /\ gen' = gen
           \/ cur <= cur' /\ gen' = gen + 1
    BY <1>6, ReloadEffect
  <2>2. NothingCached' /\ KnownGens'
    BY <1>1, <2>1
  <2>3. CacheIsCurrent' /\ NotBehind' /\ ToldInForce'
    BY <1>1, <2>1
  <2> QED
    BY <1>2, <2>2, <2>3
<1> QED
  BY <1>3, <1>4, <1>5, <1>6 DEF Environment, Started, RegReload

\* A call of the catalog or of Available keeps the invariant.
LEMMA CallStep ==
  ASSUME RegInv, IInv', NEW t \in Threads,
         Request(t) \/ GetsModels(t) \/ ResolvesModel(t) \/ Available(t)
  PROVE  RegInv'
<1>1. UNCHANGED <<phase, cur, gen>>
  BY DEF Request, GetsModels, Available, AsksModels, AsksGen, AsksModel,
     ResolvesModel, GetsGen, ReturnsCached, AsksShells, Detects, Stats, Answers,
     catalogVars, store
<1> USE <1>1, ThreadsAssumption
    DEF RegInv, IInv, TypeOK, RegTypeOK, NothingCached, KnownGens,
    CacheIsCurrent, NotBehind, ToldInForce, cache, Enter, Forget, Returns
<1>2. CASE AsksModels(t)
  BY <1>2 DEF AsksModels, Stats
<1>3. CASE GetsModels(t)
  BY <1>3 DEF GetsModels, Answers, StartsClean
<1>4. CASE AsksGen(t)
  BY <1>4 DEF AsksGen, Stats
<1>5. CASE GetsGen(t)
  BY <1>5 DEF GetsGen, Answers, StartsClean
<1>6. CASE ReturnsCached(t)
  BY <1>6 DEF ReturnsCached, CacheHit
<1>7. CASE AsksShells(t)
  BY <1>7 DEF AsksShells, Stats
<1>8. CASE Detects(t)
  BY <1>8 DEF Detects, Answers, StartsClean
<1>9. CASE AsksModel(t)
  BY <1>9 DEF AsksModel, Stats
<1>10. CASE ResolvesModel(t)
  BY <1>10 DEF ResolvesModel, Answers, StartsClean
<1> QED
  BY <1>2, <1>3, <1>4, <1>5, <1>6, <1>7, <1>8, <1>9, <1>10 DEF Request, Available

\* The inductive invariant holds for ever.
THEOREM RegistryInvariance == RegSpec => []RegInv
<1>1. RegInv /\ [RegNext]_vars => RegInv'
  <2> SUFFICES ASSUME RegInv, [RegNext]_vars PROVE RegInv'
    OBVIOUS
  <2>1. IInv'
    BY RegStepIsCatalogStep, CatalogStep DEF RegInv
  <2>2. CASE UNCHANGED vars
    BY <2>1, <2>2 DEF RegInv, IInv, RegTypeOK, NothingCached, KnownGens,
       CacheIsCurrent, NotBehind, ToldInForce, vars, catalogVars, store, cache, calls
  <2>3. CASE RegNext
    BY <2>1, <2>3, EnvironmentStep, CallStep DEF RegNext
  <2> QED
    BY <2>2, <2>3
<1> QED
  BY RegInitInv, <1>1, PTL DEF RegSpec

\* Every variable keeps its type, and each lock its holder.
THEOREM RegistryTypeCorrect == RegSpec => []RegTypeOK
<1>1. RegInv => RegTypeOK
  BY DEF RegInv
<1> QED
  BY RegistryInvariance, <1>1, PTL

\* For any number of requests: a detection tagged with the generation in force
\* was made from the catalog in force.
THEOREM CacheStaysCurrent == RegSpec => []CacheIsCurrent
<1>1. RegInv => CacheIsCurrent
  BY DEF RegInv
<1> QED
  BY RegistryInvariance, <1>1, PTL

\* For any number of requests: what Available returns is not older than the
\* catalog was when the call began.
THEOREM AvailableStaysFresh == RegSpec => AvailableIsFresh
<1>1. RegInv /\ [RegNext]_vars =>
        [\A t \in Threads :
           call[t] \in {"lock", "shells"} /\ call'[t] = "none"
             => told'[t] >= since[t]]_vars
  <2> SUFFICES ASSUME RegInv, RegNext, NEW t \in Threads,
                      call[t] \in {"lock", "shells"}, call'[t] = "none"
               PROVE  told'[t] >= since[t]
    OBVIOUS
  <2>1. ReturnsCached(t) \/ Detects(t)
    BY DEF RegInv, RegTypeOK, RegNext, Environment, Request, AsksModels,
       AsksGen, AsksModel, GetsModels, ResolvesModel, Available, GetsGen,
       ReturnsCached, AsksShells, Detects, RegReload, Enter, Returns, calls
  <2> USE DEF RegInv, RegTypeOK, IInv, TypeOK, NotBehind
  <2>2. CASE ReturnsCached(t)
    BY <2>2 DEF ReturnsCached, Returns, CacheHit
  <2>3. CASE Detects(t)
    BY <2>3 DEF Detects, Returns
  <2> QED
    BY <2>1, <2>2, <2>3
<1> QED
  BY RegistryInvariance, <1>1, PTL DEF RegSpec, AvailableIsFresh

\* For any number of requests: Spawn gets a shell and a model of editions that
\* were in force while it was launching, the model's not the older one.
THEOREM LaunchesMatch == RegSpec => LaunchMatches
<1>1. RegInv /\ [RegNext]_vars =>
        [\A t \in Threads :
           call[t] = "resolve" /\ call'[t] = "none" =>
             since[t] <= told[t] /\ told[t] <= cur]_vars
  BY DEF RegInv, ToldInForce
<1> QED
  BY RegistryInvariance, <1>1, PTL DEF RegSpec, LaunchMatches

\* A call is in the catalog when its thread is, except while it waits for the
\* lock of the registry.
InTheCatalog ==
  \A t \in Threads : pc[t] # "idle" <=> call[t] \in {"models", "gen", "shells", "resolve"}

LEMMA InTheCatalogStep ==
  ASSUME RegInv, InTheCatalog, [RegNext]_vars
  PROVE  InTheCatalog'
<1> USE ThreadsAssumption DEF RegInv, RegTypeOK, IInv, TypeOK, InTheCatalog
<1>1. CASE Environment
  BY <1>1 DEF Environment, Editor, Started, NewReads, NewStamps, locals, calls
<1>2. ASSUME NEW t \in Threads, RegReload(t) PROVE InTheCatalog'
  <2>1. pc[t] # "idle" /\ call' = call
    BY <1>2 DEF RegReload, Reload, Compares, Locks, Reads, ReadFails, Publishes, calls
  <2>2. \E label \in {"lock", "ready", "read", "stamp"} : pc' = [pc EXCEPT ![t] = label]
    BY <1>2 DEF RegReload, Reload, Compares, Locks, FindsItDone, FindsItGone, GoesOnToRead,
       Reads, ReadFails, Publishes, Goto
  <2> QED
    BY <2>1, <2>2
<1>3. ASSUME NEW t \in Threads, Request(t) PROVE InTheCatalog'
  <2>1. pc' = [pc EXCEPT ![t] = "compare"]
    BY <1>3 DEF Request, AsksModels, AsksGen, AsksModel, Stats, Goto
  <2>2. \E label \in {"models", "gen", "resolve"} : call' = [call EXCEPT ![t] = label]
    BY <1>3 DEF Request, AsksModels, AsksGen, AsksModel, Enter
  <2> QED
    BY <2>1, <2>2
<1>4. ASSUME NEW t \in Threads, AsksShells(t) PROVE InTheCatalog'
  BY <1>4 DEF AsksShells, Stats, Goto, Enter
<1>5. ASSUME NEW t \in Threads, ReturnsCached(t) PROVE InTheCatalog'
  BY <1>5 DEF ReturnsCached, Returns, Enter, catalogVars, locals
<1>6. ASSUME NEW t \in Threads, GetsModels(t) \/ ResolvesModel(t) \/ GetsGen(t) \/ Detects(t)
      PROVE  InTheCatalog'
  <2>1. pc' = [pc EXCEPT ![t] = "idle"]
    BY <1>6 DEF GetsModels, ResolvesModel, GetsGen, Detects, Answers, Goto
  <2>2. \E label \in {"none", "lock"} : call' = [call EXCEPT ![t] = label]
    BY <1>6 DEF GetsModels, ResolvesModel, GetsGen, Detects, Returns, Enter
  <2> QED
    BY <2>1, <2>2
<1>7. CASE UNCHANGED vars
  BY <1>7 DEF vars, catalogVars, locals, calls
<1> QED
  BY <1>1, <1>2, <1>3, <1>4, <1>5, <1>6, <1>7 DEF RegNext, Available

\* A call and its thread go in step.
LEMMA CallsInTheCatalog == RegSpec => []InTheCatalog
<1>1. RegInit => InTheCatalog
  BY DEF RegInit, Init, InTheCatalog
<1>2. RegInv /\ InTheCatalog /\ [RegNext]_vars => InTheCatalog'
  BY InTheCatalogStep
<1> QED
  BY <1>1, <1>2, RegistryInvariance, PTL DEF RegSpec

\* For any number of requests: the two locks close no circle.  Whoever waits for
\* the catalog waits for a goroutine that reads the file, and whoever waits for
\* the registry for one that is in the catalog.
THEOREM LocksCloseNoCircle == RegSpec => []NoCircle
<1>1. RegInv /\ InTheCatalog => NoCircle
  <2> SUFFICES ASSUME RegInv, InTheCatalog, NEW t \in Threads, call[t] # "none"
               PROVE  \E u \in Threads : CanMove(u)
    BY DEF NoCircle
  <2> USE DEF RegInv, RegTypeOK, IInv, TypeOK, Unlocked
  <2>1. CASE writer # Nobody
    <3>1. writer \in Threads /\ pc[writer] \in {"read", "stamp"}
      BY <2>1
    <3> QED
      BY <3>1 DEF CanMove
  <2>2. CASE writer = Nobody
    <3>1. \A u \in Threads : pc[u] # "idle" => CanMove(u)
      BY <2>2 DEF CanMove
    <3>2. CASE call[t] # "lock"
      BY <3>1, <3>2 DEF InTheCatalog
    <3>3. CASE call[t] = "lock" /\ holder = Nobody
      BY <3>3 DEF CanMove
    <3>4. CASE holder # Nobody
      <4>1. holder \in Threads /\ call[holder] = "shells"
        BY <3>4
      <4> QED
        BY <3>1, <4>1 DEF InTheCatalog
    <3> QED
      BY <3>2, <3>3, <3>4
  <2> QED
    BY <2>1, <2>2
<1> QED
  BY <1>1, CallsInTheCatalog, RegistryInvariance, PTL

-----------------------------------------------------------------------------
(* What a launch gets to see of the file.                                     *)

\* A launch that found edition e in place sees nothing older of it.
LaunchHeeds(t, e) ==
  /\ Heeds(t, e)
  /\ call[t] \in {"lock", "shells"} => since[t] = e
  /\ told[t] # -1 => told[t] = e

\* Nothing newer than the file is in force, cached or told.
LEMMA NothingNewer ==
  ASSUME RegInv, NEW t \in Threads, NEW e \in Nat, disk = e, e \in good
  PROVE  e # 0 /\ cur <= e /\ found <= e /\ cur \in Nat /\ found \in Nat \cup {-1}
BY DEF RegInv, RegTypeOK, IInv, TypeOK, OnlyNewer, Behind, KnownGens

\* While the file stays as it is and no load is overtaken, every step keeps this.
LEMMA LaunchHeedsStep ==
  ASSUME RegInv, [RegNext]_vars, NEW t \in Threads, NEW e \in Nat,
         disk = e, disk' = e, e \in good, ~overtaken, LaunchHeeds(t, e)
  PROVE  LaunchHeeds(t, e)'
<1>1. Heeds(t, e)'
  BY RegStepIsCatalogStep, HeedsStep DEF RegInv, LaunchHeeds
<1> USE <1>1 DEF LaunchHeeds, RegInv, RegTypeOK
<1>2. pc[t] = "ready" => cur = e
  BY DEF Heeds
<1>3. CASE UNCHANGED calls
  BY <1>3 DEF calls
<1>4. ASSUME NEW u \in Threads,
             AsksModels(u) \/ GetsModels(u) \/ AsksGen(u) \/ AsksModel(u) \/ ResolvesModel(u)
      PROVE  LaunchHeeds(t, e)'
  BY <1>4 DEF AsksModels, GetsModels, AsksGen, AsksModel, ResolvesModel, Forget, Enter
<1>5. ASSUME NEW u \in Threads, GetsGen(u) PROVE LaunchHeeds(t, e)'
  BY <1>2, <1>5 DEF GetsGen, Answers, Enter, IInv, TypeOK
<1>6. ASSUME NEW u \in Threads, ReturnsCached(u) PROVE LaunchHeeds(t, e)'
  <2>1. u = t => found = e
    BY <1>6, NothingNewer DEF ReturnsCached, CacheHit, NotBehind
  <2> QED
    BY <1>6, <2>1 DEF ReturnsCached, Returns, Enter
<1>7. ASSUME NEW u \in Threads, AsksShells(u) PROVE LaunchHeeds(t, e)'
  BY <1>7 DEF AsksShells, Enter
<1>8. ASSUME NEW u \in Threads, Detects(u) PROVE LaunchHeeds(t, e)'
  BY <1>2, <1>8 DEF Detects, Answers, Returns, Enter
<1>9. Environment \/ (\E u \in Threads : RegReload(u)) \/ UNCHANGED vars => UNCHANGED calls
  BY DEF Environment, RegReload, vars
<1> QED
  BY <1>3, <1>4, <1>5, <1>6, <1>7, <1>8, <1>9 DEF RegNext, Request, Available

\* An edit takes effect with the next launch: once a valid edition is in place,
\* and as long as it stays there and no load is overtaken by a write, a request
\* that starts from then on gets its shell from that edition, be it detected
\* or cached, and its model as well, whatever other requests have in hand.
THEOREM EditsReachLaunches ==
  ASSUME NEW t \in Threads, NEW e \in Nat
  PROVE  RegSpec => [](call[t] = "none" /\ told[t] = -1
                         /\ [](disk = e /\ e \in good /\ ~overtaken)
                       => [](told[t] # -1 => told[t] = e /\ cur = e))
<1> DEFINE InPlace == disk = e /\ e \in good /\ ~overtaken
           Told == told[t] # -1 => told[t] = e /\ cur = e
           Begins == call[t] = "none" /\ told[t] = -1
<1>1. InTheCatalog /\ Begins => LaunchHeeds(t, e)
  BY DEF InTheCatalog, LaunchHeeds, Heeds
<1>2. RegInv /\ [RegNext]_vars /\ InPlace /\ InPlace' /\ LaunchHeeds(t, e) => LaunchHeeds(t, e)'
  BY LaunchHeedsStep
<1>3. RegInv /\ InPlace /\ LaunchHeeds(t, e) => Told
  BY NothingNewer DEF LaunchHeeds, RegInv, ToldInForce
<1> HIDE DEF InPlace, Told, Begins
<1>4. RegSpec => [](Begins /\ []InPlace => []Told)
  BY RegistryInvariance, CallsInTheCatalog, <1>1, <1>2, <1>3, PTL DEF RegSpec
<1> QED
  BY <1>4 DEF InPlace, Told, Begins

=============================================================================
