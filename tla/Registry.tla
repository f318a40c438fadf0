------------------------------ MODULE Registry ------------------------------
(* shells.Registry on top of the catalog: Available, its cache, and the lock  *)
(* it holds while it asks the catalog again.  What is detected is a function  *)
(* of the edition that the shell specs come from (PATH stays as it is), so    *)
(* the edition stands for it.                                                 *)
EXTENDS Catalog

VARIABLES
  holder,  \* the goroutine that holds Registry.mu
  tag,     \* Registry.gen
  found,   \* Registry.found, by edition; -1 is nil
  call,    \* call[t]: "none", "models" (a plain catalog call), in Available
           \* "gen", "lock" or "shells", in Spawn after that "resolve"
  asked,   \* asked[t]: Available's `gen`
  since,   \* history: since[t], Store.cur when that call of t asked for Gen
  told     \* told[t]: what Available returned to t, by edition, until t goes
           \* on to something else

cache == <<holder, tag, found>>
calls == <<call, asked, since, told>>
vars == <<catalogVars, cache, calls>>

-----------------------------------------------------------------------------

RegTypeOK ==
  /\ TypeOK
  /\ holder \in Threads \cup {Nobody}
  /\ tag \in Nat /\ found \in Nat \cup {-1}
  /\ call \in [Threads -> {"none", "models", "gen", "lock", "shells", "resolve"}]
  /\ asked \in [Threads -> Nat] /\ since \in [Threads -> Nat]
  /\ told \in [Threads -> Nat \cup {-1}]
  /\ \A t \in Threads : holder = t <=> call[t] = "shells"

RegInit ==
  /\ Init
  /\ holder = Nobody /\ tag = 0 /\ found = -1
  /\ call = [t \in Threads |-> "none"]
  /\ asked = [t \in Threads |-> 0]
  /\ since = [t \in Threads |-> 0]
  /\ told = [t \in Threads |-> -1]

-----------------------------------------------------------------------------

Enter(t, label) == call' = [call EXCEPT ![t] = label]

\* Available returns `result`; its local is gone.
Returns(t, result) == /\ Enter(t, "none")
                      /\ asked' = [asked EXCEPT ![t] = 0]
                      /\ told' = [told EXCEPT ![t] = result]
                      /\ UNCHANGED since

\* t is done with what Available returned.
Forget(t) == /\ told' = [told EXCEPT ![t] = -1]
             /\ since' = [since EXCEPT ![t] = 0]

\* A request that asks the catalog itself: Models, DefaultModel, ResolveModel.
AsksModels(t) ==
  /\ call[t] = "none"
  /\ Stats(t)
  /\ Enter(t, "models")
  /\ Forget(t)
  /\ UNCHANGED <<cache, asked>>

GetsModels(t) ==
  /\ call[t] = "models"
  /\ Answers(t)
  /\ Enter(t, "none")
  /\ UNCHANGED <<cache, asked, since, told>>

\* Available: Gen comes before the lock.
AsksGen(t) ==
  /\ call[t] = "none"
  /\ Stats(t)
  /\ Enter(t, "gen")
  /\ Forget(t)
  /\ UNCHANGED <<cache, asked>>

GetsGen(t) ==
  /\ call[t] = "gen"
  /\ Answers(t)
  /\ asked' = [asked EXCEPT ![t] = gen]
  /\ since' = [since EXCEPT ![t] = cur]
  /\ Enter(t, "lock")
  /\ UNCHANGED <<cache, told>>

\* Faulty variant: any detection will do.
CacheHit_AnyGen(t) == found # -1

CacheHit(t) == tag = asked[t] /\ found # -1

ReturnsCached(t) ==
  /\ call[t] = "lock"
  /\ holder = Nobody
  /\ CacheHit(t)
  /\ Returns(t, found)
  /\ UNCHANGED <<catalogVars, cache>>

\* Shells runs reloadIfChanged again, with Registry.mu held.
AsksShells(t) ==
  /\ call[t] = "lock"
  /\ holder = Nobody
  /\ ~CacheHit(t)
  /\ holder' = t
  /\ Stats(t)
  /\ Enter(t, "shells")
  /\ UNCHANGED <<tag, found, asked, since, told>>

\* Specs from `cur`, bins from PATH; then the detection is cached and returned.
Detects(t) ==
  /\ call[t] = "shells"
  /\ Answers(t)
  /\ holder' = Nobody
  /\ tag' = asked[t]
  /\ found' = cur
  /\ Returns(t, cur)

\* Spawn has got its shell from Available and asks for its model, which is
\* resolved in the edition of that moment.
AsksModel(t) ==
  /\ call[t] = "none"
  /\ told[t] # -1
  /\ Stats(t)
  /\ Enter(t, "resolve")
  /\ UNCHANGED <<cache, asked, since, told>>

ResolvesModel(t) ==
  /\ call[t] = "resolve"
  /\ Answers(t)
  /\ Enter(t, "none")
  /\ Forget(t)
  /\ UNCHANGED <<cache, asked>>

-----------------------------------------------------------------------------

Request(t) == AsksModels(t) \/ AsksGen(t) \/ AsksModel(t)

Available(t) == GetsGen(t) \/ ReturnsCached(t) \/ AsksShells(t) \/ Detects(t)

RegReload(t) == Reload(t) /\ UNCHANGED <<cache, calls>>

Environment == (Editor \/ Started) /\ UNCHANGED <<cache, calls>>

RegNext == \/ Environment
           \/ \E t \in Threads : \/ Request(t) \/ GetsModels(t) \/ ResolvesModel(t)
                                 \/ Available(t) \/ RegReload(t)

RegSpec == RegInit /\ [][RegNext]_vars

-----------------------------------------------------------------------------
(* Properties.                                                                *)

\* A detection that is tagged with the generation in force comes from the
\* catalog in force, although Gen and Shells are two calls and other requests
\* reload and detect in between.
CacheIsCurrent == tag = gen /\ found # -1 => found = cur

\* What Available returns is never older than the catalog was when the call
\* asked for its generation: a launch sees the shells of a config.yaml that the
\* launcher had loaded by then.
AvailableIsFresh ==
  [][\A t \in Threads :
       call[t] \in {"lock", "shells"} /\ call'[t] = "none" => told'[t] >= since[t]]_vars

\* Spawn takes its shell and its model from two calls.  Both are of editions in
\* force between the beginning of the launch and its end, the model's not the
\* older one: unless a reload came in between, they are of the same config.yaml.
LaunchMatches ==
  [][\A t \in Threads :
       call[t] = "resolve" /\ call'[t] = "none" =>
         since[t] <= told[t] /\ told[t] <= cur]_vars

\* What keeps the call that t is in from its next step: the lock of the catalog,
\* and before Available asks the catalog for shells, the one of the registry.
CanMove(t) == \/ pc[t] \in {"read", "stamp"}
              \/ pc[t] \in {"compare", "lock", "ready"} /\ Unlocked
              \/ call[t] = "lock" /\ holder = Nobody

\* Holding Registry.mu across a call of the catalog closes no circle: while
\* requests are being served, one of them can take its next step.
NoCircle == (\E t \in Threads : call[t] # "none") => \E t \in Threads : CanMove(t)

\* No early return keeps a lock: nothing but these two stops a call, and they
\* never stop all calls.
SomebodyMoves ==
  /\ NoCircle
  /\ \A t \in Threads :
       CanMove(t) <=> ENABLED (\/ GetsModels(t) \/ ResolvesModel(t)
                              \/ Available(t) \/ RegReload(t))

=============================================================================
