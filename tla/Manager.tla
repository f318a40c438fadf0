------------------------------ MODULE Manager ------------------------------
(* The session manager of internal/sessions, and main's way out: several      *)
(* sessions, each with a pump and a reap goroutine and a process group of its *)
(* own, HTTP handlers that spawn, list and remove, the SIGINT handler that    *)
(* calls Shutdown, and the delayed SIGKILL goroutines of killGroup.           *)
(*                                                                            *)
(* One step is what happens between two points at which another goroutine or  *)
(* a process can be observed to intervene: a critical section of m.mu is one  *)
(* step, and so is a read under l.mu.  pump() is the one goroutine that does  *)
(* I/O next to its critical section, so its holding of l.mu has a state of    *)
(* its own ("locked").  What a session prints is in module Live.              *)
EXTENDS Naturals

CONSTANTS Sessions,      \* ids that newID may return; each is used once
          Pollers,       \* clients that poll GET /api/sessions
          KillDelay,     \* seconds killGroup waits before it sends SIGKILL
          ShutdownGrace  \* seconds Shutdown waits for the sessions it killed

ASSUME DelayAssumption == KillDelay \in Nat /\ ShutdownGrace \in Nat

VARIABLES
  platform,  \* which killGroup is compiled in; never changes
  main,      \* "serving", "sweeping" (in mgr.Shutdown) or "exited"
  items,     \* Manager.items, as the set of its keys
  handler,   \* handler[s]: where the Spawn that creates s stands
  procs,     \* procs[s]: the live processes of the group of s
  pump,      \* pump[s]: the pump goroutine of s
  reap,      \* reap[s]: the reap goroutine of s
  remover,   \* remover[s]: where the Remove that took s out of items stands
  killer,    \* killer[s]: the goroutine that sends s the delayed SIGKILL
  kills,     \* kills[s]: calls of killGroup for s
  sweep,     \* sweep[s]: what Shutdown's loop has done with s
  rows,      \* rows[p][s]: the answer that poller p's List is building
  listing,   \* pollers with a List under way
  seen       \* seen[p][s]: s as the last answered List showed it to p

session == <<handler, procs, pump, reap>>
killing == <<remover, killer, kills, sweep>>
polling == <<rows, listing, seen>>
vars == <<platform, main, items, session, killing, polling>>

-----------------------------------------------------------------------------

Rank == [absent |-> 0, running |-> 1, stopped |-> 2, gone |-> 3]

\* Type correctness; and what Remove or Shutdown has taken out of the map stays out.
TypeOK ==
  /\ platform \in {"unix", "windows"}
  /\ main \in {"serving", "sweeping", "exited"}
  /\ items \subseteq Sessions
  /\ handler \in [Sessions ->
       {"idle", "started", "inserted", "spawned", "done"}]
  /\ procs \in [Sessions -> SUBSET {"shell", "claude"}]
  /\ pump \in [Sessions -> {"none", "reading", "locked", "writing"}]
  /\ reap \in [Sessions -> {"none", "waiting", "reaped", "exited"}]
  /\ remover \in [Sessions -> {"idle", "deleted", "killing", "done"}]
  /\ killer \in [Sessions -> {"idle", "sleeping", "fired"}]
  /\ kills \in [Sessions -> Nat]
  /\ sweep \in [Sessions -> {"none", "queued", "doomed", "awaited", "skipped"}]
  /\ rows \in [Pollers -> [Sessions -> {"none", "queued", "running", "stopped"}]]
  /\ listing \subseteq Pollers
  /\ seen \in [Pollers -> [Sessions -> DOMAIN Rank]]
  /\ \A s \in items : remover[s] = "idle" /\ sweep[s] = "none"

Init ==
  /\ platform \in {"unix", "windows"}
  /\ main = "serving"
  /\ items = {}
  /\ handler = [s \in Sessions |-> "idle"]
  /\ procs = [s \in Sessions |-> {}]
  /\ pump = [s \in Sessions |-> "none"]
  /\ reap = [s \in Sessions |-> "none"]
  /\ remover = [s \in Sessions |-> "idle"]
  /\ killer = [s \in Sessions |-> "idle"]
  /\ kills = [s \in Sessions |-> 0]
  /\ sweep = [s \in Sessions |-> "none"]
  /\ rows = [p \in Pollers |-> [s \in Sessions |-> "none"]]
  /\ listing = {}
  /\ seen = [p \in Pollers |-> [s \in Sessions |-> "absent"]]

-----------------------------------------------------------------------------
(* l.mu.  Everybody but pump() releases it in the step that takes it.         *)

\* Faulty variant: the log is written with l.mu held.
LockFree_HeldOverWrite(s) == pump[s] \notin {"locked", "writing"}

LockFree(s) == pump[s] # "locked"

Up == main # "exited"

\* The status a row shows for s; snapshot() reads it under l.mu.
Status(s) == IF reap[s] = "exited" THEN "stopped" ELSE "running"

-----------------------------------------------------------------------------
(* Spawn.  A request that fails validation, or whose shell does not start,    *)
(* leaves no trace.  The HTTP server still accepts requests while Shutdown is *)
(* under way: main shuts it down only afterwards.                             *)

\* cmd.Start.  The shell either replaces itself by claude (exec), which leaves
\* one process in the group, or forks it.
Start(s) ==
  /\ Up
  /\ handler[s] = "idle"
  /\ handler' = [handler EXCEPT ![s] = "started"]
  /\ \E group \in {{"shell"}, {"shell", "claude"}} :
       procs' = [procs EXCEPT ![s] = group]
  /\ UNCHANGED <<platform, main, items, pump, reap, killing, polling>>

Insert(s) ==
  /\ Up
  /\ handler[s] = "started"
  /\ handler' = [handler EXCEPT ![s] = "inserted"]
  /\ items' = items \cup {s}
  /\ UNCHANGED <<platform, main, procs, pump, reap, killing, polling>>

GoPumpAndReap(s) ==
  /\ Up
  /\ handler[s] = "inserted"
  /\ handler' = [handler EXCEPT ![s] = "spawned"]
  /\ pump' = [pump EXCEPT ![s] = "reading"]
  /\ reap' = [reap EXCEPT ![s] = "waiting"]
  /\ UNCHANGED <<platform, main, items, procs, killing, polling>>

\* Faulty variant: the launched session is put in the store again.
Launched_Reinserts(s) ==
  /\ Up
  /\ handler[s] = "spawned"
  /\ LockFree(s)
  /\ handler' = [handler EXCEPT ![s] = "done"]
  /\ items' = items \cup {s}
  /\ UNCHANGED <<platform, main, procs, pump, reap, killing, polling>>

\* Spawn returns l.snapshot().
Launched(s) ==
  /\ Up
  /\ handler[s] = "spawned"
  /\ LockFree(s)
  /\ handler' = [handler EXCEPT ![s] = "done"]
  /\ UNCHANGED <<platform, main, items, procs, pump, reap, killing, polling>>

-----------------------------------------------------------------------------
(* The goroutines and processes of one session.                               *)

\* pump() has read a chunk and enters the critical section of onData.
PumpLocks(s) ==
  /\ Up
  /\ pump[s] = "reading"
  /\ pump' = [pump EXCEPT ![s] = "locked"]
  /\ UNCHANGED <<platform, main, items, handler, procs, reap, killing, polling>>

PumpUnlocks(s) ==
  /\ Up
  /\ pump[s] = "locked"
  /\ pump' = [pump EXCEPT ![s] = "writing"]
  /\ UNCHANGED <<platform, main, items, handler, procs, reap, killing, polling>>

\* The write to the log returned; on a full or slow disk it may never do.
PumpWrote(s) ==
  /\ Up
  /\ pump[s] = "writing"
  /\ pump' = [pump EXCEPT ![s] = "reading"]
  /\ UNCHANGED <<platform, main, items, handler, procs, reap, killing, polling>>

\* A process of the group ends: by itself, on SIGTERM, or on SIGHUP.
Die(s, p) ==
  /\ p \in procs[s]
  /\ procs' = [procs EXCEPT ![s] = @ \ {p}]
  /\ UNCHANGED <<platform, main, items, handler, pump, reap, killing, polling>>

\* Faulty variant: Wait returns with the last process of the group.
Reaped_WithTheGroup(s) ==
  /\ Up
  /\ reap[s] = "waiting"
  /\ procs[s] = {}
  /\ reap' = [reap EXCEPT ![s] = "reaped"]
  /\ UNCHANGED <<platform, main, items, handler, procs, pump, killing, polling>>

\* cmd.Wait returns once the shell is dead, whatever became of claude.
Reaped(s) ==
  /\ Up
  /\ reap[s] = "waiting"
  /\ "shell" \notin procs[s]
  /\ reap' = [reap EXCEPT ![s] = "reaped"]
  /\ UNCHANGED <<platform, main, items, handler, procs, pump, killing, polling>>

SetExited(s) ==
  /\ Up
  /\ reap[s] = "reaped"
  /\ LockFree(s)
  /\ reap' = [reap EXCEPT ![s] = "exited"]
  /\ UNCHANGED <<platform, main, items, handler, procs, pump, killing, polling>>

-----------------------------------------------------------------------------
(* killGroup.                                                                 *)

\* kill_windows.go: taskkill takes down the tree; should it fail, p.Kill takes
\* down the shell alone.  Both are done when killGroup returns.
KillTree(s) ==
  /\ platform = "windows"
  /\ \E left \in {{}, procs[s] \ {"shell"}} :
       procs' = [procs EXCEPT ![s] = left]
  /\ UNCHANGED killer

\* Faulty variant: nobody follows SIGTERM up.
TermThenKill_TermOnly(s) ==
  /\ platform = "unix"
  /\ UNCHANGED <<procs, killer>>

\* kill_unix.go: SIGTERM, which a process may heed at any time later (Die) or
\* never, and a goroutine that sends SIGKILL after KillDelay.
TermThenKill(s) ==
  /\ platform = "unix"
  /\ killer' = [killer EXCEPT ![s] = "sleeping"]
  /\ UNCHANGED procs

KillGroup(s) == /\ KillTree(s) \/ TermThenKill(s)
                /\ kills' = [kills EXCEPT ![s] = @ + 1]

SigKill(s) ==
  /\ Up
  /\ killer[s] = "sleeping"
  /\ killer' = [killer EXCEPT ![s] = "fired"]
  /\ procs' = [procs EXCEPT ![s] = {}]
  /\ UNCHANGED <<platform, main, items, handler, pump, reap, remover, kills,
                 sweep, polling>>

-----------------------------------------------------------------------------
(* Remove.  A Remove that does not find its id changes nothing.               *)

RemoveDeletes(s) ==
  /\ Up
  /\ s \in items
  /\ items' = items \ {s}
  /\ remover' = [remover EXCEPT ![s] = "deleted"]
  /\ UNCHANGED <<platform, main, session, killer, kills, sweep, polling>>

\* Faulty variant: a session that is still running is dropped, not killed.
RemoveChecks_NeverKills(s) ==
  /\ Up
  /\ remover[s] = "deleted"
  /\ LockFree(s)
  /\ remover' = [remover EXCEPT ![s] = "done"]
  /\ UNCHANGED <<platform, main, items, session, killer, kills, sweep, polling>>

\* `exited` is read under l.mu; the kill comes after the unlock.
RemoveChecks(s) ==
  /\ Up
  /\ remover[s] = "deleted"
  /\ LockFree(s)
  /\ remover' = [remover EXCEPT ![s] =
                   IF reap[s] = "exited" THEN "done" ELSE "killing"]
  /\ UNCHANGED <<platform, main, items, session, killer, kills, sweep, polling>>

RemoveKills(s) ==
  /\ Up
  /\ remover[s] = "killing"
  /\ KillGroup(s)
  /\ remover' = [remover EXCEPT ![s] = "done"]
  /\ UNCHANGED <<platform, main, items, handler, pump, reap, sweep, polling>>

-----------------------------------------------------------------------------
(* Shutdown, on SIGINT or SIGTERM to the launcher.                            *)

\* Faulty variant: the map is copied but not emptied.
ShutdownTakesAll_KeepsItems ==
  /\ main = "serving"
  /\ main' = "sweeping"
  /\ sweep' = [s \in Sessions |-> IF s \in items THEN "queued" ELSE "none"]
  /\ UNCHANGED <<platform, items, session, remover, killer, kills, polling>>

ShutdownTakesAll ==
  /\ main = "serving"
  /\ main' = "sweeping"
  /\ sweep' = [s \in Sessions |-> IF s \in items THEN "queued" ELSE "none"]
  /\ items' = {}
  /\ UNCHANGED <<platform, session, remover, killer, kills, polling>>

\* The loop over the copied map, in any order.
ShutdownChecks(s) ==
  /\ Up
  /\ sweep[s] = "queued"
  /\ \A t \in Sessions : sweep[t] # "doomed"
  /\ LockFree(s)
  /\ sweep' = [sweep EXCEPT ![s] =
                 IF reap[s] = "exited" THEN "skipped" ELSE "doomed"]
  /\ UNCHANGED <<platform, main, items, session, remover, killer, kills, polling>>

ShutdownKills(s) ==
  /\ Up
  /\ sweep[s] = "doomed"
  /\ KillGroup(s)
  /\ sweep' = [sweep EXCEPT ![s] = "awaited"]
  /\ UNCHANGED <<platform, main, items, handler, pump, reap, remover, polling>>

LoopDone == \A s \in Sessions : sweep[s] \notin {"queued", "doomed"}

Awaited == {s \in Sessions : sweep[s] = "awaited"}

\* What Shutdown's wait can end with: each awaited session's `reaped` channel
\* is closed, or ShutdownGrace is over.  The killers of these sessions started
\* before the timer did and sleep KillDelay seconds, so that with the smaller
\* delay they all have fired by then (assuming that a goroutine whose sleep is
\* over runs within the seconds in between).
AllReaped == \A s \in Awaited : reap[s] \in {"reaped", "exited"}

\* Faulty variant: it is SIGKILL that comes after the end of the wait.
GraceOver_BeforeSigKill == ShutdownGrace < KillDelay =>
                              \A s \in Awaited : killer[s] # "sleeping"

GraceOver == KillDelay < ShutdownGrace =>
                \A s \in Awaited : killer[s] # "sleeping"

\* Shutdown returns, httpSrv.Shutdown closes the listener, ListenAndServe and
\* with it main return: every goroutine of the launcher is gone.
Exit ==
  /\ main = "sweeping"
  /\ LoopDone
  /\ AllReaped \/ GraceOver
  /\ main' = "exited"
  /\ UNCHANGED <<platform, items, session, killing, polling>>

-----------------------------------------------------------------------------
(* List, on behalf of a client that polls.                                    *)

ListCollects(p) ==
  /\ Up
  /\ p \notin listing
  /\ listing' = listing \cup {p}
  /\ rows' = [rows EXCEPT ![p] =
                [s \in Sessions |-> IF s \in items THEN "queued" ELSE "none"]]
  /\ UNCHANGED <<platform, main, items, session, killing, seen>>

ListSnapshots(p, s) ==
  /\ Up
  /\ rows[p][s] = "queued"
  /\ LockFree(s)
  /\ rows' = [rows EXCEPT ![p][s] = Status(s)]
  /\ UNCHANGED <<platform, main, items, session, killing, listing, seen>>

\* A row that was there and is not any more is a session that is gone.
ListReturns(p) ==
  /\ Up
  /\ p \in listing
  /\ \A s \in Sessions : rows[p][s] # "queued"
  /\ listing' = listing \ {p}
  /\ seen' = [seen EXCEPT ![p] =
                [s \in Sessions |->
                   IF rows[p][s] # "none" THEN rows[p][s]
                   ELSE IF seen[p][s] = "absent" THEN "absent" ELSE "gone"]]
  /\ rows' = [rows EXCEPT ![p] = [s \in Sessions |-> "none"]]
  /\ UNCHANGED <<platform, main, items, session, killing>>

-----------------------------------------------------------------------------

SpawnStep(s) == Start(s) \/ Insert(s) \/ GoPumpAndReap(s) \/ Launched(s)

PumpStep(s) == PumpLocks(s) \/ PumpUnlocks(s) \/ PumpWrote(s)

ReapStep(s) == Reaped(s) \/ SetExited(s)

RemoveStep(s) == RemoveDeletes(s) \/ RemoveChecks(s) \/ RemoveKills(s)

ShutdownStep(s) == ShutdownChecks(s) \/ ShutdownKills(s)

ListStep(p) == \/ ListCollects(p) \/ ListReturns(p)
               \/ \E s \in Sessions : ListSnapshots(p, s)

Next ==
  \/ ShutdownTakesAll \/ Exit
  \/ \E s \in Sessions : \/ SpawnStep(s) \/ PumpStep(s) \/ ReapStep(s)
                         \/ RemoveStep(s) \/ ShutdownStep(s) \/ SigKill(s)
                         \/ \E p \in {"shell", "claude"} : Die(s, p)
  \/ \E p \in Pollers : ListStep(p)

Spec == Init /\ [][Next]_vars

(* The Go scheduler runs every goroutine that can run, and sync.Mutex hands   *)
(* the lock to a waiter that has starved for a millisecond: strong fairness   *)
(* for the steps that take l.mu against a busy pump.  Nothing is assumed of   *)
(* clients, of processes, of output, or of a write to the log.                *)
Fairness ==
  /\ WF_vars(Exit)
  /\ \A s \in Sessions :
       /\ WF_vars(Insert(s)) /\ WF_vars(GoPumpAndReap(s)) /\ SF_vars(Launched(s))
       /\ WF_vars(PumpUnlocks(s))
       /\ WF_vars(Reaped(s)) /\ SF_vars(SetExited(s))
       /\ SF_vars(RemoveChecks(s)) /\ WF_vars(RemoveKills(s))
       /\ SF_vars(ShutdownChecks(s)) /\ WF_vars(ShutdownKills(s))
       /\ WF_vars(SigKill(s))
  /\ \A p \in Pollers :
       /\ WF_vars(ListReturns(p))
       /\ \A s \in Sessions : SF_vars(ListSnapshots(p, s))

FairSpec == Spec /\ Fairness

-----------------------------------------------------------------------------
(* Properties.                                                                *)

\* Nobody loses track of a live shell while the launcher is up: it is still on
\* its way into the store, listed, or in the hands of the Remove or Shutdown
\* that took it out, or of the goroutine that will send it SIGKILL.
ShellTracked ==
  Up => \A s \in Sessions : "shell" \in procs[s] =>
          \/ handler[s] = "started"
          \/ s \in items
          \/ remover[s] \in {"deleted", "killing"}
          \/ sweep[s] \in {"queued", "doomed"}
          \/ killer[s] = "sleeping"

\* A Remove and a Shutdown, or two Removes, that race for a session never both
\* kill it: a second killGroup would signal a group that may be somebody
\* else's by then.  The first of them to get at the map owns the session.
KilledAtMostOnce ==
  \A s \in Sessions : kills[s] <= 1 /\ (kills[s] = 1 => s \notin items)

\* The launcher exits only after the shells that Shutdown killed are dead, those
\* that ignore SIGTERM included (shutdownGrace exceeds the SIGKILL delay), and so
\* is every other shell, but for the two ways out that NoOrphans and
\* RemovedDoNotSurvive show: a launch that Shutdown overtook, and a Remove whose
\* kill, or whose SIGKILL, was yet to come.
OnlyTheLateSurvive ==
  main = "exited" => \A s \in Sessions : "shell" \in procs[s] =>
     \/ handler[s] = "started" \/ s \in items
     \/ remover[s] \in {"deleted", "killing"}
     \/ remover[s] = "done" /\ killer[s] = "sleeping"

\* The cleanup promise of main.go and of Shutdown's comment, which the code
\* does not keep: nothing that Spawn started survives the launcher.
NoOrphans == main = "exited" => \A s \in Sessions : procs[s] = {}

\* A session that was up and that Remove killed does not survive the launcher
\* either.  The code does not keep this: a removed session is not in the map
\* any more, and Shutdown does not wait for the SIGKILL that Remove left behind.
RemovedDoNotSurvive ==
  main = "exited" => \A s \in Sessions :
     (handler[s] = "done" /\ remover[s] = "done") => "shell" \notin procs[s]

\* What a polling client sees of a session only moves forward: a row never
\* returns once it is gone, and never runs again once it has stopped.
PollsMoveForward ==
  [][\A p \in Pollers, s \in Sessions :
       Rank[seen[p][s]] <= Rank[seen'[p][s]]]_seen

\* A List is answered, whatever the log writes of any session do.
ListAnswered == \A p \in Pollers : p \in listing ~> (p \notin listing \/ ~Up)

\* So is a Spawn whose shell has started.
SpawnAnswered ==
  \A s \in Sessions : handler[s] = "started" ~> (handler[s] = "done" \/ ~Up)

\* A Remove that found its session is answered, and the shell dies of it.
RemovedShellDies ==
  \A s \in Sessions :
     remover[s] = "deleted" ~> (remover[s] = "done" /\ "shell" \notin procs[s]) \/ ~Up

\* On SIGINT the launcher does exit, whatever its sessions do.
ShutdownEnds == main = "sweeping" ~> main = "exited"

\* A listed session whose shell is dead is in the end reported as stopped.
DeathReported ==
  \A s \in Sessions :
     (s \in items /\ "shell" \notin procs[s])
        ~> (s \notin items \/ Status(s) = "stopped" \/ ~Up)

(* The manager implements the store.  Its session map, read together with the *)
(* exited flags, is the abstract stage.                                       *)
Stage(s) == IF s \in items THEN Status(s)
            ELSE IF handler[s] \in {"idle", "started"} THEN "absent"
            ELSE "removed"

Store == INSTANCE SessionStore WITH stage <- [s \in Sessions |-> Stage(s)]

\* Every step of the manager is a step of SessionStore or changes nothing there.
ImplementsStore == Store!Spec

=============================================================================
