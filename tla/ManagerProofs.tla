--------------------------- MODULE ManagerProofs ---------------------------
(* What holds of Manager for any number of sessions and pollers.              *)
EXTENDS Manager, TLAPS

-----------------------------------------------------------------------------
(* The inductive invariant, by session and by row.                            *)

\* Spawn and reap go in order, and reap speaks of a dead shell.
Lifecycle(s) ==
  /\ handler[s] = "idle" => procs[s] = {}
  /\ handler[s] \in {"idle", "started", "inserted"} => reap[s] = "none"
  /\ reap[s] \in {"reaped", "exited"} => "shell" \notin procs[s]

\* A session that Spawn has put into the map is in the map, or in the hands of
\* exactly one of Remove and Shutdown.
Owned(s) ==
  /\ handler[s] \in {"idle", "started"}
       => s \notin items /\ remover[s] = "idle" /\ sweep[s] = "none"
  /\ handler[s] \notin {"idle", "started"}
       => s \in items \/ remover[s] # "idle" \/ sweep[s] # "none"
  /\ s \in items => remover[s] = "idle" /\ sweep[s] = "none"
  /\ remover[s] # "idle" => sweep[s] = "none"
  /\ main = "serving" => sweep[s] = "none"

\* Whoever owns the session kills it once, or has found it dead.
KillState(s) ==
  /\ remover[s] \in {"deleted", "killing"} => kills[s] = 0
  /\ sweep[s] \in {"none", "queued", "doomed"} /\ remover[s] = "idle" => kills[s] = 0
  /\ kills[s] <= 1
  /\ kills[s] = 0 => killer[s] = "idle"
  /\ sweep[s] = "awaited" => kills[s] = 1
  /\ remover[s] = "done" => kills[s] = 1 \/ reap[s] = "exited"
  /\ sweep[s] = "skipped" => reap[s] = "exited"
  /\ kills[s] = 1 /\ killer[s] = "idle" => "shell" \notin procs[s]
  /\ killer[s] = "fired" => procs[s] = {}

\* What poller p knows of s, or is about to, is not ahead of the session.
RowState(p, s) ==
  /\ p \notin listing => rows[p][s] = "none"
  /\ rows[p][s] # "none" => handler[s] \notin {"idle", "started"}
  /\ seen[p][s] # "absent" => handler[s] \notin {"idle", "started"}
  /\ rows[p][s] = "stopped" => reap[s] = "exited"
  /\ seen[p][s] = "stopped" => reap[s] = "exited" /\ rows[p][s] # "running"
  /\ seen[p][s] = "gone" => rows[p][s] = "none" /\ s \notin items
  /\ p \in listing /\ rows[p][s] = "none" /\ seen[p][s] # "absent" => s \notin items

SessionInv == \A s \in Sessions : Lifecycle(s) /\ Owned(s) /\ KillState(s)

RowInv == \A p \in Pollers, s \in Sessions : RowState(p, s)

IInv == TypeOK /\ SessionInv /\ RowInv

-----------------------------------------------------------------------------

\* killGroup leaves either a sleeping killer or a dead shell behind, and
\* disturbs no other session.
LEMMA KillGroupEffect ==
  ASSUME TypeOK, NEW t \in Sessions, KillGroup(t)
  PROVE  /\ procs' \in [Sessions -> SUBSET {"shell", "claude"}]
         /\ killer' \in [Sessions -> {"idle", "sleeping", "fired"}]
         /\ kills' = [kills EXCEPT ![t] = @ + 1]
         /\ \A u \in Sessions \ {t} : procs'[u] = procs[u] /\ killer'[u] = killer[u]
         /\ procs'[t] \subseteq procs[t]
         /\ \/ killer'[t] = "sleeping"
            \/ killer'[t] = killer[t] /\ "shell" \notin procs'[t]
<1> USE DEF TypeOK
<1>1. kills' = [kills EXCEPT ![t] = @ + 1]
  BY DEF KillGroup
<1>2. CASE KillTree(t)
  BY <1>1, <1>2 DEF KillTree
<1>3. CASE TermThenKill(t)
  BY <1>1, <1>3 DEF TermThenKill
<1> QED
  BY <1>2, <1>3 DEF KillGroup

\* Every step keeps the types; Insert puts in a session that nobody has taken out.
LEMMA TypeStep ==
  ASSUME TypeOK, SessionInv, [Next]_vars
  PROVE  TypeOK'
<1> USE DEF TypeOK, Rank, session, killing, polling
<1>1. ASSUME NEW t \in Sessions, Start(t) PROVE TypeOK'
  BY <1>1 DEF Start
<1>2. ASSUME NEW t \in Sessions, Insert(t) PROVE TypeOK'
  BY <1>2 DEF Insert, SessionInv, Owned
<1>3. ASSUME NEW t \in Sessions, GoPumpAndReap(t) PROVE TypeOK'
  BY <1>3 DEF GoPumpAndReap
<1>4. ASSUME NEW t \in Sessions, Launched(t) PROVE TypeOK'
  BY <1>4 DEF Launched
<1>5. ASSUME NEW t \in Sessions, PumpLocks(t) PROVE TypeOK'
  BY <1>5 DEF PumpLocks
<1>6. ASSUME NEW t \in Sessions, PumpUnlocks(t) PROVE TypeOK'
  BY <1>6 DEF PumpUnlocks
<1>7. ASSUME NEW t \in Sessions, PumpWrote(t) PROVE TypeOK'
  BY <1>7 DEF PumpWrote
<1>8. ASSUME NEW t \in Sessions, Reaped(t) PROVE TypeOK'
  BY <1>8 DEF Reaped
<1>9. ASSUME NEW t \in Sessions, SetExited(t) PROVE TypeOK'
  BY <1>9 DEF SetExited
<1>10. ASSUME NEW t \in Sessions, RemoveDeletes(t) PROVE TypeOK'
  BY <1>10 DEF RemoveDeletes
<1>11. ASSUME NEW t \in Sessions, RemoveChecks(t) PROVE TypeOK'
  BY <1>11 DEF RemoveChecks
<1>12. ASSUME NEW t \in Sessions, RemoveKills(t) PROVE TypeOK'
  <2>1. KillGroup(t)
    BY <1>12 DEF RemoveKills
  <2>2. /\ procs' \in [Sessions -> SUBSET {"shell", "claude"}]
        /\ killer' \in [Sessions -> {"idle", "sleeping", "fired"}]
        /\ kills' = [kills EXCEPT ![t] = @ + 1]
    BY <2>1, KillGroupEffect
  <2> QED
    BY <1>12, <2>2 DEF RemoveKills
<1>13. ASSUME NEW t \in Sessions, ShutdownChecks(t) PROVE TypeOK'
  BY <1>13 DEF ShutdownChecks
<1>14. ASSUME NEW t \in Sessions, ShutdownKills(t) PROVE TypeOK'
  <2>1. KillGroup(t)
    BY <1>14 DEF ShutdownKills
  <2>2. /\ procs' \in [Sessions -> SUBSET {"shell", "claude"}]
        /\ killer' \in [Sessions -> {"idle", "sleeping", "fired"}]
        /\ kills' = [kills EXCEPT ![t] = @ + 1]
    BY <2>1, KillGroupEffect
  <2> QED
    BY <1>14, <2>2 DEF ShutdownKills
<1>15. ASSUME NEW t \in Sessions, SigKill(t) PROVE TypeOK'
  BY <1>15 DEF SigKill
<1>16. ASSUME NEW t \in Sessions, NEW q \in {"shell", "claude"}, Die(t, q) PROVE TypeOK'
  BY <1>16 DEF Die
<1>17. ASSUME ShutdownTakesAll PROVE TypeOK'
  BY <1>17 DEF ShutdownTakesAll
<1>18. ASSUME Exit PROVE TypeOK'
  BY <1>18 DEF Exit
<1>19. ASSUME NEW q \in Pollers, ListCollects(q) PROVE TypeOK'
  BY <1>19 DEF ListCollects
<1>20. ASSUME NEW q \in Pollers, NEW t \in Sessions, ListSnapshots(q, t) PROVE TypeOK'
  BY <1>20 DEF ListSnapshots, Status
<1>21. ASSUME NEW q \in Pollers, ListReturns(q) PROVE TypeOK'
  BY <1>21 DEF ListReturns
<1>22. CASE UNCHANGED vars
  BY <1>22 DEF vars
<1> QED
  BY <1>1, <1>2, <1>3, <1>4, <1>5, <1>6, <1>7, <1>8, <1>9, <1>10, <1>11,
     <1>12, <1>13, <1>14, <1>15, <1>16, <1>17, <1>18, <1>19, <1>20, <1>21, <1>22
     DEF Next, SpawnStep, PumpStep, ReapStep, RemoveStep, ShutdownStep, ListStep

\* Every step keeps the state of each session consistent.
LEMMA SessionStep ==
  ASSUME TypeOK, SessionInv, [Next]_vars
  PROVE  SessionInv'
<1> SUFFICES ASSUME NEW s \in Sessions PROVE (Lifecycle(s) /\ Owned(s) /\ KillState(s))'
  BY DEF SessionInv
<1> USE DEF TypeOK, SessionInv, Lifecycle, Owned, KillState, session, killing, polling
<1>1. ASSUME NEW t \in Sessions, Start(t) PROVE (Lifecycle(s) /\ Owned(s) /\ KillState(s))'
  BY <1>1 DEF Start
<1>2. ASSUME NEW t \in Sessions, Insert(t) PROVE (Lifecycle(s) /\ Owned(s) /\ KillState(s))'
  BY <1>2 DEF Insert
<1>3. ASSUME NEW t \in Sessions, GoPumpAndReap(t) PROVE (Lifecycle(s) /\ Owned(s) /\ KillState(s))'
  BY <1>3 DEF GoPumpAndReap
<1>4. ASSUME NEW t \in Sessions, Launched(t) PROVE (Lifecycle(s) /\ Owned(s) /\ KillState(s))'
  BY <1>4 DEF Launched
<1>5. ASSUME NEW t \in Sessions, PumpLocks(t) PROVE (Lifecycle(s) /\ Owned(s) /\ KillState(s))'
  BY <1>5 DEF PumpLocks
<1>6. ASSUME NEW t \in Sessions, PumpUnlocks(t) PROVE (Lifecycle(s) /\ Owned(s) /\ KillState(s))'
  BY <1>6 DEF PumpUnlocks
<1>7. ASSUME NEW t \in Sessions, PumpWrote(t) PROVE (Lifecycle(s) /\ Owned(s) /\ KillState(s))'
  BY <1>7 DEF PumpWrote
<1>8. ASSUME NEW t \in Sessions, Reaped(t) PROVE (Lifecycle(s) /\ Owned(s) /\ KillState(s))'
  BY <1>8 DEF Reaped
<1>9. ASSUME NEW t \in Sessions, SetExited(t) PROVE (Lifecycle(s) /\ Owned(s) /\ KillState(s))'
  BY <1>9 DEF SetExited
<1>10. ASSUME NEW t \in Sessions, RemoveDeletes(t) PROVE (Lifecycle(s) /\ Owned(s) /\ KillState(s))'
  BY <1>10 DEF RemoveDeletes
<1>11. ASSUME NEW t \in Sessions, RemoveChecks(t) PROVE (Lifecycle(s) /\ Owned(s) /\ KillState(s))'
  BY <1>11 DEF RemoveChecks
<1>12. ASSUME NEW t \in Sessions, RemoveKills(t) PROVE (Lifecycle(s) /\ Owned(s) /\ KillState(s))'
  <2>1. KillGroup(t)
    BY <1>12 DEF RemoveKills
  <2> QED
    BY <1>12, <2>1, KillGroupEffect DEF RemoveKills
<1>13. ASSUME NEW t \in Sessions, ShutdownChecks(t) PROVE (Lifecycle(s) /\ Owned(s) /\ KillState(s))'
  BY <1>13 DEF ShutdownChecks
<1>14. ASSUME NEW t \in Sessions, ShutdownKills(t) PROVE (Lifecycle(s) /\ Owned(s) /\ KillState(s))'
  <2>1. KillGroup(t)
    BY <1>14 DEF ShutdownKills
  <2> QED
    BY <1>14, <2>1, KillGroupEffect DEF ShutdownKills
<1>15. ASSUME NEW t \in Sessions, SigKill(t) PROVE (Lifecycle(s) /\ Owned(s) /\ KillState(s))'
  BY <1>15 DEF SigKill
<1>16. ASSUME NEW t \in Sessions, NEW q \in {"shell", "claude"}, Die(t, q) PROVE (Lifecycle(s) /\ Owned(s) /\ KillState(s))'
  BY <1>16 DEF Die
<1>17. ASSUME ShutdownTakesAll PROVE (Lifecycle(s) /\ Owned(s) /\ KillState(s))'
  BY <1>17 DEF ShutdownTakesAll
<1>18. ASSUME Exit PROVE (Lifecycle(s) /\ Owned(s) /\ KillState(s))'
  BY <1>18 DEF Exit
<1>19. ASSUME NEW q \in Pollers, ListCollects(q) PROVE (Lifecycle(s) /\ Owned(s) /\ KillState(s))'
  BY <1>19 DEF ListCollects
<1>20. ASSUME NEW q \in Pollers, NEW t \in Sessions, ListSnapshots(q, t) PROVE (Lifecycle(s) /\ Owned(s) /\ KillState(s))'
  BY <1>20 DEF ListSnapshots, Status
<1>21. ASSUME NEW q \in Pollers, ListReturns(q) PROVE (Lifecycle(s) /\ Owned(s) /\ KillState(s))'
  BY <1>21 DEF ListReturns
<1>22. CASE UNCHANGED vars
  BY <1>22 DEF vars
<1> QED
  BY <1>1, <1>2, <1>3, <1>4, <1>5, <1>6, <1>7, <1>8, <1>9, <1>10, <1>11,
     <1>12, <1>13, <1>14, <1>15, <1>16, <1>17, <1>18, <1>19, <1>20, <1>21, <1>22
     DEF Next, SpawnStep, PumpStep, ReapStep, RemoveStep, ShutdownStep, ListStep

\* Every step keeps the rows of each poller behind the sessions.
LEMMA RowStep ==
  ASSUME TypeOK, SessionInv, RowInv, [Next]_vars
  PROVE  RowInv'
<1> SUFFICES ASSUME NEW p \in Pollers, NEW s \in Sessions PROVE RowState(p, s)'
  BY DEF RowInv
<1> USE DEF TypeOK, SessionInv, Lifecycle, Owned, RowInv, RowState, session, killing, polling
<1>1. ASSUME NEW t \in Sessions, Start(t) PROVE RowState(p, s)'
  BY <1>1 DEF Start
<1>2. ASSUME NEW t \in Sessions, Insert(t) PROVE RowState(p, s)'
  BY <1>2 DEF Insert
<1>3. ASSUME NEW t \in Sessions, GoPumpAndReap(t) PROVE RowState(p, s)'
  BY <1>3 DEF GoPumpAndReap
<1>4. ASSUME NEW t \in Sessions, Launched(t) PROVE RowState(p, s)'
  BY <1>4 DEF Launched
<1>5. ASSUME NEW t \in Sessions, PumpLocks(t) PROVE RowState(p, s)'
  BY <1>5 DEF PumpLocks
<1>6. ASSUME NEW t \in Sessions, PumpUnlocks(t) PROVE RowState(p, s)'
  BY <1>6 DEF PumpUnlocks
<1>7. ASSUME NEW t \in Sessions, PumpWrote(t) PROVE RowState(p, s)'
  BY <1>7 DEF PumpWrote
<1>8. ASSUME NEW t \in Sessions, Reaped(t) PROVE RowState(p, s)'
  BY <1>8 DEF Reaped
<1>9. ASSUME NEW t \in Sessions, SetExited(t) PROVE RowState(p, s)'
  BY <1>9 DEF SetExited
<1>10. ASSUME NEW t \in Sessions, RemoveDeletes(t) PROVE RowState(p, s)'
  BY <1>10 DEF RemoveDeletes
<1>11. ASSUME NEW t \in Sessions, RemoveChecks(t) PROVE RowState(p, s)'
  BY <1>11 DEF RemoveChecks
<1>12. ASSUME NEW t \in Sessions, RemoveKills(t) PROVE RowState(p, s)'
  <2>1. KillGroup(t)
    BY <1>12 DEF RemoveKills
  <2> QED
    BY <1>12, <2>1, KillGroupEffect DEF RemoveKills
<1>13. ASSUME NEW t \in Sessions, ShutdownChecks(t) PROVE RowState(p, s)'
  BY <1>13 DEF ShutdownChecks
<1>14. ASSUME NEW t \in Sessions, ShutdownKills(t) PROVE RowState(p, s)'
  <2>1. KillGroup(t)
    BY <1>14 DEF ShutdownKills
  <2> QED
    BY <1>14, <2>1, KillGroupEffect DEF ShutdownKills
<1>15. ASSUME NEW t \in Sessions, SigKill(t) PROVE RowState(p, s)'
  BY <1>15 DEF SigKill
<1>16. ASSUME NEW t \in Sessions, NEW q \in {"shell", "claude"}, Die(t, q) PROVE RowState(p, s)'
  BY <1>16 DEF Die
<1>17. ASSUME ShutdownTakesAll PROVE RowState(p, s)'
  BY <1>17 DEF ShutdownTakesAll
<1>18. ASSUME Exit PROVE RowState(p, s)'
  BY <1>18 DEF Exit
<1>19. ASSUME NEW q \in Pollers, ListCollects(q) PROVE RowState(p, s)'
  BY <1>19 DEF ListCollects
<1>20. ASSUME NEW q \in Pollers, NEW t \in Sessions, ListSnapshots(q, t) PROVE RowState(p, s)'
  BY <1>20 DEF ListSnapshots, Status
<1>21. ASSUME NEW q \in Pollers, ListReturns(q) PROVE RowState(p, s)'
  BY <1>21 DEF ListReturns
<1>22. CASE UNCHANGED vars
  BY <1>22 DEF vars
<1> QED
  BY <1>1, <1>2, <1>3, <1>4, <1>5, <1>6, <1>7, <1>8, <1>9, <1>10, <1>11,
     <1>12, <1>13, <1>14, <1>15, <1>16, <1>17, <1>18, <1>19, <1>20, <1>21, <1>22
     DEF Next, SpawnStep, PumpStep, ReapStep, RemoveStep, ShutdownStep, ListStep

-----------------------------------------------------------------------------
(* The theorems.                                                              *)

\* The initial states satisfy the inductive invariant.
LEMMA InitInv == Init => IInv
  BY DEF Init, IInv, TypeOK, Rank, SessionInv, Lifecycle, Owned, KillState,
         RowInv, RowState

\* The inductive invariant holds for ever: the stages of Spawn, Remove, Shutdown
\* and reap agree, whatever order the goroutines run in.
THEOREM Invariance == Spec => []IInv
<1>1. IInv /\ [Next]_vars => IInv'
  BY TypeStep, SessionStep, RowStep DEF IInv
<1> QED
  BY InitInv, <1>1, PTL DEF Spec

\* Every variable keeps its type.
THEOREM TypeCorrect == Spec => []TypeOK
<1>1. IInv => TypeOK
  BY DEF IInv
<1> QED
  BY Invariance, <1>1, PTL

\* A live shell that nobody has killed is on its way into the map, in it, or in
\* the hands of whoever took it out.
LEMMA Tracked == IInv => ShellTracked
<1> SUFFICES ASSUME IInv, Up, NEW s \in Sessions, "shell" \in procs[s]
             PROVE  \/ handler[s] = "started"
                    \/ s \in items
                    \/ remover[s] \in {"deleted", "killing"}
                    \/ sweep[s] \in {"queued", "doomed"}
                    \/ killer[s] = "sleeping"
  BY DEF ShellTracked
<1>1. TypeOK /\ Lifecycle(s) /\ Owned(s) /\ KillState(s)
  BY DEF IInv, SessionInv
<1> QED
  BY <1>1 DEF TypeOK, Lifecycle, Owned, KillState

\* For any number of sessions and clients: as long as the launcher is up, no
\* live shell is out of sight of everybody.
THEOREM ShellsAreTracked == Spec => []ShellTracked
BY Invariance, Tracked, PTL

\* However Removes and Shutdown race, a session's group is killed once at most.
THEOREM KillsHappenOnce == Spec => []KilledAtMostOnce
<1>1. IInv => KilledAtMostOnce
  <2> SUFFICES ASSUME IInv, NEW s \in Sessions
               PROVE  kills[s] <= 1 /\ (kills[s] = 1 => s \notin items)
    BY DEF KilledAtMostOnce
  <2>1. Owned(s) /\ KillState(s)
    BY DEF IInv, SessionInv
  <2> QED
    BY <2>1 DEF Owned, KillState
<1> QED
  BY Invariance, <1>1, PTL

\* With a grace longer than the SIGKILL delay, no shell survives the launcher but
\* one whose launch, or whose Remove, was not yet done with it.
THEOREM OnlyLateShellsSurvive ==
  ASSUME KillDelay < ShutdownGrace
  PROVE  Spec => []OnlyTheLateSurvive
<1>1. Init => OnlyTheLateSurvive
  BY DEF Init, OnlyTheLateSurvive
<1>2. IInv /\ OnlyTheLateSurvive /\ [Next]_vars => OnlyTheLateSurvive'
  <2> SUFFICES ASSUME IInv, OnlyTheLateSurvive, [Next]_vars,
                      (main = "exited")', NEW s \in Sessions, "shell" \in procs'[s]
               PROVE  \/ handler'[s] = "started" \/ s \in items'
                      \/ remover'[s] \in {"deleted", "killing"}
                      \/ remover'[s] = "done" /\ killer'[s] = "sleeping"
    BY DEF OnlyTheLateSurvive
  <2>1. TypeOK /\ Lifecycle(s) /\ Owned(s) /\ KillState(s)
    BY DEF IInv, SessionInv
  <2>2. CASE main = "exited"
    <3>1. UNCHANGED vars \/ \E t \in Sessions, q \in {"shell", "claude"} : Die(t, q)
      BY <2>2 DEF Next, SpawnStep, PumpStep, ReapStep, RemoveStep, ShutdownStep,
             ListStep, Start, Insert, GoPumpAndReap, Launched, PumpLocks,
             PumpUnlocks, PumpWrote, Reaped, SetExited, RemoveDeletes,
             RemoveChecks, RemoveKills, ShutdownTakesAll, ShutdownChecks,
             ShutdownKills, SigKill, Exit, ListCollects, ListSnapshots,
             ListReturns, Up
    <3>2. /\ UNCHANGED <<handler, items, remover, killer>>
          /\ \A t \in Sessions : procs'[t] \subseteq procs[t]
      BY <2>1, <3>1 DEF Die, vars, session, killing, TypeOK
    <3> QED
      BY <2>2, <3>2 DEF OnlyTheLateSurvive
  <2>3. CASE main # "exited"
    <3>1. Exit
      BY <2>3 DEF Next, SpawnStep, PumpStep, ReapStep, RemoveStep, ShutdownStep,
             ListStep, Start, Insert, GoPumpAndReap, Launched, PumpLocks,
             PumpUnlocks, PumpWrote, Reaped, SetExited, RemoveDeletes,
             RemoveChecks, RemoveKills, ShutdownTakesAll, ShutdownChecks,
             ShutdownKills, SigKill, Die, ListCollects, ListSnapshots,
             ListReturns, vars
    <3>2. /\ UNCHANGED <<handler, items, remover, killer>>
          /\ "shell" \in procs[s] /\ sweep[s] \notin {"queued", "doomed"}
      BY <3>1 DEF Exit, LoopDone, session, killing
    <3>3. sweep[s] # "awaited"
      <4> SUFFICES ASSUME s \in Awaited PROVE FALSE
        BY DEF Awaited
      <4>1. CASE AllReaped
        BY <2>1, <3>2, <4>1 DEF AllReaped, Lifecycle
      <4>2. CASE GraceOver
        <5>1. killer[s] # "sleeping" /\ kills[s] = 1
          BY <2>1, <4>2 DEF GraceOver, Awaited, KillState
        <5> QED
          BY <2>1, <3>2, <5>1 DEF TypeOK, KillState
      <4> QED
        BY <3>1, <4>1, <4>2 DEF Exit
    <3>4. ShellTracked
      BY Tracked
    <3>5. \/ handler[s] = "started" \/ s \in items
          \/ remover[s] \in {"deleted", "killing"}
          \/ killer[s] = "sleeping"
      BY <2>3, <3>2, <3>4 DEF ShellTracked, Up
    <3>6. killer[s] = "sleeping" => remover[s] \in {"deleted", "killing", "done"}
      BY <2>1, <3>2, <3>3 DEF TypeOK, Lifecycle, KillState
    <3> QED
      BY <3>2, <3>5, <3>6
  <2> QED
    BY <2>2, <2>3
<1> QED
  BY Invariance, <1>1, <1>2, PTL DEF Spec

\* A polling client never sees a session come back, or run after it stopped.
THEOREM PollsNeverGoBack == Spec => PollsMoveForward
<1>1. IInv /\ [Next]_vars =>
        [\A p \in Pollers, s \in Sessions : Rank[seen[p][s]] <= Rank[seen'[p][s]]]_seen
  <2> SUFFICES ASSUME IInv, [Next]_vars, seen' # seen,
                      NEW p \in Pollers, NEW s \in Sessions
               PROVE  Rank[seen[p][s]] <= Rank[seen'[p][s]]
    OBVIOUS
  <2>1. PICK q \in Pollers : ListReturns(q)
    BY DEF Next, SpawnStep, PumpStep, ReapStep, RemoveStep, ShutdownStep,
             ListStep, Start, Insert, GoPumpAndReap, Launched, PumpLocks,
             PumpUnlocks, PumpWrote, Reaped, SetExited, RemoveDeletes,
             RemoveChecks, RemoveKills, ShutdownTakesAll, ShutdownChecks,
             ShutdownKills, SigKill, Die, Exit, ListCollects, ListSnapshots,
             vars, polling
  <2>2. TypeOK /\ RowState(p, s)
    BY DEF IInv, RowInv
  <2>3. \/ seen'[p][s] = seen[p][s]
        \/ seen'[p][s] = rows[p][s] /\ rows[p][s] \in {"running", "stopped"}
        \/ seen'[p][s] = "gone"
    BY <2>1, <2>2 DEF ListReturns, TypeOK, Rank
  <2> QED
    BY <2>2, <2>3 DEF TypeOK, Rank, RowState
<1> QED
  BY Invariance, <1>1, PTL DEF Spec, PollsMoveForward

-----------------------------------------------------------------------------
(* The manager implements SessionStore.                                       *)

\* A step that leaves the map, the exited flags and the kills alone, and takes
\* no session past Spawn's insertion, is a stutter of the store.
LEMMA Stutter ==
  ASSUME items' = items, kills' = kills,
         \A s \in Sessions :
           /\ (reap'[s] = "exited") <=> (reap[s] = "exited")
           /\ (handler'[s] \in {"idle", "started"}) <=> (handler[s] \in {"idle", "started"})
  PROVE  UNCHANGED Store!vars
<1>1. \A s \in Sessions : Stage(s)' = Stage(s)
  BY DEF Stage, Status
<1> QED
  BY <1>1 DEF Store!vars

\* The manager's state starts as an empty store, and each of its steps is one
\* of the store's: Insert launches, SetExited stops, RemoveDeletes and
\* ShutdownTakesAll remove, RemoveKills and ShutdownKills kill.
THEOREM Refinement == Spec => ImplementsStore
<1>1. Init => Store!Init
  BY DEF Init, Store!Init, Stage
<1>2. IInv /\ [Next]_vars => [Store!Next]_(Store!vars)
  <2> SUFFICES ASSUME IInv, [Next]_vars PROVE Store!Next \/ UNCHANGED Store!vars
    OBVIOUS
  <2>1. TypeOK /\ \A s \in Sessions : Lifecycle(s) /\ Owned(s) /\ KillState(s)
    BY DEF IInv, SessionInv
  <2>2. ASSUME NEW t \in Sessions, Start(t) PROVE UNCHANGED Store!vars
    BY <2>1, <2>2, Stutter DEF Start, session, killing, polling, TypeOK, Lifecycle
  <2>3. ASSUME NEW t \in Sessions, Insert(t) PROVE Store!Next
    <3>1. Stage(t) = "absent" /\ Stage(t)' = "running"
      BY <2>1, <2>3 DEF Insert, Stage, Status, Owned, Lifecycle, TypeOK
    <3>2. \A s \in Sessions \ {t} : Stage(s)' = Stage(s)
      BY <2>1, <2>3 DEF Insert, Stage, Status, TypeOK
    <3>3. Store!Launch(t)
      BY <2>3, <3>1, <3>2 DEF Insert, killing, Store!Launch
    <3> QED
      BY <3>3 DEF Store!Next
  <2>4. ASSUME NEW t \in Sessions, GoPumpAndReap(t) PROVE UNCHANGED Store!vars
    BY <2>1, <2>4, Stutter DEF GoPumpAndReap, session, killing, polling, TypeOK, Lifecycle
  <2>5. ASSUME NEW t \in Sessions, Launched(t) PROVE UNCHANGED Store!vars
    BY <2>1, <2>5, Stutter DEF Launched, session, killing, polling, TypeOK, Lifecycle
  <2>6. ASSUME NEW t \in Sessions, PumpLocks(t) PROVE UNCHANGED Store!vars
    BY <2>1, <2>6, Stutter DEF PumpLocks, session, killing, polling, TypeOK, Lifecycle
  <2>7. ASSUME NEW t \in Sessions, PumpUnlocks(t) PROVE UNCHANGED Store!vars
    BY <2>1, <2>7, Stutter DEF PumpUnlocks, session, killing, polling, TypeOK, Lifecycle
  <2>8. ASSUME NEW t \in Sessions, PumpWrote(t) PROVE UNCHANGED Store!vars
    BY <2>1, <2>8, Stutter DEF PumpWrote, session, killing, polling, TypeOK, Lifecycle
  <2>9. ASSUME NEW t \in Sessions, Reaped(t) PROVE UNCHANGED Store!vars
    BY <2>1, <2>9, Stutter DEF Reaped, session, killing, polling, TypeOK, Lifecycle
  <2>10. ASSUME NEW t \in Sessions, SetExited(t) PROVE Store!Next \/ UNCHANGED Store!vars
    <3>1. \A s \in Sessions \ {t} : Stage(s)' = Stage(s)
      BY <2>1, <2>10 DEF SetExited, Stage, Status, TypeOK
    <3>2. CASE t \in items
      <4>1. Stage(t) = "running" /\ Stage(t)' = "stopped"
        BY <2>1, <2>10, <3>2 DEF SetExited, Stage, Status, TypeOK
      <4>2. Store!Stop(t)
        BY <2>10, <3>1, <4>1 DEF SetExited, killing, Store!Stop
      <4> QED
        BY <4>2 DEF Store!Next
    <3>3. CASE t \notin items
      <4>1. Stage(t)' = Stage(t)
        BY <2>1, <2>10, <3>3 DEF SetExited, Stage
      <4> QED
        BY <2>10, <3>1, <4>1 DEF SetExited, killing, Store!vars
    <3> QED
      BY <3>2, <3>3
  <2>11. ASSUME NEW t \in Sessions, RemoveDeletes(t) PROVE Store!Next
    <3>1. Stage(t) \in {"running", "stopped"} /\ Stage(t)' = "removed"
      BY <2>1, <2>11 DEF RemoveDeletes, session, Stage, Status, Owned
    <3>2. \A s \in Sessions \ {t} : Stage(s)' = Stage(s)
      BY <2>11 DEF RemoveDeletes, session, Stage, Status
    <3>3. Store!Remove(t)
      BY <2>11, <3>1, <3>2 DEF RemoveDeletes, Store!Remove, Store!Listed
    <3> QED
      BY <3>3 DEF Store!Next
  <2>12. ASSUME NEW t \in Sessions, RemoveChecks(t) PROVE UNCHANGED Store!vars
    BY <2>1, <2>12, Stutter DEF RemoveChecks, session, killing, polling, TypeOK, Lifecycle
  <2>13. ASSUME NEW t \in Sessions, RemoveKills(t) PROVE Store!Next
    <3>1. Stage(t) = "removed" /\ kills[t] = 0
      BY <2>1, <2>13 DEF RemoveKills, Stage, Owned, KillState
    <3>2. \A s \in Sessions : Stage(s)' = Stage(s)
      BY <2>13 DEF RemoveKills, Stage, Status
    <3>3. kills' = [kills EXCEPT ![t] = 1]
      BY <2>13, <3>1 DEF RemoveKills, KillGroup
    <3>4. Store!Kill(t)
      BY <3>1, <3>2, <3>3 DEF Store!Kill
    <3> QED
      BY <3>4 DEF Store!Next
  <2>14. ASSUME NEW t \in Sessions, ShutdownChecks(t) PROVE UNCHANGED Store!vars
    BY <2>1, <2>14, Stutter DEF ShutdownChecks, session, killing, polling, TypeOK, Lifecycle
  <2>15. ASSUME NEW t \in Sessions, ShutdownKills(t) PROVE Store!Next
    <3>1. Stage(t) = "removed" /\ kills[t] = 0
      BY <2>1, <2>15 DEF ShutdownKills, Stage, Owned, KillState
    <3>2. \A s \in Sessions : Stage(s)' = Stage(s)
      BY <2>15 DEF ShutdownKills, Stage, Status
    <3>3. kills' = [kills EXCEPT ![t] = 1]
      BY <2>15, <3>1 DEF ShutdownKills, KillGroup
    <3>4. Store!Kill(t)
      BY <3>1, <3>2, <3>3 DEF Store!Kill
    <3> QED
      BY <3>4 DEF Store!Next
  <2>16. ASSUME NEW t \in Sessions, SigKill(t) PROVE UNCHANGED Store!vars
    BY <2>1, <2>16, Stutter DEF SigKill, session, killing, polling, TypeOK, Lifecycle
  <2>17. ASSUME NEW t \in Sessions, NEW q \in {"shell", "claude"}, Die(t, q) PROVE UNCHANGED Store!vars
    BY <2>1, <2>17, Stutter DEF Die, session, killing, polling, TypeOK, Lifecycle
  <2>18. CASE ShutdownTakesAll
    <3>1. \A s \in Sessions : Stage(s)' =
            IF Stage(s) \in {"running", "stopped"} THEN "removed" ELSE Stage(s)
      BY <2>1, <2>18 DEF ShutdownTakesAll, session, Stage, Status, Owned
    <3>2. Store!RemoveAll
      BY <2>18, <3>1 DEF ShutdownTakesAll, Store!RemoveAll, Store!Listed
    <3> QED
      BY <3>2 DEF Store!Next
  <2>19. ASSUME Exit PROVE UNCHANGED Store!vars
    BY <2>1, <2>19, Stutter DEF Exit, session, killing, polling, TypeOK, Lifecycle
  <2>20. ASSUME NEW q \in Pollers, ListCollects(q) PROVE UNCHANGED Store!vars
    BY <2>1, <2>20, Stutter DEF ListCollects, session, killing, polling, TypeOK, Lifecycle
  <2>21. ASSUME NEW q \in Pollers, NEW t \in Sessions, ListSnapshots(q, t) PROVE UNCHANGED Store!vars
    BY <2>1, <2>21, Stutter DEF ListSnapshots, session, killing, polling, TypeOK, Lifecycle
  <2>22. ASSUME NEW q \in Pollers, ListReturns(q) PROVE UNCHANGED Store!vars
    BY <2>1, <2>22, Stutter DEF ListReturns, session, killing, polling, TypeOK, Lifecycle
  <2>23. CASE UNCHANGED vars
    BY <2>23, Stutter DEF vars, session, killing
  <2> QED
    BY <2>2, <2>3, <2>4, <2>5, <2>6, <2>7, <2>8, <2>9, <2>10, <2>11, <2>12,
       <2>13, <2>14, <2>15, <2>16, <2>17, <2>18, <2>19, <2>20, <2>21, <2>22, <2>23
       DEF Next, SpawnStep, PumpStep, ReapStep, RemoveStep, ShutdownStep, ListStep
<1> QED
  BY Invariance, <1>1, <1>2, PTL DEF Spec, ImplementsStore, Store!Spec

\* The stages of a session, in order.
Order == [absent |-> 0, running |-> 1, stopped |-> 2, removed |-> 3]

\* What the abstract store says holds of the manager: no interleaving of spawns,
\* exits, removals and a shutdown takes a session back to an earlier stage, so
\* that one that has stopped is never shown as running again, and the id of one
\* that was removed is never listed again.
THEOREM StagesMoveForward ==
  Spec => [][\A s \in Sessions : Order[Stage(s)] <= Order[Stage(s)']]_vars
<1> DEFINE Forward == \A s \in Sessions : Order[Stage(s)] <= Order[Stage(s)']
<1>1. \A s \in Sessions : Stage(s) \in DOMAIN Order /\ Order[Stage(s)] \in Nat
  BY DEF Stage, Status, Order
<1>2. [Store!Next]_(Store!vars) => Forward
  <2> SUFFICES ASSUME [Store!Next]_(Store!vars), NEW s \in Sessions
               PROVE  Order[Stage(s)] <= Order[Stage(s)']
    OBVIOUS
  <2>1. \/ Stage(s)' = Stage(s)
        \/ Stage(s) = "absent" /\ Stage(s)' = "running"
        \/ Stage(s) = "running" /\ Stage(s)' = "stopped"
        \/ Stage(s) \in {"running", "stopped"} /\ Stage(s)' = "removed"
    <3> DEFINE stage == [t \in Sessions |-> Stage(t)]
    <3>1. stage[s] = Stage(s) /\ stage'[s] = Stage(s)'
      OBVIOUS
    <3> QED
      BY <3>1 DEF Store!Next, Store!vars, Store!RemoveAll, Store!Launch, Store!Stop,
         Store!Remove, Store!Kill, Store!Listed
  <2> QED
    BY <1>1, <2>1 DEF Order
<1> HIDE DEF Forward
<1>3. Spec => [][Forward]_vars
  BY <1>2, Refinement, PTL DEF ImplementsStore, Store!Spec
<1> QED
  BY <1>3 DEF Forward

-----------------------------------------------------------------------------
(* A launcher as Ring takes it: a set of ids, and a List that answers with it. *)

\* The sessions of which p's List has a row.
RowsFor(p) == {s \in Sessions : rows[p][s] # "none"}

\* The steps that are not of a List leave every List alone.
LEMMA NotListing ==
  ASSUME [Next]_vars, ~\E q \in Pollers : ListStep(q)
  PROVE  UNCHANGED <<rows, listing>>
BY DEF Next, SpawnStep, PumpStep, ReapStep, RemoveStep, ShutdownStep, Start, Insert,
   GoPumpAndReap, Launched, PumpLocks, PumpUnlocks, PumpWrote, Reaped, SetExited,
   RemoveDeletes, RemoveChecks, RemoveKills, ShutdownTakesAll, ShutdownChecks,
   ShutdownKills, SigKill, Die, Exit, vars, polling

\* A List copies the map and then looks at what it copied, session by session.
LEMMA ListingStep ==
  ASSUME IInv, [Next]_vars, NEW p \in Pollers
  PROVE  /\ p \notin listing /\ p \in listing' => RowsFor(p)' = items /\ items' = items
         /\ p \in listing /\ p \in listing' => RowsFor(p)' = RowsFor(p)
<1>1. TypeOK
  BY DEF IInv
<1>2. ASSUME NEW q \in Pollers, ListCollects(q)
      PROVE  IF q = p THEN p \notin listing /\ RowsFor(p)' = items /\ items' = items
                      ELSE rows'[p] = rows[p] /\ (p \in listing' <=> p \in listing)
  BY <1>1, <1>2 DEF ListCollects, TypeOK, RowsFor
<1>3. ASSUME NEW q \in Pollers, NEW t \in Sessions, ListSnapshots(q, t)
      PROVE  RowsFor(p)' = RowsFor(p) /\ listing' = listing
  BY <1>1, <1>3 DEF ListSnapshots, TypeOK, RowsFor, Status
<1>4. ASSUME NEW q \in Pollers, ListReturns(q)
      PROVE  IF q = p THEN p \notin listing'
                      ELSE rows'[p] = rows[p] /\ (p \in listing' <=> p \in listing)
  BY <1>1, <1>4 DEF ListReturns, TypeOK
<1>5. rows'[p] = rows[p] => RowsFor(p)' = RowsFor(p)
  BY DEF RowsFor
<1>6. CASE ~\E q \in Pollers : ListStep(q)
  BY <1>5, <1>6, NotListing
<1> QED
  BY <1>2, <1>3, <1>4, <1>5, <1>6 DEF ListStep

\* An answer of List has the sessions that were in the map at one instant while
\* it was asked for, however many of them are launched or removed while their
\* rows are collected one by one: Ring may take the answer of a launcher for a
\* look at its set of sessions.
THEOREM ListIsASnapshot ==
  ASSUME NEW p \in Pollers
  PROVE  Spec => [][/\ p \notin listing /\ p \in listing'
                         => RowsFor(p)' = items /\ items' = items
                    /\ p \in listing /\ p \in listing'
                         => RowsFor(p)' = RowsFor(p)]_vars
BY Invariance, ListingStep, PTL DEF Spec

\* How the map changes: by a session that was never in it, by one that was
\* removed, or by all of them, which Shutdown takes; nothing else that handlers
\* and goroutines do touches it.
THEOREM MapMoves ==
  Spec => [][\/ items' = items
             \/ \E s \in Sessions : Stage(s) = "absent" /\ items' = items \cup {s}
             \/ \E s \in items : items' = items \ {s}
             \/ items' = {}]_vars
<1>1. ASSUME IInv, [Next]_vars
      PROVE  \/ items' = items
             \/ \E s \in Sessions : Stage(s) = "absent" /\ items' = items \cup {s}
             \/ \E s \in items : items' = items \ {s}
             \/ items' = {}
  <2>1. ASSUME NEW s \in Sessions, Insert(s)
        PROVE  Stage(s) = "absent" /\ items' = items \cup {s}
    BY <1>1, <2>1 DEF Insert, Stage, IInv, SessionInv, Owned
  <2>2. ASSUME NEW s \in Sessions, RemoveDeletes(s)
        PROVE  s \in items /\ items' = items \ {s}
    BY <2>2 DEF RemoveDeletes
  <2>3. ShutdownTakesAll => items' = {}
    BY DEF ShutdownTakesAll
  <2>4. CASE /\ ~ShutdownTakesAll
             /\ \A s \in Sessions : ~Insert(s) /\ ~RemoveDeletes(s)
    BY <1>1, <2>4 DEF Next, SpawnStep, PumpStep, ReapStep, RemoveStep, ShutdownStep,
       ListStep, Start, GoPumpAndReap, Launched, PumpLocks, PumpUnlocks, PumpWrote,
       Reaped, SetExited, RemoveChecks, RemoveKills, ShutdownChecks, ShutdownKills,
       SigKill, Die, Exit, ListCollects, ListSnapshots, ListReturns, vars
  <2> QED
    BY <2>1, <2>2, <2>3, <2>4
<1> QED
  BY <1>1, Invariance, PTL DEF Spec

\* A List that begins after the Remove, or the Shutdown, that took a session out
\* of the map never has a row for it.
THEOREM RemovedIsNotListed ==
  ASSUME NEW p \in Pollers, NEW s \in Sessions
  PROVE  Spec => [](Stage(s) = "removed" /\ p \notin listing => [](s \notin RowsFor(p)))
<1> DEFINE Out == Stage(s) = "removed"
           Idle == p \notin listing
           NoRow == s \notin RowsFor(p)
<1>1. IInv /\ Idle => NoRow
  BY DEF IInv, RowInv, RowState, RowsFor
<1>2. Out => s \notin items
  BY DEF Stage, Status
<1>3. [Store!Next]_(Store!vars) /\ Out => Out'
  <2> DEFINE stage == [t \in Sessions |-> Stage(t)]
  <2>1. stage[s] = Stage(s) /\ stage'[s] = Stage(s)'
    OBVIOUS
  <2> QED
    BY <2>1 DEF Store!Next, Store!vars, Store!RemoveAll, Store!Launch, Store!Stop,
       Store!Remove, Store!Kill, Store!Listed
<1>4. IInv /\ IInv' /\ [Next]_vars /\ Out /\ NoRow => NoRow'
  <2> SUFFICES ASSUME IInv, IInv', [Next]_vars, Out, NoRow PROVE NoRow'
    OBVIOUS
  <2>1. CASE p \notin listing'
    BY <1>1, <2>1 DEF IInv, RowInv, RowState, RowsFor
  <2>2. CASE p \in listing'
    BY <1>2, <2>2, ListingStep
  <2> QED
    BY <2>1, <2>2
<1> HIDE DEF Out, Idle, NoRow
<1>5. Spec => [](Out /\ Idle => []NoRow)
  BY Invariance, Refinement, <1>1, <1>3, <1>4, PTL DEF Spec, ImplementsStore, Store!Spec
<1> QED
  BY <1>5 DEF Out, Idle, NoRow

=============================================================================
