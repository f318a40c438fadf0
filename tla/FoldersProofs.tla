--------------------------- MODULE FoldersProofs ---------------------------
(* What holds of Folders for any tree of directories, any names, any number   *)
(* of requests and any bound on launches.                                     *)
EXTENDS Folders, RecentsProofs

-----------------------------------------------------------------------------
(* The inductive invariant.                                                   *)

WellTyped ==
  /\ kind \in [Dirs -> {"none", "dir", "file"}]
  /\ pc \in [Threads -> {"idle", "target", "mkdir", "stat", "entries", "done",
                         "start", "add", "adding", "list"}]
  /\ path \in [Threads -> Dirs] /\ asked \in [Threads -> Dirs]
  /\ parent \in [Threads -> Dirs]
  /\ failed \in [Threads -> BOOLEAN]
  /\ answer \in [Threads -> [path : Dirs, dirs : SUBSET Dirs, ok : BOOLEAN]]

\* MakeDir works on a single new name in its parent.
Inside(t) ==
  pc[t] \in {"target", "mkdir"} =>
    \E name \in Names : Len(name) = 1 /\ path[t] = parent[t] \o name

\* Browse is about what it was asked for, unless it has an error to show.
Faithful(t) ==
  /\ pc[t] = "stat" => path[t] = asked[t]
  /\ pc[t] = "entries" => failed[t] \/ path[t] \in {asked[t], Dir(asked[t])}

\* An error is one of the request under way.
Clean(t) == pc[t] \in {"idle", "target", "mkdir"} => ~failed[t]

FoldersInv == WellTyped /\ \A t \in Threads : Inside(t) /\ Faithful(t) /\ Clean(t)

-----------------------------------------------------------------------------

LEMMA DirFacts ==
  /\ <<>> \in Dirs /\ Home \in Dirs
  /\ \A p \in Dirs : Dir(p) \in Dirs
BY FoldersAssumption DEF Dir

\* Only thread t moves.
Moves(t) ==
  \A u \in Threads \ {t} : /\ pc'[u] = pc[u] /\ path'[u] = path[u] /\ asked'[u] = asked[u]
                           /\ parent'[u] = parent[u] /\ failed'[u] = failed[u]

\* Where a step leaves the thread that takes it, and the others.
LEMMA GotoFacts ==
  ASSUME WellTyped, NEW t \in Threads, NEW label, NEW p \in Dirs, Goto(t, label, p),
         label \in {"idle", "target", "mkdir", "stat", "entries", "done",
                    "start", "add", "adding", "list"},
         kind' \in [Dirs -> {"none", "dir", "file"}],
         answer' \in [Threads -> [path : Dirs, dirs : SUBSET Dirs, ok : BOOLEAN]],
         parent' = parent \/ \E q \in Dirs : parent' = [parent EXCEPT ![t] = q],
         failed' = failed \/ \E b \in BOOLEAN : failed' = [failed EXCEPT ![t] = b]
  PROVE  /\ WellTyped' /\ Moves(t)
         /\ pc'[t] = label /\ path'[t] = p
         /\ label = "stat" => asked'[t] = p
         /\ label \notin {"stat", "idle"} => asked'[t] = asked[t]
<1> USE DirFacts
<1>1. /\ pc'[t] = label /\ path'[t] = p
      /\ label = "stat" => asked'[t] = p
      /\ label \notin {"stat", "idle"} => asked'[t] = asked[t]
      /\ path' \in [Threads -> Dirs] /\ asked' \in [Threads -> Dirs]
      /\ \A u \in Threads \ {t} : pc'[u] = pc[u] /\ path'[u] = path[u] /\ asked'[u] = asked[u]
  BY DEF WellTyped, Goto
<1>2. parent' \in [Threads -> Dirs] /\ \A u \in Threads \ {t} : parent'[u] = parent[u]
  BY DEF WellTyped
<1>3. failed' \in [Threads -> BOOLEAN] /\ \A u \in Threads \ {t} : failed'[u] = failed[u]
  BY DEF WellTyped
<1>4. pc' \in [Threads -> {"idle", "target", "mkdir", "stat", "entries", "done",
                           "start", "add", "adding", "list"}]
  BY DEF WellTyped, Goto
<1> QED
  BY <1>1, <1>2, <1>3, <1>4 DEF WellTyped, Moves

\* What the others do not disturb.
LEMMA OneThread ==
  ASSUME FoldersInv, NEW t \in Threads, Moves(t), WellTyped', Inside(t)', Faithful(t)', Clean(t)'
  PROVE  FoldersInv'
BY DEF FoldersInv, Moves, Inside, Faithful, Clean

\* Every step keeps the invariant.
LEMMA FoldersStep ==
  ASSUME FoldersInv, [Next]_vars
  PROVE  FoldersInv'
<1> USE DirFacts
<1>1. WellTyped
  BY DEF FoldersInv
<1>2. kind \in [Dirs -> {"none", "dir", "file"}]
  BY <1>1 DEF WellTyped
<1>3. ASSUME NEW t \in Threads, NEW label, NEW p \in Dirs, Goto(t, label, p),
             label \in {"idle", "done", "start", "add", "adding", "list", "stat"},
             kind' \in [Dirs -> {"none", "dir", "file"}],
             answer' = answer \/ \E a \in [path : Dirs, dirs : SUBSET Dirs, ok : BOOLEAN] :
               answer' = [answer EXCEPT ![t] = a],
             parent' = parent \/ parent' = [parent EXCEPT ![t] = <<>>],
             failed' = failed \/ \E b \in BOOLEAN : failed' = [failed EXCEPT ![t] = b],
             label = "idle" => failed' = [failed EXCEPT ![t] = FALSE]
      PROVE  FoldersInv'
  <2>1. answer' \in [Threads -> [path : Dirs, dirs : SUBSET Dirs, ok : BOOLEAN]]
    BY <1>1, <1>3 DEF WellTyped
  <2>2. /\ WellTyped' /\ Moves(t) /\ pc'[t] = label /\ path'[t] = p
        /\ label = "stat" => asked'[t] = p
    BY <1>1, <1>3, <2>1, GotoFacts
  <2>3. label = "idle" => ~failed'[t]
    BY <1>1, <1>3 DEF WellTyped
  <2> QED
    BY <1>3, <2>2, <2>3, OneThread DEF Inside, Faithful, Clean
<1>4. NoAnswer \in [path : Dirs, dirs : SUBSET Dirs, ok : BOOLEAN]
  BY DEF NoAnswer
<1>5. ASSUME NEW t \in Threads, Responds(t), UNCHANGED kind PROVE FoldersInv'
  BY <1>2, <1>3, <1>4, <1>5 DEF Responds
<1>6. ASSUME NEW t \in Threads, NEW p \in Dirs, MkdirFails(t, p), UNCHANGED answer,
             kind' \in [Dirs -> {"none", "dir", "file"}]
      PROVE  FoldersInv'
  BY <1>3, <1>6 DEF MkdirFails
<1>7. ASSUME NEW t \in Threads, NEW p \in Dirs, Browses(t, p) \/ LaunchStats(t, p)
      PROVE  FoldersInv'
  BY <1>2, <1>3, <1>7 DEF Browses, LaunchStats
<1>8. ASSUME NEW t \in Threads, NEW p \in Dirs, NEW name \in Names, MkdirChecks(t, p, name)
      PROVE  FoldersInv'
  <2>1. CASE MkdirFails(t, p)
    BY <1>2, <1>6, <1>8, <2>1 DEF MkdirChecks
  <2>2. CASE /\ SingleSegment(p, name) /\ Goto(t, "target", Join(p, name))
             /\ parent' = [parent EXCEPT ![t] = p] /\ UNCHANGED failed
    <3>1. Join(p, name) \in Dirs /\ UNCHANGED <<kind, answer>>
      BY <1>8 DEF MkdirChecks
    <3>2. Join(p, name) = p \o name /\ Len(name) = 1
      BY <2>2 DEF SingleSegment, Join
    <3>3. /\ WellTyped' /\ Moves(t) /\ pc'[t] = "target" /\ path'[t] = Join(p, name)
      BY <1>1, <1>2, <2>2, <3>1, GotoFacts DEF WellTyped
    <3>4. parent'[t] = p /\ ~failed'[t]
      BY <1>1, <1>8, <2>2 DEF WellTyped, MkdirChecks, FoldersInv, Clean
    <3>5. Inside(t)' /\ Faithful(t)' /\ Clean(t)'
      BY <3>2, <3>3, <3>4 DEF Inside, Faithful, Clean
    <3> QED
      BY <3>3, <3>5, OneThread
  <2> QED
    BY <1>8, <2>1, <2>2 DEF MkdirChecks
<1>9. ASSUME NEW t \in Threads, MkdirStats(t) PROVE FoldersInv'
  <2>1. CASE MkdirFails(t, parent[t])
    <3>1. parent[t] \in Dirs
      BY <1>1 DEF WellTyped
    <3> QED
      BY <1>2, <1>6, <1>9, <2>1, <3>1 DEF MkdirStats
  <2>2. CASE Goto(t, "mkdir", path[t]) /\ UNCHANGED <<parent, failed>>
    <3>1. pc[t] = "target" /\ UNCHANGED <<kind, answer>> /\ path[t] \in Dirs
      BY <1>1, <1>9 DEF MkdirStats, WellTyped
    <3>2. WellTyped' /\ Moves(t) /\ pc'[t] = "mkdir" /\ path'[t] = path[t]
      BY <1>1, <1>2, <2>2, <3>1, GotoFacts DEF WellTyped
    <3>3. Inside(t)' /\ Faithful(t)' /\ Clean(t)'
      BY <2>2, <3>1, <3>2 DEF Inside, Faithful, Clean, FoldersInv
    <3> QED
      BY <3>2, <3>3, OneThread
  <2> QED
    BY <1>9, <2>1, <2>2 DEF MkdirStats
<1>10. ASSUME NEW t \in Threads, Makes(t) PROVE FoldersInv'
  <2>1. path[t] \in Dirs /\ parent[t] \in Dirs /\ UNCHANGED answer
    BY <1>1, <1>10 DEF WellTyped, Makes
  <2>2. kind' \in [Dirs -> {"none", "dir", "file"}]
    BY <1>2, <1>10, <2>1 DEF Makes
  <2>3. \/ Goto(t, "stat", path[t]) /\ parent' = [parent EXCEPT ![t] = <<>>] /\ UNCHANGED failed
        \/ MkdirFails(t, parent[t])
    BY <1>10 DEF Makes
  <2> QED
    BY <1>3, <1>6, <2>1, <2>2, <2>3
<1>11. ASSUME NEW t \in Threads, BrowseStats(t) PROVE FoldersInv'
  <2> DEFINE p == CASE kind[path[t]] = "none" -> Home
                    [] kind[path[t]] = "file" -> Dir(path[t])
                    [] OTHER -> path[t]
             b == failed[t] \/ kind[path[t]] = "none"
  <2>1. /\ pc[t] = "stat" /\ Goto(t, "entries", p)
        /\ failed' = [failed EXCEPT ![t] = b] /\ UNCHANGED <<kind, parent, answer>>
    BY <1>11 DEF BrowseStats
  <2>2. path[t] = asked[t] /\ path[t] \in Dirs
    BY <1>1, <2>1 DEF FoldersInv, Faithful, WellTyped
  <2>3. p \in Dirs /\ (b \/ p \in {asked[t], Dir(asked[t])})
    BY <2>2
  <2>4. b \in BOOLEAN
    OBVIOUS
  <2>5. failed'[t] = b /\ \E c \in BOOLEAN : failed' = [failed EXCEPT ![t] = c]
    BY <1>1, <2>1 DEF WellTyped
  <2>6. /\ kind' \in [Dirs -> {"none", "dir", "file"}] /\ parent' = parent
        /\ answer' \in [Threads -> [path : Dirs, dirs : SUBSET Dirs, ok : BOOLEAN]]
    BY <1>1, <2>1 DEF WellTyped
  <2>7. p \in Dirs /\ Goto(t, "entries", p)
    BY <2>1, <2>3
  <2> HIDE DEF p, b
  <2>8. /\ WellTyped' /\ Moves(t) /\ pc'[t] = "entries" /\ path'[t] = p /\ asked'[t] = asked[t]
    BY <1>1, <2>5, <2>6, <2>7, GotoFacts
  <2>9. Inside(t)' /\ Faithful(t)' /\ Clean(t)'
    BY <2>3, <2>5, <2>8 DEF Inside, Faithful, Clean
  <2> QED
    BY <2>8, <2>9, OneThread
<1>12. ASSUME NEW t \in Threads, BrowseReads(t) PROVE FoldersInv'
  <2> DEFINE a == [path |-> path[t], dirs |-> Subdirs(path[t]),
                   ok   |-> ~failed[t] /\ kind[path[t]] = "dir"]
  <2>1. /\ Goto(t, "done", path[t]) /\ answer' = [answer EXCEPT ![t] = a]
        /\ UNCHANGED <<kind, parent, failed>>
    BY <1>12 DEF BrowseReads
  <2>2. path[t] \in Dirs
    BY <1>1 DEF WellTyped
  <2>3. a \in [path : Dirs, dirs : SUBSET Dirs, ok : BOOLEAN]
    BY <2>2 DEF Subdirs
  <2> HIDE DEF a
  <2> QED
    BY <1>2, <1>3, <2>1, <2>2, <2>3
<1>13. ASSUME NEW t \in Threads, Shows(t) \/ LaunchFails(t) \/ Lists(t) PROVE FoldersInv'
  BY <1>5, <1>13 DEF Shows, LaunchFails, Lists
<1>14. ASSUME NEW t \in Threads, LaunchStarts(t) \/ LaunchAdds(t) PROVE FoldersInv'
  <2>1. path[t] \in Dirs /\ UNCHANGED <<kind, parent, failed, answer>>
    BY <1>1, <1>14 DEF LaunchStarts, LaunchAdds, WellTyped
  <2> QED
    BY <1>2, <1>3, <1>14, <2>1 DEF LaunchStarts, LaunchAdds
<1>15. ASSUME NEW t \in Threads, Adds(t) PROVE FoldersInv'
  <2>1. CASE Goto(t, "list", <<>>)
    BY <1>2, <1>3, <1>15, <2>1 DEF Adds
  <2>2. CASE UNCHANGED <<pc, path, asked>>
    BY <1>15, <2>2 DEF Adds, FoldersInv, WellTyped, Inside, Faithful, Clean
  <2> QED
    BY <1>15, <2>1, <2>2 DEF Adds
<1>16. ASSUME NEW p \in Dirs, OthersMake(p) \/ OthersRemove(p) PROVE FoldersInv'
  <2>1. UNCHANGED requestVars /\ kind' \in [Dirs -> {"none", "dir", "file"}]
    BY <1>2, <1>16 DEF OthersMake, OthersRemove
  <2> QED
    BY <2>1 DEF FoldersInv, WellTyped, Inside, Faithful, Clean, requestVars
<1>17. CASE Restart
  BY <1>2, <1>4, <1>17 DEF Restart, FoldersInv, WellTyped, Inside, Faithful, Clean
<1>18. CASE UNCHANGED vars
  BY <1>18 DEF vars, requestVars, FoldersInv, WellTyped, Inside, Faithful, Clean
<1> QED
  BY <1>7, <1>8, <1>9, <1>10, <1>11, <1>12, <1>13, <1>14, <1>15, <1>16, <1>17, <1>18
     DEF Next, Request, Step

-----------------------------------------------------------------------------
(* The tree of directories.                                                   *)

\* What is there is in a directory.
Tree == \A p \in Dirs : kind[p] # "none" => kind[Dir(p)] = "dir"

\* The directory of a prefix is a prefix.
LEMMA PrefixesClimb ==
  ASSUME NEW p \in Dirs, IsPrefix(p, Home)
  PROVE  IsPrefix(Dir(p), Home)
<1>1. CASE p = <<>>
  BY <1>1 DEF Dir
<1>2. CASE p # <<>>
  <2> DEFINE S == ToSet(p) \cup ToSet(Home)
  <2>1. p \in Seq(S) /\ Home \in Seq(S)
    <3>1. p \in Seq(ToSet(p)) /\ Home \in Seq(ToSet(Home))
      BY DirFacts, FoldersAssumption
    <3> QED
      BY <3>1
  <2> HIDE DEF S
  <2> DEFINE n == Len(p) - 1
  <2>2. /\ n \in Nat /\ n + 1 = Len(p) /\ Len(p) <= Len(Home) /\ Len(Home) \in Nat
        /\ SubSeq(p, 1, Len(p)) = SubSeq(Home, 1, Len(p))
    BY <1>2, <2>1, EmptySeq, LenProperties DEF IsPrefix
  <2>3. \A i \in 1..Len(p) : p[i] = Home[i]
    BY <2>1, <2>2
  <2>4. Dir(p) = SubSeq(p, 1, n)
    BY <1>2 DEF Dir, Front
  <2>5. Dir(p) \in Seq(S) /\ Len(Dir(p)) = n /\ \A i \in 1..n : Dir(p)[i] = p[i]
    BY <2>1, <2>2, <2>4
  <2>6. SubSeq(Dir(p), 1, n) = Dir(p)
    BY <2>5, SubSeqFull
  <2>7. SubSeq(Home, 1, n) \in Seq(S) /\ Len(SubSeq(Home, 1, n)) = n
        /\ \A i \in 1..n : SubSeq(Home, 1, n)[i] = Home[i]
    BY <2>1, <2>2
  <2> HIDE DEF n
  <2>8. Dir(p) = SubSeq(Home, 1, n)
    BY <2>2, <2>3, <2>5, <2>7, SeqEqual
  <2> QED
    BY <2>2, <2>5, <2>6, <2>8 DEF IsPrefix
<1> QED
  BY <1>1, <1>2

\* At the start there is the way to home, and nothing else.
LEMMA TreeStart == Init => Tree
<1> SUFFICES ASSUME Init, NEW p \in Dirs, kind[p] # "none" PROVE kind[Dir(p)] = "dir"
  BY DEF Tree
<1> QED
  BY PrefixesClimb, DirFacts DEF Init

\* MakeDir and the other programs keep the tree a tree.
LEMMA TreeStep ==
  ASSUME FoldersInv, Tree, [Next]_vars
  PROVE  Tree'
<1> USE DirFacts
<1>1. WellTyped /\ kind \in [Dirs -> {"none", "dir", "file"}]
  BY DEF FoldersInv, WellTyped
<1>2. ASSUME NEW p \in Dirs, NEW k, kind[p] = "none", kind[Dir(p)] = "dir",
             kind' = [kind EXCEPT ![p] = k]
      PROVE  Tree'
  BY <1>1, <1>2 DEF Tree
<1>3. ASSUME NEW p \in Dirs, OthersRemove(p) PROVE Tree'
  <2>1. /\ p # <<>> /\ kind' = [kind EXCEPT ![p] = "none"]
        /\ \A q \in Dirs \ {<<>>} : Dir(q) = p => kind[q] = "none"
    BY <1>3 DEF OthersRemove
  <2>2. Dir(<<>>) = <<>>
    BY DEF Dir
  <2>3. SUFFICES ASSUME NEW q \in Dirs, kind'[q] # "none" PROVE kind'[Dir(q)] = "dir"
    BY DEF Tree
  <2>4. kind[q] # "none" /\ q # p
    BY <1>1, <2>1, <2>3
  <2>5. Dir(q) # p
    BY <2>1, <2>2, <2>4
  <2> QED
    BY <1>1, <2>1, <2>4, <2>5 DEF Tree
<1>4. ASSUME NEW t \in Threads, Makes(t) PROVE Tree'
  <2>1. path[t] \in Dirs
    BY <1>1 DEF WellTyped
  <2> QED
    BY <1>2, <1>4, <2>1 DEF Makes, Mkdir, Tree
<1>5. ASSUME NEW p \in Dirs, OthersMake(p) PROVE Tree'
  BY <1>2, <1>5 DEF OthersMake
<1>6. UNCHANGED kind => Tree'
  BY DEF Tree
<1> QED
  BY <1>3, <1>4, <1>5, <1>6
     DEF Next, Request, Step, Browses, LaunchStats, MkdirChecks, BrowseStats, BrowseReads,
         Shows, MkdirStats, LaunchFails, LaunchStarts, LaunchAdds, Adds, Lists, Restart, vars

-----------------------------------------------------------------------------
(* The history, as the requests use it.                                       *)

\* A request is inside Add when its thread is.
Linked == \A t \in Threads : adding[t] # "no" <=> pc[t] = "adding"

\* What the handlers do to the store is what the store does.
LEMMA StoreSteps ==
  ASSUME FoldersInv, [Next]_vars
  PROVE  RecentsStep
<1>1. ASSUME NEW t \in Threads, LaunchAdds(t) PROVE RecentsStep
  <2>1. path[t] \in Dirs
    BY DEF FoldersInv, WellTyped
  <2> QED
    BY <1>1, <2>1 DEF LaunchAdds, RecentsStep
<1>2. ASSUME NEW t \in Threads, Adds(t) PROVE RecentsStep
  BY <1>2 DEF Adds, RecentsStep
<1>3. Restart => RecentsStep
  BY DEF Restart, RecentsStep
<1>4. UNCHANGED recentsVars => RecentsStep
  BY DEF RecentsStep
<1> QED
  BY <1>1, <1>2, <1>3, <1>4
     DEF Next, Request, Step, Browses, LaunchStats, MkdirChecks, BrowseStats, BrowseReads,
         Shows, MkdirStats, Makes, LaunchFails, LaunchStarts, Lists, OthersMake, OthersRemove,
         vars

\* Handler and store go in and out of Add together.
LEMMA LinkedStep ==
  ASSUME FoldersInv, RecentsInv, Linked, [Next]_vars
  PROVE  Linked'
<1>1. WellTyped /\ adding \in [Threads -> {"no", "read", "torn"}]
  BY DEF FoldersInv, RecentsInv, RecentsTypeOK
<1>2. pc \in [Threads -> {"idle", "target", "mkdir", "stat", "entries", "done",
                          "start", "add", "adding", "list"}]
  BY <1>1 DEF WellTyped
<1>3. ASSUME NEW t \in Threads, UNCHANGED recentsVars, pc[t] # "adding",
             \E label, p : label # "adding" /\ Goto(t, label, p)
      PROVE  Linked'
  <2>1. adding' = adding
    BY <1>3 DEF recentsVars
  <2>2. PICK label : label # "adding" /\ pc' = [pc EXCEPT ![t] = label]
    BY <1>3 DEF Goto
  <2> QED
    BY <1>2, <1>3, <2>1, <2>2 DEF Linked
<1>4. ASSUME NEW t \in Threads, LaunchAdds(t) PROVE Linked'
  <2>1. adding' = [adding EXCEPT ![t] = "read"] /\ pc' = [pc EXCEPT ![t] = "adding"]
    BY <1>4 DEF LaunchAdds, AddReads, Goto
  <2> QED
    BY <1>1, <1>2, <2>1 DEF Linked
<1>5. ASSUME NEW t \in Threads, Adds(t) PROVE Linked'
  <2>1. pc[t] = "adding" /\ \E v : adding' = [adding EXCEPT ![t] = v]
    BY <1>5 DEF Adds, AddStep, AddGivesUp, AddReturns, Truncates, Writes, WriteFails
  <2>2. IF adding'[t] = "no" THEN pc' = [pc EXCEPT ![t] = "list"] ELSE pc' = pc
    BY <1>5 DEF Adds, Goto
  <2> QED
    BY <1>1, <1>2, <2>1, <2>2 DEF Linked
<1>6. Restart => Linked'
  BY DEF Restart, RecentsRestart, Linked
<1>7. UNCHANGED <<recentsVars, pc>> => Linked'
  BY DEF recentsVars, Linked
<1>8. ASSUME NEW t \in Threads, Request(t) PROVE Linked'
  BY <1>3, <1>8 DEF Request, Browses, LaunchStats, MkdirChecks, MkdirFails
<1>9. ASSUME NEW t \in Threads,
             \/ BrowseStats(t) \/ BrowseReads(t) \/ Shows(t) \/ MkdirStats(t) \/ Makes(t)
             \/ LaunchFails(t) \/ LaunchStarts(t) \/ Lists(t)
      PROVE  Linked'
  BY <1>3, <1>9 DEF BrowseStats, BrowseReads, Shows, Responds, MkdirStats, MkdirFails, Makes,
     LaunchFails, LaunchStarts, Lists
<1> QED
  BY <1>4, <1>5, <1>6, <1>7, <1>8, <1>9
     DEF Next, Step, OthersMake, OthersRemove, requestVars, vars

-----------------------------------------------------------------------------
(* The theorems.                                                              *)

\* The inductive invariant holds for any tree and any requests.
THEOREM FoldersInvariance == Spec => []FoldersInv
<1>1. Init => FoldersInv
  BY DirFacts DEF Init, NoAnswer, FoldersInv, WellTyped, Inside, Faithful, Clean
<1>2. FoldersInv /\ [Next]_vars => FoldersInv'
  BY FoldersStep
<1> QED
  BY <1>1, <1>2, PTL DEF Spec

\* For any tree and any requests: what holds of the store by itself holds of it
\* under the handlers.
THEOREM FoldersUseRecents == Spec => RecentsSpec
<1>1. Init => RecentsInit
  BY DEF Init
<1>2. FoldersInv /\ [Next]_vars => [RecentsStep]_recentsVars
  BY StoreSteps
<1> QED
  BY <1>1, <1>2, FoldersInvariance, PTL DEF Spec, RecentsSpec

\* Only the steps named move a thread on from where it is about to make a folder
\* or to read one.
LEMMA WhoMoves ==
  ASSUME FoldersInv, Next, NEW t \in Threads
  PROVE  /\ pc[t] = "mkdir" /\ pc'[t] = "stat" => Makes(t)
         /\ pc[t] = "entries" /\ pc'[t] = "done" => BrowseReads(t)
<1>1. WellTyped
  BY DEF FoldersInv
<1>2. ASSUME NEW u \in Threads, Request(u) \/ Step(u),
             pc[t] \in {"mkdir", "entries"}, pc'[t] # pc[t], u # t
      PROVE  FALSE
  <2>1. \A label, p : Goto(u, label, p) => pc'[t] = pc[t]
    BY <1>1, <1>2 DEF Goto, WellTyped
  <2>2. (\E label, p : Goto(u, label, p)) \/ pc' = pc
    BY <1>2 DEF Request, Step, Browses, LaunchStats, MkdirChecks, MkdirFails, BrowseStats,
       BrowseReads, Shows, Responds, MkdirStats, Makes, LaunchFails, LaunchStarts, LaunchAdds,
       Adds, Lists
  <2> QED
    BY <1>2, <2>1, <2>2
<1>3. ASSUME pc[t] = "mkdir", Request(t) \/ Step(t) PROVE Makes(t)
  BY <1>3 DEF Request, Step, Browses, LaunchStats, MkdirChecks, BrowseStats,
     BrowseReads, Shows, MkdirStats, LaunchFails, LaunchStarts, LaunchAdds, Adds, Lists
<1>4. ASSUME pc[t] = "entries", Request(t) \/ Step(t) PROVE BrowseReads(t)
  BY <1>4 DEF Request, Step, Browses, LaunchStats, MkdirChecks, BrowseStats,
     Shows, MkdirStats, Makes, LaunchFails, LaunchStarts, LaunchAdds, Adds, Lists
<1>5. (\E p \in Dirs : OthersMake(p) \/ OthersRemove(p)) => pc' = pc
  BY DEF OthersMake, OthersRemove, requestVars
<1>6. Restart => pc'[t] = "idle"
  BY DEF Restart
<1> QED
  BY <1>2, <1>3, <1>4, <1>5, <1>6 DEF Next

\* For any tree, names and requests: a folder that is made is new and where it
\* was asked for, and what fails makes nothing.
THEOREM FoldersAreNew == Spec => NewFolderIsNew
<1> DEFINE IsNew == \A t \in Threads : pc[t] = "mkdir" /\ pc'[t] = "stat" =>
                      IF failed'[t] THEN kind' = kind /\ path'[t] = parent[t]
                      ELSE /\ kind[path[t]] = "none"
                           /\ \E name \in Names : Len(name) = 1 /\ path[t] = parent[t] \o name
                           /\ kind' = [kind EXCEPT ![path[t]] = "dir"]
<1>1. FoldersInv /\ [Next]_vars => [IsNew]_vars
  <2> SUFFICES ASSUME FoldersInv, Next, NEW t \in Threads, pc[t] = "mkdir", pc'[t] = "stat"
               PROVE  IF failed'[t] THEN kind' = kind /\ path'[t] = parent[t]
                      ELSE /\ kind[path[t]] = "none"
                           /\ \E name \in Names : Len(name) = 1 /\ path[t] = parent[t] \o name
                           /\ kind' = [kind EXCEPT ![path[t]] = "dir"]
    OBVIOUS
  <2>1. Makes(t)
    BY WhoMoves
  <2>2. \E name \in Names : Len(name) = 1 /\ path[t] = parent[t] \o name
    BY DEF FoldersInv, Inside
  <2>3. CASE Mkdir(path[t])
    BY <2>1, <2>2, <2>3 DEF Makes, Mkdir, FoldersInv, Clean
  <2>4. CASE ~Mkdir(path[t])
    BY <2>1, <2>4 DEF Makes, MkdirFails, Goto, FoldersInv, WellTyped
  <2> QED
    BY <2>3, <2>4
<1> HIDE DEF IsNew
<1>2. Spec => [][IsNew]_vars
  BY <1>1, FoldersInvariance, PTL DEF Spec
<1> QED
  BY <1>2 DEF IsNew, NewFolderIsNew

\* For any tree, names and requests: a picker without an error shows the
\* directory asked for, and one that is there.
THEOREM PickersAreHonest == Spec => PickerHonest
<1> DEFINE Honest == \A t \in Threads :
                       pc[t] = "entries" /\ pc'[t] = "done" /\ answer'[t].ok =>
                         /\ kind[answer'[t].path] = "dir"
                         /\ answer'[t].path \in {asked[t], Dir(asked[t])}
<1>1. FoldersInv /\ [Next]_vars => [Honest]_vars
  <2> SUFFICES ASSUME FoldersInv, Next, NEW t \in Threads,
                      pc[t] = "entries", pc'[t] = "done", answer'[t].ok
               PROVE  /\ kind[answer'[t].path] = "dir"
                      /\ answer'[t].path \in {asked[t], Dir(asked[t])}
    OBVIOUS
  <2>1. BrowseReads(t)
    BY WhoMoves
  <2>2. answer'[t].path = path[t] /\ (answer'[t].ok <=> ~failed[t] /\ kind[path[t]] = "dir")
    BY <2>1 DEF BrowseReads, FoldersInv, WellTyped
  <2> QED
    BY <2>2 DEF FoldersInv, Faithful
<1> HIDE DEF Honest
<1>2. Spec => [][Honest]_vars
  BY <1>1, FoldersInvariance, PTL DEF Spec
<1> QED
  BY <1>2 DEF Honest, PickerHonest

\* For any tree and any requests: the types hold, what exists has a directory
\* to be in, and one request at a time, which holds the lock, is inside Add.
THEOREM FoldersTypeCorrect == Spec => []TypeOK
<1>1. Init => Tree /\ Linked
  BY TreeStart DEF Init, RecentsInit, Linked
<1>2. FoldersInv /\ RecentsInv /\ Tree /\ Linked /\ [Next]_vars => Tree' /\ Linked'
  BY TreeStep, LinkedStep
<1>3. FoldersInv /\ RecentsInv /\ Tree /\ Linked => TypeOK
  BY DEF FoldersInv, WellTyped, RecentsInv, Tree, Linked, TypeOK
<1>4. Spec => []FoldersInv /\ []RecentsInv
  BY FoldersInvariance, FoldersUseRecents, RecentsInvariance, PTL
<1> QED
  BY <1>1, <1>2, <1>3, <1>4, PTL DEF Spec

\* For any cap, any directories and any number of launches: whoever reads the
\* history finds the last Cap directories used, the latest first and none twice.
THEOREM HistoryIsKept == Spec => []HistoryKept
BY FoldersUseRecents, RecentsInvariance, HistoryIsRead, PTL

=============================================================================
