------------------------------ MODULE Folders ------------------------------
(* The directories that a launcher offers, makes, launches in and remembers:  *)
(* browse.Browse and MakeDir, the check and the start of Spawn, and recents,  *)
(* as the handlers of the page use them for the launcher that serves it, with *)
(* other programs that change the file system under them and a launcher that  *)
(* may die at any time.  What is asked of a follower is not modelled.         *)
(*                                                                            *)
(* A path is the sequence of its names, the root <<>>.  A name that a user    *)
(* types is a sequence too: of one name, of several (it has separators), or   *)
(* <<"..">>.                                                                  *)
EXTENDS Recents

CONSTANTS Home,     \* home()
          Names,    \* what users type for a new folder
          MaxAdds   \* bound: launches between two losses of the history

ASSUME FoldersAssumption ==
  /\ \A p \in Dirs : p \in Seq(ToSet(p))
  /\ <<>> \in Dirs /\ Home \in Dirs
  /\ \A p \in Dirs : p # <<>> => Front(p) \in Dirs
  /\ MaxAdds \in Nat

VARIABLES
  kind,    \* kind[p]: "none", "dir" or "file"
  pc,      \* pc[t]: what t does next, see Next
  path,    \* path[t]: the directory that t works on
  asked,   \* history: asked[t], the directory that t's Browse was called for
  parent,  \* parent[t]: uiMkdir's `parent`
  failed,  \* failed[t]: an error will be shown
  answer   \* answer[t]: the picker that t has rendered

requestVars == <<pc, path, asked, parent, failed, answer>>
vars == <<recentsVars, kind, requestVars>>

-----------------------------------------------------------------------------

Dir(p) == IF p = <<>> THEN <<>> ELSE Front(p)

\* filepath.Join, which resolves "..".
Join(p, name) == IF name = <<"..">> THEN Dir(p) ELSE p \o name

Subdirs(p) == {q \in Dirs \ {<<>>} : Dir(q) = p /\ kind[q] = "dir"}

NoAnswer == [path |-> <<>>, dirs |-> {}, ok |-> TRUE]

TypeOK ==
  /\ RecentsTypeOK
  /\ kind \in [Dirs -> {"none", "dir", "file"}]
  /\ \A p \in Dirs : kind[p] # "none" => kind[Dir(p)] = "dir"
  /\ pc \in [Threads -> {"idle", "target", "mkdir", "stat", "entries", "done",
                         "start", "add", "adding", "list"}]
  /\ path \in [Threads -> Dirs] /\ asked \in [Threads -> Dirs]
  /\ parent \in [Threads -> Dirs]
  /\ failed \in [Threads -> BOOLEAN]
  /\ answer \in [Threads -> [path : Dirs, dirs : SUBSET Dirs, ok : BOOLEAN]]
  /\ \A t \in Threads : adding[t] # "no" <=> pc[t] = "adding"

Init ==
  /\ RecentsInit
  /\ kind = [p \in Dirs |-> IF IsPrefix(p, Home) THEN "dir" ELSE "none"]
  /\ pc = [t \in Threads |-> "idle"]
  /\ path = [t \in Threads |-> <<>>] /\ asked = [t \in Threads |-> <<>>]
  /\ parent = [t \in Threads |-> <<>>]
  /\ failed = [t \in Threads |-> FALSE]
  /\ answer = [t \in Threads |-> NoAnswer]

-----------------------------------------------------------------------------

\* t goes on at `label` with directory p.
Goto(t, label, p) == /\ pc' = [pc EXCEPT ![t] = label]
                     /\ path' = [path EXCEPT ![t] = p]
                     /\ asked' = [asked EXCEPT ![t] = CASE label = "stat" -> p
                                                       [] label = "idle" -> <<>>
                                                       [] OTHER -> @]

\* The response is written; the locals of the handler are gone.
Responds(t) ==
  /\ Goto(t, "idle", <<>>)
  /\ parent' = [parent EXCEPT ![t] = <<>>]
  /\ failed' = [failed EXCEPT ![t] = FALSE]
  /\ answer' = [answer EXCEPT ![t] = NoAnswer]

-----------------------------------------------------------------------------
(* Browse, at the end of uiBrowse and of uiMkdir.                             *)

Browses(t, p) ==
  /\ pc[t] = "idle"
  /\ Goto(t, "stat", p)
  /\ UNCHANGED <<recentsVars, kind, parent, failed, answer>>

\* A missing directory is an error, and home is shown; of a file, its directory.
BrowseStats(t) ==
  /\ pc[t] = "stat"
  /\ Goto(t, "entries", CASE kind[path[t]] = "none" -> Home
                          [] kind[path[t]] = "file" -> Dir(path[t])
                          [] OTHER -> path[t])
  /\ failed' = [failed EXCEPT ![t] = @ \/ kind[path[t]] = "none"]
  /\ UNCHANGED <<recentsVars, kind, parent, answer>>

\* Faulty variant: the error of ReadDir is dropped.
BrowseReads_Silent(t) ==
  /\ pc[t] = "entries"
  /\ answer' = [answer EXCEPT ![t] = [path |-> path[t], dirs |-> Subdirs(path[t]),
                                      ok   |-> ~failed[t]]]
  /\ Goto(t, "done", path[t])
  /\ UNCHANGED <<recentsVars, kind, parent, failed>>

\* ReadDir, which fails if the directory has gone meanwhile.
BrowseReads(t) ==
  /\ pc[t] = "entries"
  /\ answer' = [answer EXCEPT ![t] =
                  [path |-> path[t], dirs |-> Subdirs(path[t]),
                   ok   |-> ~failed[t] /\ kind[path[t]] = "dir"]]
  /\ Goto(t, "done", path[t])
  /\ UNCHANGED <<recentsVars, kind, parent, failed>>

Shows(t) == /\ pc[t] = "done"
            /\ Responds(t)
            /\ UNCHANGED <<recentsVars, kind>>

-----------------------------------------------------------------------------
(* MakeDir, as uiMkdir calls it.                                              *)

\* An error is shown with the directory that was to hold the new one.
MkdirFails(t, p) == /\ Goto(t, "stat", p)
                    /\ failed' = [failed EXCEPT ![t] = TRUE]
                    /\ parent' = [parent EXCEPT ![t] = <<>>]

\* The name is acceptable, and Join has put it directly inside.
SingleSegment(base, name) ==
  /\ Len(name) = 1 /\ name # <<"..">>
  /\ Dir(Join(base, name)) = base

\* A request for a folder in p: Stat of p, and the checks of the name.
MkdirChecks(t, p, name) ==
  /\ pc[t] = "idle"
  /\ Join(p, name) \in Dirs
  /\ IF kind[p] = "dir" /\ SingleSegment(p, name)
       THEN /\ Goto(t, "target", Join(p, name))
            /\ parent' = [parent EXCEPT ![t] = p]
            /\ UNCHANGED failed
       ELSE MkdirFails(t, p)
  /\ UNCHANGED <<recentsVars, kind, answer>>

\* Stat of the target.
MkdirStats(t) ==
  /\ pc[t] = "target"
  /\ IF kind[path[t]] = "none"
       THEN Goto(t, "mkdir", path[t]) /\ UNCHANGED <<parent, failed>>
       ELSE MkdirFails(t, parent[t])
  /\ UNCHANGED <<recentsVars, kind, answer>>

\* Faulty variant: os.MkdirAll, which is content with what there is.
Mkdir_All(p) == kind[p] # "file" /\ kind[Dir(p)] = "dir"

\* os.Mkdir succeeds on a name that is free, and only then.
Mkdir(p) == kind[p] = "none" /\ kind[Dir(p)] = "dir"

Makes(t) ==
  /\ pc[t] = "mkdir"
  /\ IF Mkdir(path[t])
       THEN /\ kind' = [kind EXCEPT ![path[t]] = "dir"]
            /\ Goto(t, "stat", path[t])
            /\ parent' = [parent EXCEPT ![t] = <<>>]
            /\ UNCHANGED failed
       ELSE MkdirFails(t, parent[t]) /\ UNCHANGED kind
  /\ UNCHANGED <<recentsVars, answer>>

-----------------------------------------------------------------------------
(* uiLaunch: spawnOn, then the list of recents.                               *)

\* Spawn begins: the directory is there.  (If not, nothing happens.)
LaunchStats(t, p) ==
  /\ pc[t] = "idle"
  /\ Len(adds) < MaxAdds
  /\ kind[p] = "dir"
  /\ Goto(t, "start", p)
  /\ UNCHANGED <<recentsVars, kind, parent, failed, answer>>

\* Shell, model, log or PTY may be refused, and Start cannot enter a directory
\* that has gone.
LaunchFails(t) ==
  /\ pc[t] = "start"
  /\ Responds(t)
  /\ UNCHANGED <<recentsVars, kind>>

LaunchStarts(t) ==
  /\ pc[t] = "start"
  /\ kind[path[t]] = "dir"
  /\ Goto(t, "add", path[t])
  /\ UNCHANGED <<recentsVars, kind, parent, failed, answer>>

LaunchAdds(t) ==
  /\ pc[t] = "add"
  /\ AddReads(t, path[t])
  /\ Goto(t, "adding", path[t])
  /\ UNCHANGED <<kind, parent, failed, answer>>

Adds(t) ==
  /\ pc[t] = "adding"
  /\ AddStep(t)
  /\ IF adding'[t] = "no" THEN Goto(t, "list", <<>>) ELSE UNCHANGED <<pc, path, asked>>
  /\ UNCHANGED <<kind, parent, failed, answer>>

\* A page asks for the recents, after a launch or on its own.
Lists(t) ==
  /\ pc[t] \in {"idle", "list"}
  /\ Unheld
  /\ Responds(t)
  /\ UNCHANGED <<recentsVars, kind>>

-----------------------------------------------------------------------------
(* The rest of the world.                                                     *)

OthersMake(p) ==
  /\ kind[p] = "none" /\ kind[Dir(p)] = "dir"
  /\ \E k \in {"dir", "file"} : kind' = [kind EXCEPT ![p] = k]
  /\ UNCHANGED <<recentsVars, requestVars>>

OthersRemove(p) ==
  /\ p # <<>> /\ kind[p] # "none"
  /\ \A q \in Dirs \ {<<>>} : Dir(q) = p => kind[q] = "none"
  /\ kind' = [kind EXCEPT ![p] = "none"]
  /\ UNCHANGED <<recentsVars, requestVars>>

\* The launcher dies and is started again.
Restart ==
  /\ RecentsRestart
  /\ pc' = [t \in Threads |-> "idle"]
  /\ path' = [t \in Threads |-> <<>>] /\ asked' = [t \in Threads |-> <<>>]
  /\ parent' = [t \in Threads |-> <<>>]
  /\ failed' = [t \in Threads |-> FALSE]
  /\ answer' = [t \in Threads |-> NoAnswer]
  /\ UNCHANGED kind

-----------------------------------------------------------------------------

Request(t) == \E p \in Dirs : \/ Browses(t, p) \/ LaunchStats(t, p)
                              \/ \E name \in Names : MkdirChecks(t, p, name)

Step(t) == \/ BrowseStats(t) \/ BrowseReads(t) \/ Shows(t)
           \/ MkdirStats(t) \/ Makes(t)
           \/ LaunchFails(t) \/ LaunchStarts(t) \/ LaunchAdds(t) \/ Adds(t)
           \/ Lists(t)

Next == \/ \E t \in Threads : Request(t) \/ Step(t)
        \/ \E p \in Dirs : OthersMake(p) \/ OthersRemove(p)
        \/ Restart

Spec == Init /\ [][Next]_vars

-----------------------------------------------------------------------------
(* Properties.                                                                *)

\* A request for a new folder makes exactly the one that was asked for, directly
\* inside the directory shown, or fails; of two requests for one name, or of a
\* request and another program, only one makes it.
NewFolderIsNew ==
  [][\A t \in Threads : pc[t] = "mkdir" /\ pc'[t] = "stat" =>
       IF failed'[t] THEN kind' = kind /\ path'[t] = parent[t]
       ELSE /\ kind[path[t]] = "none"
            /\ \E name \in Names : Len(name) = 1 /\ path[t] = parent[t] \o name
            /\ kind' = [kind EXCEPT ![path[t]] = "dir"]]_vars

\* A picker without an error is of the directory that was asked for, or of the
\* one that holds the file that was, and lists a directory that was there: what
\* vanished meanwhile is not shown as an empty one, nor home in its place.  This
\* is so for the launcher's own directories: of a follower that does not answer,
\* uiMkdir shows an empty picker without an error.
PickerHonest ==
  [][\A t \in Threads : pc[t] = "entries" /\ pc'[t] = "done" /\ answer'[t].ok =>
       /\ kind[answer'[t].path] = "dir"
       /\ answer'[t].path \in {asked[t], Dir(asked[t])}]_vars

=============================================================================
