------------------------------ MODULE Catalog ------------------------------
(* catalog.Store: the configuration file that it watches, the editor that     *)
(* writes the file, New, and the request goroutines that run                  *)
(* reloadIfChanged before they read the catalog.                              *)
(*                                                                            *)
(* A write of the file makes a new edition of it, and editions are numbered.  *)
(* The number stands for the edition's content and for its mtime and size,    *)
(* the stamp.  A write may be caught half done: the rest of an edition that   *)
(* does not parse yet can arrive without its stamp moving (same clock tick,   *)
(* final size).  0 stands for a missing file, and for the built-in defaults.  *)
EXTENDS Integers

CONSTANTS Threads,   \* goroutines that serve requests
          Nobody,    \* who holds a free lock
          MaxEdits   \* bound: how often the file is written or deleted

ASSUME ThreadsAssumption == Nobody \notin Threads /\ MaxEdits \in Nat

VARIABLES
  disk,     \* the edition in the file, 0 if there is none
  good,     \* the editions that are whole and valid
  edits,    \* editions and deletions so far
  phase,    \* of main: "new" (before ReadFile), "stamping", "up" or "failed"
  cur,      \* Store.cur, as the edition it was parsed from
  gen,      \* Store.gen
  stamp,    \* Store.stamp
  failed,   \* Store.failed; -1 is notFailed
  writer,   \* the goroutine that holds Store.mu for writing
  pc,       \* pc[t]: where t stands in reloadIfChanged
  now,      \* now[t]: reloadIfChanged's `now`
  got,      \* got[t]: the edition that ReadFile returned to t
  overtaken \* history: the file changed between the read and the stamp of the
            \* last load

file == <<disk, good, edits>>
store == <<cur, gen, stamp, failed>>
locals == <<pc, now, got>>
catalogVars == <<file, phase, store, writer, locals, overtaken>>

-----------------------------------------------------------------------------

TypeOK ==
  /\ disk \in Nat /\ edits \in Nat /\ good \subseteq Nat \ {0}
  /\ phase \in {"new", "stamping", "up", "failed"}
  /\ cur \in Nat /\ gen \in Nat /\ stamp \in Nat /\ failed \in Nat \cup {-1}
  /\ writer \in Threads \cup {Nobody}
  /\ pc \in [Threads -> {"idle", "compare", "lock", "read", "stamp", "ready"}]
  /\ now \in [Threads -> Nat] /\ got \in [Threads -> Nat]
  /\ overtaken \in BOOLEAN
  /\ \A t \in Threads : writer = t <=> pc[t] \in {"read", "stamp"}

Init ==
  /\ edits = 0
  /\ \/ disk = 0 /\ good = {}
     \/ disk = 1 /\ good \in {{}, {1}}
  /\ phase = "new"
  /\ cur = 0 /\ gen = 1 /\ stamp = 0 /\ failed = -1
  /\ writer = Nobody
  /\ pc = [t \in Threads |-> "idle"]
  /\ now = [t \in Threads |-> 0]
  /\ got = [t \in Threads |-> 0]
  /\ overtaken = FALSE

-----------------------------------------------------------------------------
(* parse and validate: which editions make a catalog.                         *)

Parses(e) == e \in good

-----------------------------------------------------------------------------
(* The editor.  Editions are numbered from 2 on; 1 is the one found.          *)

Edit == /\ edits < MaxEdits
        /\ edits' = edits + 1

Write == /\ Edit
         /\ disk' = edits + 2
         /\ good' \in {good, good \cup {disk'}}

\* The rest of a half-written file arrives; the stamp stays.
FinishWrite == /\ disk # 0
               /\ ~Parses(disk)
               /\ good' = good \cup {disk}
               /\ UNCHANGED <<disk, edits>>

Delete == /\ disk # 0
          /\ Edit
          /\ disk' = 0
          /\ UNCHANGED good

Editor == /\ Write \/ FinishWrite \/ Delete
          /\ UNCHANGED <<phase, store, writer, locals, overtaken>>

-----------------------------------------------------------------------------
(* New.                                                                       *)

\* A missing file means the defaults, an invalid one ends the program.
NewReads ==
  /\ phase = "new"
  /\ phase' = IF disk = 0 THEN "up" ELSE IF Parses(disk) THEN "stamping" ELSE "failed"
  /\ cur' = IF Parses(disk) THEN disk ELSE cur
  /\ UNCHANGED <<file, gen, stamp, failed, writer, locals, overtaken>>

NewStamps ==
  /\ phase = "stamping"
  /\ phase' = "up"
  /\ gen' = 2
  /\ stamp' = disk
  /\ overtaken' = (disk # cur)
  /\ UNCHANGED <<file, cur, failed, writer, locals>>

-----------------------------------------------------------------------------
(* reloadIfChanged, on goroutine t.                                           *)

Goto(t, label) == pc' = [pc EXCEPT ![t] = label]

Unlocked == writer = Nobody

\* A request calls Gen, Models or Shells: the stat comes first, without a lock.
Stats(t) ==
  /\ phase = "up"
  /\ pc[t] = "idle"
  /\ now' = [now EXCEPT ![t] = disk]
  /\ Goto(t, "compare")
  /\ UNCHANGED <<file, phase, store, writer, got, overtaken>>

\* Faulty variant: a file known to be broken is not tried again.
Compares_SkipsFailed(t) ==
  /\ pc[t] = "compare"
  /\ Unlocked
  /\ Goto(t, IF now[t] \in {stamp, failed} THEN "ready" ELSE "lock")
  /\ UNCHANGED <<file, phase, store, writer, now, got, overtaken>>

\* Under RLock.
Compares(t) ==
  /\ pc[t] = "compare"
  /\ Unlocked
  /\ Goto(t, IF now[t] = stamp THEN "ready" ELSE "lock")
  /\ UNCHANGED <<file, phase, store, writer, now, got, overtaken>>

\* Faulty variant: the early return forgets the unlock.
FindsItDone_KeepsLock(t) ==
  /\ now[t] = stamp
  /\ Goto(t, "ready")
  /\ writer' = t
  /\ UNCHANGED failed

\* Another goroutine got there first.
FindsItDone(t) ==
  /\ now[t] = stamp
  /\ Goto(t, "ready")
  /\ UNCHANGED <<writer, failed>>

FindsItGone(t) ==
  /\ now[t] # stamp
  /\ now[t] = 0
  /\ failed' = 0
  /\ Goto(t, "ready")
  /\ UNCHANGED writer

GoesOnToRead(t) ==
  /\ now[t] # stamp
  /\ now[t] # 0
  /\ writer' = t
  /\ Goto(t, "read")
  /\ UNCHANGED failed

\* Under Lock, which the last of these keeps.
Locks(t) ==
  /\ pc[t] = "lock"
  /\ Unlocked
  /\ FindsItDone(t) \/ FindsItGone(t) \/ GoesOnToRead(t)
  /\ UNCHANGED <<file, phase, cur, gen, stamp, now, got, overtaken>>

\* Faulty variant: the file is read along with the first stat.
Reads_BeforeTheLock(t) ==
  /\ pc[t] = "read"
  /\ Parses(now[t])
  /\ got' = [got EXCEPT ![t] = now[t]]
  /\ Goto(t, "stamp")
  /\ UNCHANGED <<file, phase, store, writer, now, overtaken>>

\* ReadFile and parse.
Reads(t) ==
  /\ pc[t] = "read"
  /\ Parses(disk)
  /\ got' = [got EXCEPT ![t] = disk]
  /\ Goto(t, "stamp")
  /\ UNCHANGED <<file, phase, store, writer, now, overtaken>>

\* Faulty variant: a failure is stamped like a success.
ReadFails_Stamps(t) ==
  /\ pc[t] = "read"
  /\ ~Parses(disk)
  /\ failed' = now[t]
  /\ stamp' = now[t]
  /\ writer' = Nobody
  /\ Goto(t, "ready")
  /\ UNCHANGED <<file, phase, cur, gen, now, got, overtaken>>

\* The file is gone or invalid: only the log-once token is recorded.
ReadFails(t) ==
  /\ pc[t] = "read"
  /\ ~Parses(disk)
  /\ failed' = now[t]
  /\ writer' = Nobody
  /\ Goto(t, "ready")
  /\ UNCHANGED <<file, phase, cur, gen, stamp, now, got, overtaken>>

\* Faulty variant: the generation is not bumped.
Publishes_SameGen(t) ==
  /\ pc[t] = "stamp"
  /\ stamp' = disk
  /\ failed' = -1
  /\ cur' = got[t]
  /\ overtaken' = (disk # got[t])
  /\ writer' = Nobody
  /\ Goto(t, "ready")
  /\ UNCHANGED <<file, phase, gen, now, got>>

\* The stamp is taken now, after the read, and published with what was read.
Publishes(t) ==
  /\ pc[t] = "stamp"
  /\ stamp' = disk
  /\ failed' = -1
  /\ cur' = got[t]
  /\ gen' = gen + 1
  /\ overtaken' = (disk # got[t])
  /\ writer' = Nobody
  /\ Goto(t, "ready")
  /\ UNCHANGED <<file, phase, now, got>>

\* The caller reads the catalog under RLock and returns; its locals are gone.
Answers(t) ==
  /\ pc[t] = "ready"
  /\ Unlocked
  /\ Goto(t, "idle")
  /\ now' = [now EXCEPT ![t] = 0]
  /\ got' = [got EXCEPT ![t] = 0]
  /\ UNCHANGED <<file, phase, store, writer, overtaken>>

Reload(t) == Compares(t) \/ Locks(t) \/ Reads(t) \/ ReadFails(t) \/ Publishes(t)

Started == NewReads \/ NewStamps

Next == \/ Editor \/ Started
        \/ \E t \in Threads : Stats(t) \/ Reload(t) \/ Answers(t)

Spec == Init /\ [][Next]_catalogVars

(* Every goroutine that can run is run, and a sync.RWMutex lets nobody        *)
(* starve.  Nothing is assumed of the editor, nor that there are requests:    *)
(* what the page polls, the table of sessions, does not look at the catalog.  *)
Fairness ==
  /\ WF_catalogVars(Started)
  /\ \A t \in Threads :
       /\ SF_catalogVars(Compares(t)) /\ SF_catalogVars(Locks(t))
       /\ WF_catalogVars(Reads(t) \/ ReadFails(t)) /\ WF_catalogVars(Publishes(t))
       /\ SF_catalogVars(Answers(t))

FairSpec == Spec /\ Fairness

-----------------------------------------------------------------------------
(* Properties.                                                                *)

StampTrue ==
  Unlocked /\ phase = "up" /\ disk \in good /\ stamp = disk => cur = disk

\* The comment of reloadIfChanged: if the file changed while it was being read,
\* the next request picks the newer content up, so that after a reload (New
\* leaves gen at 2 or less) the stamp of the file in place is never recorded
\* for an older catalog.  The code does not keep this.
StampMeansLoaded == gen > 2 => StampTrue

\* It does whenever the file did not change in that short time: no failure, no
\* deletion, no half-written file and no race of two requests makes the store
\* take an edition for loaded that is not.
StampMeansLoadedUnlessOvertaken == ~overtaken => StampTrue

\* A request never takes the store back to an edition older than one that was
\* loaded before, and what it loads is whole and valid.
NeverRollsBack ==
  [][cur' # cur => cur' > cur /\ cur' \in good]_cur

\* Every call of the catalog returns: no early return keeps the lock.
CallsReturn == \A t \in Threads : pc[t] # "idle" ~> pc[t] = "idle"

\* The first request that finds a valid file which stays in place has it loaded,
\* however many half-written or invalid states of it were met before: failures
\* are retried.
LoadedInTheEnd ==
  \A t \in Threads, e \in 1..(MaxEdits + 1) :
    (pc[t] = "compare" /\ now[t] = e /\ disk = e /\ e \in good)
      ~> (cur = e \/ disk # e \/ overtaken)

=============================================================================
