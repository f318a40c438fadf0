------------------------------ MODULE Recents ------------------------------
(* recents.Store: the history of launched directories, kept in one file that  *)
(* every Add reads, rewrites in place and leaves for the next run of the      *)
(* launcher.  The file is whole, a list of directories, or Torn: emptied or   *)
(* cut off by a write that has not finished or never will.                    *)
EXTENDS Naturals, SequencesExt, FiniteSetsExt

CONSTANTS Threads,  \* goroutines that serve requests
          Nobody,   \* who holds a free lock
          Dirs,     \* directories, as text
          Torn,     \* a file that does not parse
          Cap       \* cap_

ASSUME RecentsAssumption ==
  /\ Nobody \notin Threads
  /\ Torn \notin Seq(Dirs)
  /\ Cap \in Nat \ {0}

VARIABLES
  file,   \* recents.json; <<>> if there is none
  mu,     \* the goroutine that holds Store.mu
  adding, \* adding[t]: "no", or in Add "read" (the list is made up) or "torn"
          \* (inside WriteFile)
  next,   \* next[t]: Add's `next`
  adds,   \* history: the directories added, in order, since the history was
          \* last lost to a fault
  basis   \* history: what `adds` becomes with the write under way

recentsVars == <<file, mu, adding, next, adds, basis>>

-----------------------------------------------------------------------------

RecentsTypeOK ==
  /\ file = Torn \/ file \in Seq(Dirs)
  /\ mu \in Threads \cup {Nobody}
  /\ adding \in [Threads -> {"no", "read", "torn"}]
  /\ next \in [Threads -> Seq(Dirs)]
  /\ adds \in Seq(Dirs) /\ basis \in Seq(Dirs)
  /\ \A t \in Threads : adding[t] # "no" <=> mu = t

RecentsInit ==
  /\ file = <<>> /\ mu = Nobody
  /\ adding = [t \in Threads |-> "no"]
  /\ next = [t \in Threads |-> <<>>]
  /\ adds = <<>> /\ basis = <<>>

\* read: what cannot be parsed is no history.
Readable == IF file = Torn THEN <<>> ELSE file

FirstOf(s, n) == SubSeq(s, 1, Min({n, Len(s)}))

\* Faulty variant: a directory that is launched again is listed twice.
ToFront_Twice(d, list) == FirstOf(<<d>> \o list, Cap)

\* Add's loop: `next` when it has seen the first i entries of the list.
Collected(d, list) ==
  LET upTo[i \in 0..Len(list)] ==
        IF i = 0 THEN <<d>>
        ELSE IF list[i] = d THEN upTo[i - 1]
        ELSE Append(upTo[i - 1], list[i])
  IN upTo[Len(list)]

\* And its cut.
ToFront(d, list) == FirstOf(Collected(d, list), Cap)

-----------------------------------------------------------------------------

Unheld == mu = Nobody

\* Add locks and reads.  A read that fails (too many open files, say) is taken
\* for an empty history, and the write that follows makes it one.
AddReads(t, d) ==
  /\ Unheld
  /\ mu' = t
  /\ adding' = [adding EXCEPT ![t] = "read"]
  /\ \E failed \in BOOLEAN :
       /\ next' = [next EXCEPT ![t] = ToFront(d, IF failed THEN <<>> ELSE Readable)]
       /\ basis' = IF failed THEN <<d>> ELSE Append(adds, d)
  /\ UNCHANGED <<file, adds>>

\* Add unlocks; its local is gone.
AddReturns(t) ==
  /\ mu' = Nobody
  /\ adding' = [adding EXCEPT ![t] = "no"]
  /\ next' = [next EXCEPT ![t] = <<>>]
  /\ basis' = <<>>

\* Faulty variant: the early return keeps the lock.
AddGivesUp_KeepsLock(t) ==
  /\ adding[t] = "read"
  /\ adding' = [adding EXCEPT ![t] = "no"]
  /\ next' = [next EXCEPT ![t] = <<>>]
  /\ basis' = <<>>
  /\ UNCHANGED <<file, mu, adds>>

\* MkdirAll fails: nothing is written.
AddGivesUp(t) ==
  /\ adding[t] = "read"
  /\ AddReturns(t)
  /\ UNCHANGED <<file, adds>>

\* WriteFile empties the file first.
Truncates(t) ==
  /\ adding[t] = "read"
  /\ file' = Torn
  /\ adding' = [adding EXCEPT ![t] = "torn"]
  /\ UNCHANGED <<mu, next, adds, basis>>

Writes(t) ==
  /\ adding[t] = "torn"
  /\ file' = next[t]
  /\ adds' = basis
  /\ AddReturns(t)

\* The disk is full: WriteFile's error is dropped, the file stays torn.
WriteFails(t) ==
  /\ adding[t] = "torn"
  /\ adds' = <<>>
  /\ AddReturns(t)
  /\ UNCHANGED file

AddStep(t) == AddGivesUp(t) \/ Truncates(t) \/ Writes(t) \/ WriteFails(t)

\* The launcher dies, in the middle of a write or not, and is started again.
RecentsRestart ==
  /\ adds' = IF file = Torn THEN <<>> ELSE adds
  /\ mu' = Nobody
  /\ adding' = [t \in Threads |-> "no"]
  /\ next' = [t \in Threads |-> <<>>]
  /\ basis' = <<>>
  /\ UNCHANGED file

-----------------------------------------------------------------------------
(* Properties.                                                                *)

LastUse(d, used) == Max({i \in DOMAIN used : used[i] = d})

\* The reference: the last Cap directories used, the one used last first and
\* none of them twice.
IsHistory(list, used) ==
  /\ Len(list) = Min({Cap, Cardinality(ToSet(used))})
  /\ ToSet(list) \subseteq ToSet(used)
  /\ \A i, j \in DOMAIN list :
       i < j => LastUse(list[i], used) > LastUse(list[j], used)
  /\ \A d \in ToSet(used) \ ToSet(list), e \in ToSet(list) :
       LastUse(e, used) > LastUse(d, used)

\* The history is persistent: whoever reads it finds the last Cap directories
\* launched, most recent first and without duplicates, however Adds of several
\* requests race and wherever the launcher is stopped, except that a crash or
\* a full disk inside WriteFile, or a read that fails, starts it anew.
HistoryKept == Unheld => IsHistory(Readable, adds)

=============================================================================
