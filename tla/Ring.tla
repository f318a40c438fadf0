-------------------------------- MODULE Ring --------------------------------
(* The ring of internal/nodes and internal/server: launchers that list one    *)
(* another as followers, and one open page, served by the launcher Here.  The *)
(* page polls the table of sessions, which Here gathers from every launcher   *)
(* of its ring; it launches on the host its form selects, and kills the       *)
(* session of a row of its table.                                             *)
(*                                                                            *)
(* A launcher is the only authority for its sessions, here a set of ids (see  *)
(* Manager).  A call over HTTP is a step of the callee, unless the caller     *)
(* gives up first; a read that is served too late leaves no trace, a launch   *)
(* or a kill that is served too late still takes place.                       *)
EXTENDS Naturals

CONSTANTS Nodes,         \* launchers; ids are unique in every ring
          Here,          \* the launcher that serves the page
          Leaders,       \* launchers whose role is leader
          Listed,        \* Listed[n]: the ids in CLAUDE_LAUNCHER_FOLLOWERS at n
          Sessions,      \* ids that newID may return; each is used once
          FanoutTimeout, ProxyTimeout, PollInterval  \* seconds

ASSUME RingAssumption ==
  /\ Here \in Nodes
  /\ Leaders \subseteq Nodes
  /\ Listed \in [Nodes -> SUBSET Nodes]
  /\ Sessions # {}
  /\ {FanoutTimeout, ProxyTimeout, PollInterval} \subseteq Nat

VARIABLES
  up,       \* launchers that run and can be reached
  store,    \* store[n]: the sessions of n
  used,     \* ids that have been given out
  late,     \* launches and kills whose caller gave up before they were served
  onward,   \* onward[n]: launchers that n has asked to answer a peer's query
  since,    \* seconds since the page polled
  form,     \* the host that the form selects
  table,    \* the rows that the page shows, each with its node
  stage,    \* stage[r]: "idle", "asking", and for a launch or kill before that
            \* "sent", "served" or "gaveup"
  pending,  \* pending[r]: followers that have not answered r's query yet
  heard,    \* heard[r]: launchers whose sessions are in rows[r]
  rows,     \* rows[r]: the answer that r builds
  goal,     \* the launch or kill under way, or the last one
  outcome   \* and what has become of it

requestVars == <<stage, pending, heard, rows>>
orderVars == <<late, goal, outcome>>
pageVars == <<since, form, table>>
vars == <<up, store, used, onward, orderVars, pageVars, requestVars>>

-----------------------------------------------------------------------------

\* What the page may have under way at one time: its poll and one click.
Requests == {"poll", "click"}

Rows == Nodes \X Sessions

RowsOf(n) == {n} \X store[n]

\* Faulty variant: a launcher that lists itself is its own follower.
Followers_SelfToo == [n \in Nodes |-> IF n \in Leaders THEN Listed[n] ELSE {}]

\* nodes.New: a launcher that lists itself is no follower of its own.
Followers == [n \in Nodes |-> IF n \in Leaders THEN Listed[n] \ {n} ELSE {}]

\* nodes.Ring.All of Here, and so what Get can resolve.
Ring == {Here} \cup Followers[Here]

Orders == [kind : {"launch", "kill"}, node : Ring, id : Sessions]

RingTypeOK ==
  /\ up \subseteq Nodes /\ store \in [Nodes -> SUBSET Sessions] /\ used \subseteq Sessions
  /\ late \subseteq Orders /\ onward \in [Nodes -> SUBSET Nodes]
  /\ since \in 0..PollInterval /\ form \in Ring /\ table \subseteq Rows
  /\ stage \in [Requests -> {"idle", "sent", "served", "gaveup", "asking"}]
  /\ pending \in [Requests -> SUBSET Followers[Here]]
  /\ heard \in [Requests -> SUBSET Ring] /\ rows \in [Requests -> SUBSET Rows]
  /\ \A r \in Requests : stage[r] = "asking" => pending[r] \cap heard[r] = {}
  /\ \A r \in Requests : rows[r] \subseteq heard[r] \X used
  /\ goal \in Orders
  /\ outcome \in {"none", "ok", "refused", "notfound", "unreachable"}

Init ==
  /\ up \in {u \in SUBSET Nodes : Here \in u}
  /\ store = [n \in Nodes |-> {}] /\ used = {}
  /\ late = {} /\ onward = [n \in Nodes |-> {}]
  /\ since = 0 /\ form = Here /\ table = {}
  /\ stage = [r \in Requests |-> "idle"]
  /\ pending = [r \in Requests |-> {}]
  /\ heard = [r \in Requests |-> {}]
  /\ rows = [r \in Requests |-> {}]
  /\ goal = [kind |-> "kill", node |-> Here, id |-> CHOOSE s \in Sessions : TRUE]
  /\ outcome = "none"

-----------------------------------------------------------------------------
(* allSessions, on behalf of r.                                               *)

\* Faulty variant: FanoutHeader is not looked at.
Queried_IgnoresHeader(n, fannedOut) == Followers[n]

\* Whom n asks: nobody, if it is asked by a peer that fans out itself.
Queried(n, fannedOut) == IF fannedOut THEN {} ELSE Followers[n]

\* The local rows, and a query to each follower.
FansOut(r) ==
  /\ stage' = [stage EXCEPT ![r] = "asking"]
  /\ pending' = [pending EXCEPT ![r] = Queried(Here, FALSE)]
  /\ heard' = [heard EXCEPT ![r] = {Here}]
  /\ rows' = [rows EXCEPT ![r] = RowsOf(Here)]

\* Follower m answers with its own sessions.
ServesQuery(r, m) ==
  /\ m \in pending[r] \cap up
  /\ pending' = [pending EXCEPT ![r] = @ \ {m}]
  /\ heard' = [heard EXCEPT ![r] = @ \cup {m}]
  /\ rows' = [rows EXCEPT ![r] = @ \cup RowsOf(m)]
  /\ onward' = [onward EXCEPT ![m] = @ \cup Queried(m, TRUE)]
  /\ UNCHANGED <<up, store, used, orderVars, pageVars, stage>>

\* Faulty variant: a query may take as long as other calls.
TimeIsUp_Proxy(r) == r = "poll" => since >= ProxyTimeout

\* A poll's queries go out as it starts; a click is not timed here.
TimeIsUp(r) == r = "poll" => since >= FanoutTimeout

\* Faulty variant: the rows last seen stand in for an answer.
QueryFails_Cached(r, m) ==
  /\ m \in pending[r]
  /\ m \notin up \/ TimeIsUp(r)
  /\ pending' = [pending EXCEPT ![r] = @ \ {m}]
  /\ heard' = [heard EXCEPT ![r] = @ \cup {m}]
  /\ rows' = [rows EXCEPT ![r] = @ \cup {row \in table : row[1] = m}]
  /\ UNCHANGED <<up, store, used, onward, orderVars, pageVars, stage>>

\* No connection, a timeout, or an error: m is omitted.
QueryFails(r, m) ==
  /\ m \in pending[r]
  /\ m \notin up \/ TimeIsUp(r)
  /\ pending' = [pending EXCEPT ![r] = @ \ {m}]
  /\ UNCHANGED <<up, store, used, onward, orderVars, pageVars, stage, heard, rows>>

\* Faulty variant: the table waits for everybody.
Gathered_All(r) == heard[r] = Ring

\* wg.Wait.
Gathered(r) == pending[r] = {}

\* The page swaps the table in; nothing orders the answers of two requests.
Answers(r) ==
  /\ stage[r] = "asking"
  /\ Gathered(r)
  /\ table' = rows[r]
  /\ stage' = [stage EXCEPT ![r] = "idle"]
  /\ heard' = [heard EXCEPT ![r] = {}]
  /\ rows' = [rows EXCEPT ![r] = {}]
  /\ UNCHANGED <<up, store, used, onward, orderVars, since, form, pending>>

-----------------------------------------------------------------------------
(* The poll, every PollInterval seconds.  Time does not pass a timeout that   *)
(* is due.                                                                    *)

Tick ==
  /\ since < PollInterval
  /\ ~(stage["poll"] = "asking" /\ (TimeIsUp("poll") \/ Gathered("poll")))
  /\ since' = since + 1
  /\ UNCHANGED <<up, store, used, onward, orderVars, form, table, requestVars>>

Polls ==
  /\ since = PollInterval
  /\ stage["poll"] = "idle"
  /\ since' = 0
  /\ FansOut("poll")
  /\ UNCHANGED <<up, store, used, onward, orderVars, form, table>>

-----------------------------------------------------------------------------
(* spawnOn and removeOn: in-process for Here, sendJSON to a follower.         *)

Selects(n) ==
  /\ form # n
  /\ form' = n
  /\ UNCHANGED <<up, store, used, onward, orderVars, since, table, requestVars>>

Sends(order) ==
  /\ stage["click"] = "idle"
  /\ stage' = [stage EXCEPT !["click"] = "sent"]
  /\ goal' = order
  /\ outcome' = "none"
  /\ UNCHANGED <<up, store, onward, late, pageVars, pending, heard, rows>>

\* uiLaunch.
Launches(s) ==
  /\ s \notin used
  /\ used' = used \cup {s}
  /\ Sends([kind |-> "launch", node |-> form, id |-> s])

\* Faulty variant: a kill goes to the host that the form selects.
KillTarget_Form(row) == form

\* The row carries its node.
KillTarget(row) == row[1]

\* uiKill.
Kills(row) ==
  /\ row \in table
  /\ Sends([kind |-> "kill", node |-> KillTarget(row), id |-> row[2]])
  /\ UNCHANGED used

\* Spawn on the launcher named, which may refuse.
Spawned(order, result) ==
  /\ order.kind = "launch"
  /\ \/ /\ result = "ok"
        /\ store' = [store EXCEPT ![order.node] = @ \cup {order.id}]
     \/ result = "refused" /\ UNCHANGED store

\* Remove.
Removed(order, result) ==
  /\ order.kind = "kill"
  /\ result = IF order.id \in store[order.node] THEN "ok" ELSE "notfound"
  /\ store' = [store EXCEPT ![order.node] = @ \ {order.id}]

Serves ==
  /\ stage["click"] = "sent"
  /\ goal.node \in up
  /\ \E result \in {"ok", "refused", "notfound"} :
       /\ Spawned(goal, result) \/ Removed(goal, result)
       /\ outcome' = result
  /\ stage' = [stage EXCEPT !["click"] = "served"]
  /\ UNCHANGED <<up, used, onward, late, goal, pageVars, pending, heard, rows>>

\* proxyTimeout is over or the follower is down; the call may have been served.
GivesUp ==
  /\ stage["click"] \in {"sent", "served"}
  /\ goal.node # Here
  /\ late' = IF stage["click"] = "sent" THEN late \cup {goal} ELSE late
  /\ stage' = [stage EXCEPT !["click"] = "gaveup"]
  /\ outcome' = "unreachable"
  /\ UNCHANGED <<up, store, used, onward, goal, pageVars, pending, heard, rows>>

ServesLate(order) ==
  /\ order.node \in up
  /\ \E result \in {"ok", "refused", "notfound"} :
       Spawned(order, result) \/ Removed(order, result)
  /\ late' = late \ {order}
  /\ UNCHANGED <<up, used, onward, goal, outcome, pageVars, requestVars>>

\* uiLaunch and uiKill go on to the table once the call has returned.
Refreshes ==
  /\ stage["click"] \in {"served", "gaveup"}
  /\ FansOut("click")
  /\ UNCHANGED <<up, store, used, onward, orderVars, pageVars>>

-----------------------------------------------------------------------------
(* The rest of the world: followers that crash, restart or drop off, and      *)
(* other pages.                                                               *)

Crash(m) ==
  /\ m \in up \ {Here}
  /\ up' = up \ {m}
  /\ store' = [store EXCEPT ![m] = {}]
  /\ UNCHANGED <<used, onward, orderVars, pageVars, requestVars>>

Restart(m) ==
  /\ m \notin up
  /\ up' = up \cup {m}
  /\ UNCHANGED <<store, used, onward, orderVars, pageVars, requestVars>>

OtherPageLaunches(m, s) ==
  /\ m \in up
  /\ s \notin used
  /\ used' = used \cup {s}
  /\ store' = [store EXCEPT ![m] = @ \cup {s}]
  /\ UNCHANGED <<up, onward, orderVars, pageVars, requestVars>>

OtherPageKills(m, s) ==
  /\ s \in store[m]
  /\ store' = [store EXCEPT ![m] = @ \ {s}]
  /\ UNCHANGED <<up, used, onward, orderVars, pageVars, requestVars>>

-----------------------------------------------------------------------------

Gather(r, m) == ServesQuery(r, m) \/ QueryFails(r, m)

World == \E m \in Nodes : \/ Crash(m) \/ Restart(m)
                          \/ \E s \in Sessions : \/ OtherPageLaunches(m, s)
                                                 \/ OtherPageKills(m, s)

Next ==
  \/ Tick \/ Polls
  \/ \E r \in Requests : Answers(r) \/ \E m \in Followers[Here] : Gather(r, m)
  \/ \E n \in Ring : Selects(n)
  \/ \E s \in Sessions : Launches(s)
  \/ \E row \in table : Kills(row)
  \/ Serves \/ GivesUp \/ Refreshes
  \/ \E order \in late : ServesLate(order)
  \/ World

Spec == Init /\ [][Next]_vars

\* The clock runs, the page polls, and every goroutine of Here that can run is
\* run.  Nothing is assumed of users, of followers or of the network.
Fairness ==
  /\ WF_vars(Tick) /\ WF_vars(Polls)
  /\ \A r \in Requests :
       WF_vars(Answers(r)) /\ \A m \in Followers[Here] : WF_vars(Gather(r, m))

FairSpec == Spec /\ Fairness

-----------------------------------------------------------------------------
(* Properties.                                                                *)

\* Polls do not pile up, on a dead follower or among launchers that list one
\* another: when the next one is due, the last one has been answered, and no
\* launcher that was asked has asked others in its turn.
PollsDoNotPileUp ==
  since = PollInterval =>
    stage["poll"] = "idle" /\ \A n \in Nodes : onward[n] = {}

\* A kill that is answered "not found" is one of a session that is not there
\* any more: it was not looked for on the wrong machine.
NotFoundIsGone ==
  outcome = "notfound" => \A n \in Nodes : goal.id \notin store[n]

\* The table that comes back with a successful launch has the new session, that
\* of a successful kill has the session no more; unless the owner did not answer
\* or somebody else removed it meanwhile.
RefreshShowsIt ==
  [][stage["click"] = "asking" /\ stage'["click"] = "idle" /\ outcome = "ok" =>
       LET row == <<goal.node, goal.id>>
       IN IF goal.kind = "kill" THEN row \notin table'
          ELSE row \in table' \/ goal.node \notin heard["click"]
                              \/ goal.id \notin store[goal.node]]_vars

Shown(s) == \E n \in Nodes : <<n, s>> \in table

Gone(s) == s \in used /\ ~\E n \in Nodes : s \in store[n]

\* What is gone disappears from the table for good, although an answer may come
\* late and although its owner may be unreachable.
StaleRowsVanish ==
  \A s \in Sessions : Gone(s) ~> ([](~Shown(s)) \/ ~Gone(s))

\* The sessions of a launcher that goes on answering polls reach the page, those
\* of Here whatever the followers do: a follower that is dead or slow hides no
\* rows but its own, and a launch that was reported as unreachable and took
\* place all the same comes to light, to be killed or kept.
RowsComeUp ==
  \A m \in Ring, s \in Sessions :
    []<>(m \in heard["poll"]) =>
      (s \in store[m] ~> (Shown(s) \/ s \notin store[m]))

=============================================================================
