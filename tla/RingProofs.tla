----------------------------- MODULE RingProofs -----------------------------
(* What holds of Ring for any launchers, sessions and timeouts.               *)
EXTENDS Ring, TLAPS

-----------------------------------------------------------------------------
(* The inductive invariants.                                                  *)

\* The poll's queries are over in time, and nobody asks on.
Timed ==
  /\ stage["poll"] \in {"idle", "asking"}
  /\ stage["poll"] = "asking" => since <= FanoutTimeout
  /\ \A n \in Nodes : onward[n] = {}

\* Only ids that have been given out are anywhere.
AllUsed ==
  /\ \A n \in Nodes : store[n] \subseteq used
  /\ table \subseteq Ring \X used
  /\ \A o \in late : o.id \in used
  /\ stage["click"] # "idle" \/ outcome # "none" => goal.id \in used

\* s was seen on n.
At(n, s) == s \in store[n] \/ <<n, s>> \in table \/ \E r \in Requests : <<n, s>> \in rows[r]

\* An order that has been given, the one of the page or an earlier one.
Given(o) == o \in late \/ (o = goal /\ (stage["click"] # "idle" \/ outcome # "none"))

\* A launch that may still take place.
Due(o) == o.kind = "launch" /\ (o \in late \/ (o = goal /\ stage["click"] = "sent"))

\* Every session has one home, where its kill is sent, and a launch takes place
\* once.
OneHome ==
  /\ \A n, m \in Nodes, s \in Sessions : At(n, s) /\ At(m, s) => n = m
  /\ \A o \in Orders : Given(o) /\ o.kind = "kill" =>
       \A n \in Nodes : At(n, o.id) => n = o.node
  /\ \A o \in Orders : Due(o) => \A n \in Nodes : ~At(n, o.id)
  /\ \A o, p \in Orders : Due(o) /\ Given(p) /\ o.id = p.id => p.kind = "launch"
  /\ \A o, p \in Orders : Due(o) /\ Due(p) /\ o.id = p.id => o = p

\* The page's order is not served twice.
ServedOnce ==
  /\ stage["click"] = "sent" => outcome = "none" /\ (goal.kind = "launch" => goal \notin late)
  /\ outcome = "ok" /\ goal.kind = "launch" => \A o \in Orders : Due(o) => o.id # goal.id

\* What became of the page's order shows in the answers gathered since.
Settled ==
  /\ outcome = "notfound" => goal.kind = "kill"
  /\ outcome \in {"ok", "notfound"} /\ goal.kind = "kill" =>
       \A n \in Nodes : goal.id \notin store[n]
  /\ stage["click"] = "asking" /\ outcome = "ok" =>
       IF goal.kind = "kill" THEN <<goal.node, goal.id>> \notin rows["click"]
       ELSE \/ <<goal.node, goal.id>> \in rows["click"]
            \/ goal.node \notin heard["click"]
            \/ goal.id \notin store[goal.node]

RingInv == RingTypeOK /\ AllUsed /\ OneHome /\ ServedOnce /\ Settled

-----------------------------------------------------------------------------

LEMMA RingFacts ==
  /\ Here \in Nodes /\ Here \in Ring /\ Ring \subseteq Nodes
  /\ Followers[Here] \subseteq Ring \ {Here}
  /\ FanoutTimeout \in Nat /\ PollInterval \in Nat
  /\ "poll" \in Requests /\ "click" \in Requests /\ "poll" # "click"
BY RingAssumption DEF Ring, Followers, Requests

\* The clock and the poll.
LEMMA TimedStep ==
  ASSUME FanoutTimeout < PollInterval, RingTypeOK, Timed, [Next]_vars
  PROVE  Timed'
<1> USE RingFacts DEF RingTypeOK, Timed
<1>1. CASE Tick
  BY <1>1 DEF Tick, requestVars, TimeIsUp
<1>2. CASE Polls
  BY <1>2 DEF Polls, FansOut
<1>3. ASSUME NEW r \in Requests, Answers(r) PROVE Timed'
  BY <1>3 DEF Answers, Requests
<1>4. ASSUME NEW r \in Requests, NEW m \in Followers[Here], Gather(r, m) PROVE Timed'
  BY <1>4 DEF Gather, ServesQuery, QueryFails, pageVars, Queried
<1>5. CASE (\E n \in Ring : Selects(n)) \/ (\E order \in late : ServesLate(order)) \/ World
  BY <1>5 DEF Selects, ServesLate, World, Crash, Restart, OtherPageLaunches,
     OtherPageKills, requestVars, pageVars
<1>6. CASE (\E s \in Sessions : Launches(s)) \/ (\E row \in table : Kills(row))
  BY <1>6 DEF Launches, Kills, Sends, pageVars
<1>7. CASE Serves \/ GivesUp \/ Refreshes
  BY <1>7 DEF Serves, GivesUp, Refreshes, FansOut, pageVars
<1>8. CASE UNCHANGED vars
  BY <1>8 DEF vars, requestVars, pageVars
<1> QED
  BY <1>1, <1>2, <1>3, <1>4, <1>5, <1>6, <1>7, <1>8 DEF Next

\* Rows of a launcher.
LEMMA RowsAreUsed ==
  ASSUME RingTypeOK, AllUsed, NEW n \in Nodes
  PROVE  RowsOf(n) \subseteq {n} \X used /\ RowsOf(n) \subseteq Rows
BY DEF RingTypeOK, AllUsed, RowsOf, Rows

\* Type correctness.
LEMMA RingTypeStep ==
  ASSUME RingTypeOK, AllUsed, [Next]_vars
  PROVE  RingTypeOK' /\ AllUsed'
<1> USE RingFacts DEF RingTypeOK, AllUsed
<1>1. CASE Tick
  BY <1>1 DEF Tick, requestVars, orderVars
<1>2. ASSUME NEW r \in Requests, FansOut(r),
             UNCHANGED <<up, store, used, onward, orderVars, form, table>>,
             since' \in 0..PollInterval, r = "poll" \/ stage["click"] # "idle"
      PROVE  RingTypeOK' /\ AllUsed'
  <2>1. RowsOf(Here) \subseteq {Here} \X used /\ RowsOf(Here) \subseteq Rows
    BY RowsAreUsed
  <2>2. stage' = [stage EXCEPT ![r] = "asking"]
    BY <1>2 DEF FansOut
  <2>3. pending' = [pending EXCEPT ![r] = Followers[Here]]
    BY <1>2 DEF FansOut, Queried
  <2>4. heard' = [heard EXCEPT ![r] = {Here}]
    BY <1>2 DEF FansOut
  <2>5. rows' = [rows EXCEPT ![r] = RowsOf(Here)]
    BY <1>2 DEF FansOut
  <2>6. /\ pending' \in [Requests -> SUBSET Followers[Here]]
        /\ heard' \in [Requests -> SUBSET Ring] /\ rows' \in [Requests -> SUBSET Rows]
    BY <2>1, <2>3, <2>4, <2>5
  <2>7. \A q \in Requests : stage'[q] = "asking" => pending'[q] \cap heard'[q] = {}
    BY <2>2, <2>3, <2>4
  <2>8. \A q \in Requests : rows'[q] \subseteq heard'[q] \X used
    BY <2>1, <2>4, <2>5
  <2>9. stage'["click"] # "idle" => stage["click"] # "idle"
    BY <1>2, <2>2
  <2>10. stage' \in [Requests -> {"idle", "sent", "served", "gaveup", "asking"}]
    BY <2>2
  <2>11. UNCHANGED <<up, store, used, onward, form, table, late, goal, outcome>>
    BY <1>2 DEF orderVars
  <2>12. RingTypeOK'
    BY <1>2, <2>6, <2>7, <2>8, <2>10, <2>11
  <2>13. AllUsed'
    BY <2>9, <2>11
  <2> QED
    BY <2>12, <2>13
<1>3. ASSUME NEW r \in Requests, Answers(r) PROVE RingTypeOK' /\ AllUsed'
  <2>1. rows[r] \subseteq Ring \X used /\ rows[r] \subseteq Rows
    OBVIOUS
  <2> QED
    BY <1>3, <2>1 DEF Answers, orderVars
<1>4. ASSUME NEW r \in Requests, NEW m \in Followers[Here], ServesQuery(r, m)
      PROVE  RingTypeOK' /\ AllUsed'
  <2>1. /\ RowsOf(m) \subseteq {m} \X used /\ RowsOf(m) \subseteq Rows
        /\ m \in Ring /\ m \in pending[r]
    BY <1>4, RowsAreUsed DEF ServesQuery
  <2>2. /\ pending' = [pending EXCEPT ![r] = pending[r] \ {m}]
        /\ heard' = [heard EXCEPT ![r] = heard[r] \cup {m}]
        /\ rows' = [rows EXCEPT ![r] = rows[r] \cup RowsOf(m)]
        /\ onward' = [onward EXCEPT ![m] = onward[m]]
        /\ UNCHANGED <<up, store, used, orderVars, pageVars, stage>>
    BY <1>4 DEF ServesQuery, Queried
  <2>3. /\ pending' \in [Requests -> SUBSET Followers[Here]]
        /\ heard' \in [Requests -> SUBSET Ring] /\ rows' \in [Requests -> SUBSET Rows]
    BY <2>1, <2>2
  <2>4. \A q \in Requests : stage[q] = "asking" => pending'[q] \cap heard'[q] = {}
    BY <2>2
  <2>5. \A q \in Requests : rows'[q] \subseteq heard'[q] \X used
    BY <2>1, <2>2
  <2> QED
    BY <2>2, <2>3, <2>4, <2>5 DEF orderVars, pageVars
<1>5. ASSUME NEW r \in Requests, NEW m \in Followers[Here], QueryFails(r, m)
      PROVE  RingTypeOK' /\ AllUsed'
  BY <1>5 DEF QueryFails, pageVars, orderVars
<1>6. CASE (\E n \in Ring : Selects(n)) \/ (\E order \in late : ServesLate(order))
  BY <1>6 DEF Selects, ServesLate, Spawned, Removed, requestVars, pageVars, orderVars, Orders
<1>7. CASE World
  BY <1>7 DEF World, Crash, Restart, OtherPageLaunches, OtherPageKills,
     requestVars, pageVars, orderVars
<1>8. ASSUME NEW s \in Sessions, Launches(s) PROVE RingTypeOK' /\ AllUsed'
  <2>1. [kind |-> "launch", node |-> form, id |-> s] \in Orders
    BY DEF Orders
  <2> QED
    BY <1>8, <2>1 DEF Launches, Sends, pageVars
<1>9. ASSUME NEW row \in table, Kills(row) PROVE RingTypeOK' /\ AllUsed'
  <2>1. row[1] \in Ring /\ row[2] \in used /\ row[2] \in Sessions
    BY DEF Rows
  <2>2. [kind |-> "kill", node |-> row[1], id |-> row[2]] \in Orders
    BY <2>1 DEF Orders
  <2> QED
    BY <1>9, <2>1, <2>2 DEF Kills, KillTarget, Sends, pageVars
<1>10. CASE Serves \/ GivesUp
  BY <1>10 DEF Serves, GivesUp, Spawned, Removed, pageVars, Orders
<1>11. CASE UNCHANGED vars
  BY <1>11 DEF vars, requestVars, pageVars, orderVars
<1>12. CASE Polls
  BY <1>2, <1>12 DEF Polls
<1>13. CASE Refreshes
  BY <1>2, <1>13 DEF Refreshes, pageVars
<1> QED
  BY <1>1, <1>3, <1>4, <1>5, <1>6, <1>7, <1>8, <1>9, <1>10, <1>11, <1>12, <1>13
     DEF Next, Gather

-----------------------------------------------------------------------------
(* One home per session.                                                      *)

\* A step that shows, orders and delays nothing new.
NothingNew ==
  /\ \A n \in Nodes, s \in Sessions : At(n, s)' => At(n, s)
  /\ \A o \in Orders : (Given(o)' => Given(o)) /\ (Due(o)' => Due(o))

LEMMA NothingNewKeepsHome ==
  ASSUME OneHome, NothingNew
  PROVE  OneHome'
BY DEF OneHome, NothingNew, Orders

\* A launch that takes place gives its session the one home it has.
LEMMA LaunchKeepsHome ==
  ASSUME OneHome, NEW order \in Orders, Due(order),
         \A n \in Nodes, s \in Sessions :
           At(n, s)' => At(n, s) \/ (n = order.node /\ s = order.id),
         \A o \in Orders : (Given(o)' => Given(o)) /\ (Due(o)' => Due(o) /\ o # order)
  PROVE  OneHome'
BY DEF OneHome, Orders

\* A kill or a launch of the page, and where it leads.
LEMMA SendsKeepsHome ==
  ASSUME OneHome, NEW order \in Orders, ~Given(order) \/ order.kind = "kill",
         \A n \in Nodes, s \in Sessions : At(n, s)' => At(n, s),
         \A o \in Orders : Given(o)' => Given(o) \/ o = order,
         \A o \in Orders : Due(o)' => Due(o) \/ (o = order /\ o.kind = "launch"),
         order.kind = "launch" =>
           /\ \A n \in Nodes : ~At(n, order.id)
           /\ \A o \in Orders : Given(o) \/ Due(o) => o.id # order.id,
         order.kind = "kill" => At(order.node, order.id)
  PROVE  OneHome'
BY RingFacts DEF OneHome, Orders

\* What has been seen or ordered has been given out.
LEMMA UsedFacts ==
  ASSUME RingTypeOK, AllUsed
  PROVE  /\ \A n \in Nodes, s \in Sessions : At(n, s) => s \in used
         /\ \A o \in Orders : Given(o) => o.id \in used
         /\ \A o \in Orders : Due(o) => Given(o)
BY RingFacts DEF RingTypeOK, AllUsed, At, Given, Due

\* The steps that give no order and start no session.
LEMMA NeutralStep ==
  ASSUME RingTypeOK,
         \/ Tick \/ Polls \/ UNCHANGED vars
         \/ \E r \in Requests : Answers(r) \/ \E m \in Followers[Here] : Gather(r, m)
         \/ \E n \in Ring : Selects(n)
         \/ GivesUp \/ Refreshes
         \/ \E m \in Nodes : Crash(m) \/ Restart(m) \/ \E s \in Sessions : OtherPageKills(m, s)
  PROVE  NothingNew
<1> USE RingFacts DEF NothingNew, RingTypeOK
<1>1. CASE Tick \/ (\E n \in Ring : Selects(n)) \/ UNCHANGED vars
  BY <1>1 DEF Tick, Selects, vars, requestVars, pageVars, orderVars, At, Given, Due
<1>2. CASE \E r \in Requests : Answers(r)
  <2>1. PICK r \in Requests : Answers(r)
    BY <1>2
  <2> QED
    BY <2>1 DEF Answers, orderVars, At, Given, Due, Requests
<1>3. CASE \E r \in Requests, m \in Followers[Here] : Gather(r, m)
  <2>1. PICK r \in Requests, m \in Followers[Here] : Gather(r, m)
    BY <1>3
  <2>2. UNCHANGED <<store, table, stage, late, goal, outcome>>
    BY <2>1 DEF Gather, ServesQuery, QueryFails, orderVars, pageVars
  <2>3. rows' = [rows EXCEPT ![r] = @ \cup RowsOf(m)] \/ rows' = rows
    BY <2>1 DEF Gather, ServesQuery, QueryFails
  <2>4. \A n \in Nodes, s \in Sessions : <<n, s>> \in RowsOf(m) => s \in store[n]
    BY DEF RowsOf
  <2> QED
    BY <2>2, <2>3, <2>4 DEF At, Given, Due
<1>4. CASE Polls \/ Refreshes
  <2>1. PICK r \in Requests : FansOut(r) /\ (r = "click" => stage["click"] # "idle")
    BY <1>4 DEF Polls, Refreshes
  <2>2. UNCHANGED <<store, table, late, goal, outcome>>
    BY <1>4 DEF Polls, Refreshes, orderVars, pageVars
  <2>3. \A q \in Requests : rows'[q] \subseteq rows[q] \cup RowsOf(Here)
    BY <2>1 DEF FansOut
  <2>4. \A n \in Nodes, s \in Sessions : <<n, s>> \in RowsOf(Here) => s \in store[n]
    BY DEF RowsOf
  <2>5. /\ stage'["click"] # "idle" => stage["click"] # "idle"
        /\ stage'["click"] = "sent" => stage["click"] = "sent"
    BY <2>1 DEF FansOut
  <2> QED
    BY <2>2, <2>3, <2>4, <2>5 DEF At, Given, Due
<1>5. CASE GivesUp
  BY <1>5 DEF GivesUp, pageVars, At, Given, Due
<1>6. ASSUME NEW m \in Nodes,
             Crash(m) \/ Restart(m) \/ \E s \in Sessions : OtherPageKills(m, s)
      PROVE  NothingNew
  BY <1>6 DEF Crash, Restart, OtherPageKills, requestVars, pageVars, orderVars, At, Given, Due
<1> QED
  BY <1>1, <1>2, <1>3, <1>4, <1>5, <1>6

\* A launch or a kill that is served, at once or late, starts its session if it
\* is a launch that succeeds and none otherwise.
LEMMA ServedStore ==
  ASSUME RingTypeOK, NEW order \in Orders, NEW result,
         Spawned(order, result) \/ Removed(order, result)
  PROVE  /\ order.kind = "kill" \/ result = "refused" =>
              \A n \in Nodes : store'[n] \subseteq store[n]
         /\ order.kind = "launch" =>
              \A n \in Nodes : store'[n] \subseteq
                store[n] \cup (IF n = order.node THEN {order.id} ELSE {})
         /\ order.kind = "kill" => order.id \notin store'[order.node]
         /\ result = "notfound" => order.kind = "kill"
         /\ result = "ok" /\ order.kind = "launch" => order.id \in store'[order.node]
         /\ order.kind \in {"launch", "kill"}
BY RingFacts DEF RingTypeOK, Spawned, Removed, Orders

LEMMA HomeStep ==
  ASSUME RingTypeOK, AllUsed, OneHome, ServedOnce, [Next]_vars
  PROVE  OneHome' /\ ServedOnce'
<1> USE RingFacts
<1>1. CASE NothingNew /\ ServedOnce'
  BY <1>1, NothingNewKeepsHome
<1>2. CASE Tick \/ (\E n \in Ring : Selects(n)) \/ UNCHANGED vars
  <2>1. NothingNew
    BY <1>2, NeutralStep
  <2>2. UNCHANGED <<stage, late, goal, outcome>>
    BY <1>2 DEF Tick, Selects, vars, requestVars, orderVars
  <2> QED
    BY <1>1, <2>1, <2>2 DEF ServedOnce, NothingNew
<1>3. CASE Polls \/ Refreshes \/ (\E r \in Requests : Answers(r))
             \/ (\E r \in Requests, m \in Followers[Here] : Gather(r, m))
  <2>1. NothingNew
    BY <1>3, NeutralStep
  <2>2. UNCHANGED <<late, goal, outcome>> /\ (stage'["click"] = "sent" => stage["click"] = "sent")
    BY <1>3 DEF Polls, Refreshes, Answers, Gather, ServesQuery, QueryFails, FansOut,
       pageVars, orderVars, RingTypeOK
  <2> QED
    BY <1>1, <2>1, <2>2 DEF ServedOnce, NothingNew
<1>4. CASE GivesUp
  <2>1. NothingNew
    BY <1>4, NeutralStep
  <2>2. stage'["click"] = "gaveup" /\ outcome' = "unreachable"
    BY <1>4 DEF GivesUp, RingTypeOK
  <2> QED
    BY <1>1, <2>1, <2>2 DEF ServedOnce
<1>5. ASSUME NEW m \in Nodes,
             Crash(m) \/ Restart(m) \/ \E s \in Sessions : OtherPageKills(m, s)
      PROVE  OneHome' /\ ServedOnce'
  <2>1. NothingNew
    BY <1>5, NeutralStep
  <2>2. UNCHANGED <<stage, late, goal, outcome>>
    BY <1>5 DEF Crash, Restart, OtherPageKills, requestVars, orderVars
  <2> QED
    BY <1>1, <2>1, <2>2 DEF ServedOnce, NothingNew
<1>6. ASSUME NEW m \in Nodes, NEW s \in Sessions, OtherPageLaunches(m, s)
      PROVE  OneHome' /\ ServedOnce'
  <2>1. s \notin used /\ UNCHANGED <<table, rows, stage, late, goal, outcome>>
    BY <1>6 DEF OtherPageLaunches, requestVars, pageVars, orderVars
  <2>2. \A n \in Nodes, t \in Sessions : At(n, t)' => At(n, t) \/ (n = m /\ t = s)
    BY <1>6, <2>1 DEF OtherPageLaunches, At, RingTypeOK
  <2>3. \A o \in Orders : (Given(o)' <=> Given(o)) /\ (Due(o)' <=> Due(o))
    BY <2>1 DEF Given, Due
  <2>4. /\ \A n \in Nodes : ~At(n, s)
        /\ \A o \in Orders : Given(o) \/ Due(o) => o.id # s
    BY <2>1, UsedFacts
  <2>5. OneHome'
    BY <2>2, <2>3, <2>4 DEF OneHome, Orders
  <2> QED
    BY <2>1, <2>3, <2>5 DEF ServedOnce
<1>7. ASSUME NEW order \in Orders, Sends(order), UNCHANGED store,
             ~Given(order) \/ order.kind = "kill",
             order.kind = "launch" => order.id \notin used,
             order.kind = "kill" => <<order.node, order.id>> \in table
      PROVE  OneHome' /\ ServedOnce'
  <2>1. /\ stage["click"] = "idle" /\ stage'["click"] = "sent"
        /\ goal' = order /\ outcome' = "none" /\ UNCHANGED <<late, table, rows>>
    BY <1>7 DEF Sends, pageVars, RingTypeOK
  <2>2. \A n \in Nodes, s \in Sessions : At(n, s)' => At(n, s)
    BY <1>7, <2>1 DEF At
  <2>3. /\ \A o \in Orders : Given(o)' => Given(o) \/ o = order
        /\ \A o \in Orders : Due(o)' => Due(o) \/ (o = order /\ o.kind = "launch")
    BY <2>1 DEF Given, Due
  <2>4. order.kind = "launch" =>
          /\ \A n \in Nodes : ~At(n, order.id)
          /\ \A o \in Orders : Given(o) \/ Due(o) => o.id # order.id
    BY <1>7, UsedFacts DEF Orders
  <2>5. order.kind = "kill" => At(order.node, order.id)
    BY <1>7 DEF At
  <2>6. OneHome'
    BY <1>7, <2>2, <2>3, <2>4, <2>5, SendsKeepsHome
  <2>7. order.kind = "launch" => order \notin late
    BY <2>4 DEF Given
  <2> QED
    BY <2>1, <2>6, <2>7 DEF ServedOnce
<1>8. ASSUME NEW s \in Sessions, Launches(s) PROVE OneHome' /\ ServedOnce'
  <2> DEFINE order == [kind |-> "launch", node |-> form, id |-> s]
  <2>1. order \in Orders /\ s \notin used /\ Sends(order) /\ UNCHANGED store
    BY <1>8 DEF Orders, Launches, Sends, RingTypeOK
  <2>2. ~Given(order)
    BY <2>1, UsedFacts
  <2> QED
    BY <1>7, <2>1, <2>2
<1>9. ASSUME NEW row \in table, Kills(row) PROVE OneHome' /\ ServedOnce'
  <2> DEFINE order == [kind |-> "kill", node |-> row[1], id |-> row[2]]
  <2>1. row[1] \in Ring /\ row[2] \in Sessions /\ row = <<row[1], row[2]>>
    BY DEF RingTypeOK, AllUsed, Rows
  <2>2. order \in Orders /\ Sends(order) /\ UNCHANGED store
    BY <1>9, <2>1 DEF Orders, Kills, KillTarget, Sends
  <2> QED
    BY <1>7, <2>1, <2>2
<1>10. CASE Serves
  <2>1. PICK result : (Spawned(goal, result) \/ Removed(goal, result)) /\ outcome' = result
    BY <1>10 DEF Serves
  <2>2. /\ stage["click"] = "sent" /\ stage'["click"] = "served" /\ goal \in Orders
        /\ UNCHANGED <<late, goal, table, rows>>
    BY <1>10 DEF Serves, pageVars, RingTypeOK
  <2>3. /\ Given(goal) /\ (goal.kind = "launch" => Due(goal) /\ goal \notin late)
        /\ \A o \in Orders : Given(o)' => Given(o)
        /\ \A o \in Orders : Due(o)' => Due(o) /\ o # goal
    BY <2>2 DEF Given, Due, ServedOnce
  <2>4. CASE goal.kind = "kill"
    <3>1. \A n \in Nodes, s \in Sessions : At(n, s)' => At(n, s)
      BY <2>1, <2>2, <2>4, ServedStore DEF At
    <3> QED
      BY <1>1, <2>2, <2>3, <2>4, <3>1 DEF NothingNew, ServedOnce
  <2>5. CASE goal.kind = "launch"
    <3>1. \A n \in Nodes, s \in Sessions :
            At(n, s)' => At(n, s) \/ (n = goal.node /\ s = goal.id)
      BY <2>1, <2>2, <2>5, ServedStore DEF At
    <3>2. OneHome'
      BY <2>2, <2>3, <2>5, <3>1, LaunchKeepsHome
    <3>3. \A o \in Orders : Due(o)' => o.id # goal.id
      BY <2>2, <2>3, <2>5 DEF OneHome
    <3> QED
      BY <2>2, <3>2, <3>3 DEF ServedOnce
  <2> QED
    BY <2>1, <2>2, <2>4, <2>5, ServedStore
<1>11. ASSUME NEW order \in late, ServesLate(order) PROVE OneHome' /\ ServedOnce'
  <2>1. PICK result : Spawned(order, result) \/ Removed(order, result)
    BY <1>11 DEF ServesLate
  <2>2. /\ order \in Orders /\ late' = late \ {order}
        /\ UNCHANGED <<stage, goal, outcome, table, rows>>
    BY <1>11 DEF ServesLate, pageVars, requestVars, RingTypeOK
  <2>3. /\ \A o \in Orders : Given(o)' => Given(o)
        /\ \A o \in Orders : Due(o)' => Due(o)
        /\ order.kind = "launch" => Due(order) /\ \A o \in Orders : Due(o)' => o # order
    BY <2>2 DEF Given, Due, ServedOnce
  <2>4. ServedOnce'
    BY <2>2, <2>3 DEF ServedOnce
  <2>5. CASE order.kind = "kill"
    <3>1. \A n \in Nodes, s \in Sessions : At(n, s)' => At(n, s)
      BY <2>1, <2>2, <2>5, ServedStore DEF At
    <3> QED
      BY <1>1, <2>3, <2>4, <3>1 DEF NothingNew
  <2>6. CASE order.kind = "launch"
    <3>1. \A n \in Nodes, s \in Sessions :
            At(n, s)' => At(n, s) \/ (n = order.node /\ s = order.id)
      BY <2>1, <2>2, <2>6, ServedStore DEF At
    <3> QED
      BY <2>2, <2>3, <2>4, <2>6, <3>1, LaunchKeepsHome
  <2> QED
    BY <2>1, <2>2, <2>5, <2>6, ServedStore
<1> QED
  BY <1>2, <1>3, <1>4, <1>5, <1>6, <1>8, <1>9, <1>10, <1>11 DEF Next, World

-----------------------------------------------------------------------------
(* What became of a launch or a kill.                                         *)

\* The page's order, once it has been answered, is a given one, and not due.
LEMMA AnsweredFacts ==
  ASSUME RingTypeOK, OneHome, ServedOnce, outcome # "none"
  PROVE  /\ stage["click"] # "sent" /\ Given(goal)
         /\ goal.kind = "kill" =>
              \A o \in Orders : Due(o) => o.id # goal.id
         /\ outcome = "ok" => \A o \in Orders : Due(o) => o.id # goal.id
BY DEF RingTypeOK, OneHome, ServedOnce, Given, Orders

\* Steps that leave the page's order and the answers alone, and start no session
\* that has its id.
LEMMA SettledStays ==
  ASSUME RingTypeOK, Settled, UNCHANGED <<goal, outcome, stage, rows, heard>>,
         outcome # "none" => \A n \in Nodes : goal.id \in store'[n] => goal.id \in store[n]
  PROVE  Settled'
BY RingFacts DEF RingTypeOK, Settled, Orders

LEMMA SettledStep ==
  ASSUME RingInv, [Next]_vars
  PROVE  Settled'
<1> USE RingFacts
<1>0. RingTypeOK /\ AllUsed /\ OneHome /\ ServedOnce /\ Settled
  BY DEF RingInv
<1>1. CASE Tick \/ (\E n \in Ring : Selects(n)) \/ UNCHANGED vars
  BY <1>0, <1>1, SettledStays DEF Tick, Selects, vars, requestVars, orderVars
<1>2. ASSUME NEW m \in Nodes,
             Crash(m) \/ Restart(m) \/ \E s \in Sessions : OtherPageKills(m, s)
      PROVE  Settled'
  <2>1. UNCHANGED <<goal, outcome, stage, rows, heard>>
    BY <1>2 DEF Crash, Restart, OtherPageKills, orderVars, requestVars
  <2>2. \A n \in Nodes : store'[n] \subseteq store[n]
    BY <1>0, <1>2 DEF Crash, Restart, OtherPageKills, RingTypeOK
  <2> QED
    BY <1>0, <2>1, <2>2, SettledStays
<1>3. ASSUME NEW m \in Nodes, NEW s \in Sessions, OtherPageLaunches(m, s) PROVE Settled'
  <2>1. UNCHANGED <<goal, outcome, stage, rows, heard>> /\ s \notin used
    BY <1>3 DEF OtherPageLaunches, orderVars, requestVars
  <2>2. \A n \in Nodes : store'[n] \subseteq store[n] \cup {s}
    BY <1>0, <1>3 DEF OtherPageLaunches, RingTypeOK
  <2>3. outcome # "none" => goal.id # s
    BY <1>0, <2>1 DEF AllUsed
  <2> QED
    BY <1>0, <2>1, <2>2, <2>3, SettledStays
<1>4. ASSUME NEW order \in late, ServesLate(order) PROVE Settled'
  <2>1. PICK result : Spawned(order, result) \/ Removed(order, result)
    BY <1>4 DEF ServesLate
  <2>2. UNCHANGED <<goal, outcome, stage, rows, heard>> /\ order \in Orders
    BY <1>0, <1>4 DEF ServesLate, requestVars, RingTypeOK
  <2>3. CASE order.kind = "kill"
    BY <1>0, <2>1, <2>2, <2>3, ServedStore, SettledStays
  <2>4. CASE order.kind = "launch"
    <3>1. \A n \in Nodes : store'[n] \subseteq store[n] \cup {order.id}
      BY <1>0, <2>1, <2>2, <2>4, ServedStore
    <3>2. Due(order)
      BY <2>4 DEF Due
    <3>3. CASE outcome \in {"ok", "notfound"} \/ goal.kind = "kill"
      <4>1. outcome # "none" => order.id # goal.id
        BY <1>0, <2>2, <3>2, <3>3, AnsweredFacts DEF Settled
      <4> QED
        BY <1>0, <2>2, <3>1, <4>1, SettledStays
    <3>4. CASE outcome \notin {"ok", "notfound"}
      BY <1>0, <2>2, <3>4 DEF Settled
    <3> QED
      BY <3>3, <3>4
  <2> QED
    BY <1>0, <2>1, <2>2, <2>3, <2>4, ServedStore
<1>5. ASSUME NEW order, Sends(order) PROVE Settled'
  BY <1>5 DEF Sends, Settled
<1>6. CASE GivesUp
  BY <1>6 DEF GivesUp, Settled
<1>7. CASE Serves
  <2>1. PICK result : (Spawned(goal, result) \/ Removed(goal, result)) /\ outcome' = result
    BY <1>7 DEF Serves
  <2>2. stage["click"] = "sent" /\ stage'["click"] = "served" /\ goal' = goal /\ goal \in Orders
    BY <1>0, <1>7 DEF Serves, RingTypeOK
  <2>3. outcome' = "notfound" => goal.kind = "kill"
    BY <1>0, <2>1, <2>2, ServedStore
  <2>4. ASSUME goal.kind = "kill", NEW n \in Nodes PROVE goal.id \notin store'[n]
    <3>1. store'[n] \subseteq store[n] /\ goal.id \notin store'[goal.node]
      BY <1>0, <2>1, <2>2, <2>4, ServedStore
    <3>2. At(n, goal.id) => n = goal.node
      BY <1>0, <2>2, <2>4 DEF OneHome, Given
    <3> QED
      BY <3>1, <3>2 DEF At
  <2> QED
    BY <2>2, <2>3, <2>4 DEF Settled
<1>8. ASSUME NEW r \in Requests, Answers(r) PROVE Settled'
  <2>1. UNCHANGED <<goal, outcome, store>> /\ (stage'["click"] = "asking" => r # "click")
    BY <1>0, <1>8 DEF Answers, orderVars, RingTypeOK
  <2>2. r # "click" => /\ stage'["click"] = stage["click"]
                       /\ rows'["click"] = rows["click"] /\ heard'["click"] = heard["click"]
    BY <1>0, <1>8 DEF Answers, RingTypeOK
  <2> QED
    BY <1>0, <2>1, <2>2 DEF Settled
<1>9. ASSUME NEW r \in Requests, FansOut(r), UNCHANGED <<goal, outcome, store>>
      PROVE  Settled'
  <2>1. CASE r = "poll"
    <3>1. /\ stage'["click"] = stage["click"]
          /\ rows'["click"] = rows["click"] /\ heard'["click"] = heard["click"]
      BY <1>0, <1>9, <2>1 DEF FansOut, RingTypeOK
    <3> QED
      BY <1>0, <1>9, <3>1 DEF Settled
  <2>2. CASE r = "click"
    <3>1. rows'["click"] = {Here} \X store[Here] /\ heard'["click"] = {Here}
      BY <1>0, <1>9, <2>2 DEF FansOut, RowsOf, RingTypeOK
    <3> QED
      BY <1>0, <1>9, <3>1 DEF Settled
  <2> QED
    BY <2>1, <2>2 DEF Requests
<1>10. ASSUME NEW r \in Requests, NEW m \in Followers[Here], Gather(r, m) PROVE Settled'
  <2>1. UNCHANGED <<goal, outcome, store, stage>>
    BY <1>10 DEF Gather, ServesQuery, QueryFails, orderVars
  <2>2. CASE r = "click" /\ ServesQuery(r, m)
    <3>1. /\ rows'["click"] = rows["click"] \cup ({m} \X store[m])
          /\ heard'["click"] = heard["click"] \cup {m}
      BY <1>0, <2>2 DEF ServesQuery, RowsOf, RingTypeOK
    <3> QED
      BY <1>0, <2>1, <3>1 DEF Settled
  <2>3. CASE r = "poll" \/ QueryFails(r, m)
    <3>1. rows'["click"] = rows["click"] /\ heard'["click"] = heard["click"]
      BY <1>0, <1>10, <2>3 DEF Gather, ServesQuery, QueryFails, RingTypeOK
    <3> QED
      BY <1>0, <2>1, <3>1 DEF Settled
  <2> QED
    BY <1>10, <2>2, <2>3 DEF Gather, Requests
<1>11. CASE Polls \/ Refreshes
  BY <1>9, <1>11 DEF Polls, Refreshes, orderVars
<1> QED
  BY <1>1, <1>2, <1>3, <1>4, <1>5, <1>6, <1>7, <1>8, <1>10, <1>11
     DEF Next, World, Launches, Kills

-----------------------------------------------------------------------------
(* The theorems.                                                              *)

LEMMA RingInit ==
  ASSUME Init
  PROVE  RingInv /\ Timed
<1> USE RingFacts DEF Init
<1>1. (CHOOSE s \in Sessions : TRUE) \in Sessions
  BY RingAssumption
<1>2. goal \in Orders /\ outcome = "none" /\ stage["click"] = "idle"
  BY <1>1 DEF Orders
<1>3. RingTypeOK
  BY <1>2 DEF RingTypeOK
<1>4. AllUsed /\ Timed
  BY <1>2 DEF AllUsed, Timed
<1>5. \A o \in Orders : ~Given(o) /\ ~Due(o)
  BY <1>2 DEF Given, Due
<1>6. \A n \in Nodes, s \in Sessions : ~At(n, s)
  BY DEF At
<1>7. OneHome
  BY <1>5, <1>6 DEF OneHome, Orders
<1>8. ServedOnce /\ Settled
  BY <1>2 DEF ServedOnce, Settled
<1> QED
  BY <1>3, <1>4, <1>7, <1>8 DEF RingInv

\* The inductive invariant holds for any ring.
THEOREM RingInvariance == Spec => []RingInv
<1>1. Init => RingInv
  BY RingInit
<1>2. RingInv /\ [Next]_vars => RingInv'
  BY RingTypeStep, HomeStep, SettledStep DEF RingInv
<1> QED
  BY <1>1, <1>2, PTL DEF Spec

\* For any ring: every variable has its type, and an answer has rows of the
\* launchers that have been heard only.
THEOREM RingTypeCorrect == Spec => []RingTypeOK
<1>1. RingInv => RingTypeOK
  BY DEF RingInv
<1> QED
  BY <1>1, RingInvariance, PTL

\* For any ring, also one whose launchers list themselves or one another: if a
\* query times out before the next poll, as it does in the code, polls do not
\* pile up.
THEOREM NoPilingUp ==
  ASSUME FanoutTimeout < PollInterval
  PROVE  Spec => []PollsDoNotPileUp
<1>1. Init => Timed
  BY RingInit
<1>2. RingInv /\ Timed /\ [Next]_vars => Timed'
  BY TimedStep DEF RingInv
<1>3. Timed => PollsDoNotPileUp
  BY RingFacts DEF Timed, PollsDoNotPileUp
<1> QED
  BY <1>1, <1>2, <1>3, RingInvariance, PTL DEF Spec

\* For any ring: a kill that finds nothing is one of a session that is nowhere.
THEOREM NothingToKill == Spec => []NotFoundIsGone
<1>1. RingInv => NotFoundIsGone
  BY DEF RingInv, Settled, NotFoundIsGone
<1> QED
  BY <1>1, RingInvariance, PTL

\* For any ring: the table that comes back with a click shows what it did.
THEOREM ClicksShow == Spec => RefreshShowsIt
<1> DEFINE row == <<goal.node, goal.id>>
           Shows == stage["click"] = "asking" /\ stage'["click"] = "idle" /\ outcome = "ok" =>
                      IF goal.kind = "kill" THEN row \notin table'
                      ELSE row \in table' \/ goal.node \notin heard["click"]
                                          \/ goal.id \notin store[goal.node]
<1>1. RingInv /\ [Next]_vars => [Shows]_vars
  <2> SUFFICES ASSUME RingInv, Next, stage["click"] = "asking", stage'["click"] = "idle",
                      outcome = "ok"
               PROVE  Shows
    BY DEF RingInv
  <2>1. table' = rows["click"]
    <3>1. ASSUME NEW r \in Requests, Answers(r) PROVE r = "click"
      BY <3>1, RingFacts DEF Answers, RingInv, RingTypeOK, Requests
    <3>2. (\E r \in Requests : Answers(r)) => table' = rows["click"]
      BY <3>1 DEF Answers
    <3>3. ASSUME NEW r \in Requests, FansOut(r) PROVE FALSE
      BY <3>3, RingFacts DEF FansOut, RingInv, RingTypeOK
    <3> QED
      BY <3>2, <3>3, RingFacts DEF Next, Tick, Polls, Gather, ServesQuery, QueryFails, Selects,
         Launches, Kills, Sends, Serves, GivesUp, Refreshes, ServesLate, World, Crash, Restart,
         OtherPageLaunches, OtherPageKills, requestVars, RingInv, RingTypeOK
  <2> QED
    BY <2>1 DEF RingInv, Settled
<1> HIDE DEF Shows
<1>2. Spec => [][Shows]_vars
  BY <1>1, RingInvariance, PTL DEF Spec
<1> QED
  BY <1>2 DEF Shows, RefreshShowsIt

-----------------------------------------------------------------------------
(* A session has one life.                                                    *)

\* The id s has been given out, and no launch that is to give it is under way.
Past(s) == s \in used /\ \A o \in Orders : Due(o) => o.id # s

\* What is past starts nowhere, whatever is served late.
LEMMA PastStep ==
  ASSUME RingInv, [Next]_vars, NEW s \in Sessions, Past(s)
  PROVE  Past(s)' /\ \A n \in Nodes : s \notin store[n] => s \notin store'[n]
<1> DEFINE Stays == Past(s)' /\ \A n \in Nodes : s \notin store[n] => s \notin store'[n]
<1> USE RingFacts
<1>0. RingTypeOK /\ AllUsed /\ OneHome /\ ServedOnce
  BY DEF RingInv
<1>1. ASSUME UNCHANGED used, \A o \in Orders : Due(o)' => Due(o),
             \A n \in Nodes : s \notin store[n] => s \notin store'[n]
      PROVE  Stays
  BY <1>1 DEF Past
<1>2. CASE \/ Tick \/ Polls \/ UNCHANGED vars
           \/ \E r \in Requests : Answers(r) \/ \E m \in Followers[Here] : Gather(r, m)
           \/ \E n \in Ring : Selects(n)
           \/ GivesUp \/ Refreshes
  <2>1. NothingNew
    BY <1>0, <1>2, NeutralStep
  <2>2. UNCHANGED <<used, store>>
    BY <1>2 DEF Tick, Polls, vars, Answers, Gather, ServesQuery, QueryFails, Selects, GivesUp,
       Refreshes
  <2> QED
    BY <1>1, <2>1, <2>2 DEF NothingNew
<1>3. ASSUME NEW m \in Nodes,
             Crash(m) \/ Restart(m) \/ \E t \in Sessions : OtherPageKills(m, t)
      PROVE  Stays
  <2>1. NothingNew
    BY <1>0, <1>3, NeutralStep
  <2>2. UNCHANGED used /\ \A n \in Nodes : store'[n] \subseteq store[n]
    BY <1>0, <1>3 DEF Crash, Restart, OtherPageKills, RingTypeOK
  <2> QED
    BY <1>1, <2>1, <2>2 DEF NothingNew
<1>4. ASSUME NEW m \in Nodes, NEW t \in Sessions, OtherPageLaunches(m, t) PROVE Stays
  <2>1. t # s /\ used' = used \cup {t} /\ store' = [store EXCEPT ![m] = @ \cup {t}]
    BY <1>4 DEF OtherPageLaunches, Past
  <2>2. UNCHANGED <<stage, late, goal>>
    BY <1>4 DEF OtherPageLaunches, requestVars, orderVars
  <2>3. \A o \in Orders : Due(o)' => Due(o)
    BY <2>2 DEF Due
  <2> QED
    BY <1>0, <2>1, <2>3 DEF Past, RingTypeOK
<1>5. ASSUME NEW t \in Sessions, Launches(t) PROVE Stays
  <2>1. t # s /\ used' = used \cup {t} /\ UNCHANGED <<store, late>> /\ goal'.id = t
    BY <1>5 DEF Launches, Sends, Past
  <2>2. \A o \in Orders : Due(o)' => Due(o) \/ o.id = t
    BY <2>1 DEF Due
  <2> QED
    BY <2>1, <2>2 DEF Past
<1>6. ASSUME NEW row \in table, Kills(row) PROVE Stays
  <2>1. UNCHANGED <<used, store, late>> /\ goal'.kind = "kill"
    BY <1>6 DEF Kills, Sends
  <2>2. \A o \in Orders : Due(o)' => Due(o)
    BY <2>1 DEF Due
  <2> QED
    BY <1>1, <2>1, <2>2
<1>7. CASE Serves
  <2>1. PICK result : Spawned(goal, result) \/ Removed(goal, result)
    BY <1>7 DEF Serves
  <2>2. /\ goal \in Orders /\ UNCHANGED <<used, late, goal>>
        /\ stage["click"] = "sent" /\ stage'["click"] = "served"
    BY <1>0, <1>7 DEF Serves, RingTypeOK
  <2>3. goal.kind = "launch" => goal.id # s
    BY <2>2 DEF Past, Due
  <2>4. \A n \in Nodes : s \notin store[n] => s \notin store'[n]
    BY <1>0, <2>1, <2>2, <2>3, ServedStore
  <2>5. \A o \in Orders : Due(o)' => Due(o)
    BY <2>2 DEF Due
  <2> QED
    BY <1>1, <2>2, <2>4, <2>5
<1>8. ASSUME NEW order \in late, ServesLate(order) PROVE Stays
  <2>1. PICK result : Spawned(order, result) \/ Removed(order, result)
    BY <1>8 DEF ServesLate
  <2>2. order \in Orders /\ late' = late \ {order} /\ UNCHANGED <<used, goal, stage>>
    BY <1>0, <1>8 DEF ServesLate, requestVars, RingTypeOK
  <2>3. order.kind = "launch" => order.id # s
    BY <2>2 DEF Past, Due
  <2>4. \A n \in Nodes : s \notin store[n] => s \notin store'[n]
    BY <1>0, <2>1, <2>2, <2>3, ServedStore
  <2>5. \A o \in Orders : Due(o)' => Due(o)
    BY <2>2 DEF Due
  <2> QED
    BY <1>1, <2>2, <2>4, <2>5
<1> QED
  BY <1>2, <1>3, <1>4, <1>5, <1>6, <1>7, <1>8 DEF Next, World

\* For any ring: once a session has run anywhere, or has been shown, it starts
\* nowhere any more.  It neither moves to another launcher nor comes back when
\* it has been killed or its launcher has crashed, although a launch may be
\* served long after its caller was told that nobody was there.
THEOREM SessionsLiveOnce ==
  ASSUME NEW s \in Sessions
  PROVE  Spec => []((\E n \in Nodes : At(n, s)) =>
                      [][\A n \in Nodes : s \notin store[n] => s \notin store'[n]]_vars)
<1> DEFINE Had == \E n \in Nodes : At(n, s)
           Starts == \E n \in Nodes : s \notin store[n] /\ s \in store'[n]
<1>1. RingInv /\ Had => Past(s)
  BY UsedFacts DEF RingInv, OneHome, Past
<1>2. RingInv /\ Past(s) /\ [Next]_vars => Past(s)' /\ ~Starts
  BY PastStep
<1>3. (\A n \in Nodes : s \notin store[n] => s \notin store'[n]) <=> ~Starts
  OBVIOUS
<1> HIDE DEF Had, Starts
<1>4. Spec => [](Had => [][~Starts]_vars)
  BY <1>1, <1>2, RingInvariance, PTL DEF Spec
<1> QED
  BY <1>3, <1>4, PTL DEF Had, Starts

-----------------------------------------------------------------------------
(* What the page gets to see of a session.                                    *)

\* How an answer comes about: from the sessions of Here, and from those of each
\* follower that answers.
LEMMA AnswersGrow ==
  ASSUME RingTypeOK, [Next]_vars, NEW r \in Requests
  PROVE  \/ UNCHANGED <<stage[r], heard[r], rows[r]>>
         \/ stage'[r] # "asking" /\ rows'[r] \subseteq rows[r]
         \/ heard'[r] = {Here} /\ rows'[r] = RowsOf(Here)
         \/ \E m \in Followers[Here] :
              /\ stage'[r] = stage[r]
              /\ heard'[r] = heard[r] \cup {m} /\ rows'[r] = rows[r] \cup RowsOf(m)
<1> USE DEF RingTypeOK
<1>1. CASE UNCHANGED requestVars
  BY <1>1 DEF requestVars
<1>2. ASSUME NEW q \in Requests, FansOut(q)
      PROVE  \/ UNCHANGED <<stage[r], heard[r], rows[r]>>
             \/ heard'[r] = {Here} /\ rows'[r] = RowsOf(Here)
  BY <1>2 DEF FansOut
<1>3. ASSUME NEW q \in Requests, Answers(q)
      PROVE  \/ UNCHANGED <<stage[r], heard[r], rows[r]>>
             \/ stage'[r] # "asking" /\ rows'[r] \subseteq rows[r]
  BY <1>3 DEF Answers
<1>4. ASSUME NEW q \in Requests, NEW m \in Followers[Here], ServesQuery(q, m)
      PROVE  \/ UNCHANGED <<stage[r], heard[r], rows[r]>>
             \/ /\ stage'[r] = stage[r]
                /\ heard'[r] = heard[r] \cup {m} /\ rows'[r] = rows[r] \cup RowsOf(m)
  BY <1>4 DEF ServesQuery
<1>5. ASSUME NEW q \in Requests, NEW m \in Followers[Here], QueryFails(q, m)
      PROVE  UNCHANGED <<stage[r], heard[r], rows[r]>>
  BY <1>5 DEF QueryFails
<1>6. CASE (\E s \in Sessions : Launches(s)) \/ (\E row \in table : Kills(row)) \/ Serves \/ GivesUp
  BY <1>6 DEF Launches, Kills, Sends, Serves, GivesUp
<1>7. CASE \/ Tick \/ (\E n \in Ring : Selects(n)) \/ (\E o \in late : ServesLate(o))
           \/ World \/ UNCHANGED vars
  BY <1>1, <1>7 DEF Tick, Selects, ServesLate, World, Crash, Restart, OtherPageLaunches,
     OtherPageKills, vars
<1> QED
  BY <1>2, <1>3, <1>4, <1>5, <1>6, <1>7, RingFacts DEF Next, Polls, Refreshes, Gather

\* The table changes to an answer, and no other way.
LEMMA TableIsAnAnswer ==
  ASSUME [Next]_vars
  PROVE  UNCHANGED table \/ \E r \in Requests : table' = rows[r]
BY DEF Next, Tick, Polls, Answers, Gather, ServesQuery, QueryFails, Selects, Launches, Kills,
   Sends, Serves, GivesUp, Refreshes, ServesLate, World, Crash, Restart, OtherPageLaunches,
   OtherPageKills, vars, pageVars

\* The session s runs nowhere any more, nor will it.
Ended(s) == Past(s) /\ \A n \in Nodes : s \notin store[n]

\* What has ended stays so, and gets into no answer that does not have it yet.
LEMMA EndedStep ==
  ASSUME RingInv, [Next]_vars, NEW s \in Sessions, Ended(s)
  PROVE  /\ Ended(s)'
         /\ \A r \in Requests, n \in Nodes : <<n, s>> \in rows'[r] => <<n, s>> \in rows[r]
<1>1. Ended(s)'
  BY PastStep DEF Ended
<1>2. ASSUME NEW r \in Requests, NEW n \in Nodes, NEW m \in Nodes, <<n, s>> \in RowsOf(m)
      PROVE  FALSE
  BY <1>2 DEF RowsOf, Ended
<1>3. ASSUME NEW r \in Requests, NEW n \in Nodes, <<n, s>> \in rows'[r]
      PROVE  <<n, s>> \in rows[r]
  <2>1. Here \in Nodes /\ Followers[Here] \subseteq Nodes
    BY RingFacts
  <2> QED
    BY <1>2, <1>3, <2>1, AnswersGrow DEF RingInv
<1> QED
  BY <1>1, <1>3

\* For any ring: once a session has ended, killed or with its launcher, no poll
\* and no click that starts from then on brings it back to the page; when the
\* answers that are under way have been shown, it is gone from the table for
\* good.  This is what StaleRowsVanish needs beside fairness.
THEOREM EndedRowsStayAway ==
  ASSUME NEW s \in Sessions
  PROVE  Spec =>
    /\ \A r \in Requests :
         []((Ended(s) /\ \A n \in Nodes : <<n, s>> \notin rows[r])
              => [](\A n \in Nodes : <<n, s>> \notin rows[r]))
    /\ []((Ended(s) /\ \A n \in Nodes : ~At(n, s)) => [](~Shown(s)))
<1> DEFINE Lacks(r) == \A n \in Nodes : <<n, s>> \notin rows[r]
           Nowhere == \A n \in Nodes : ~At(n, s)
<1>1. RingInv /\ Ended(s) /\ [Next]_vars => Ended(s)'
  BY EndedStep
<1>2. ASSUME NEW r \in Requests
      PROVE  Spec => []((Ended(s) /\ Lacks(r)) => []Lacks(r))
  <2>1. RingInv /\ Ended(s) /\ Lacks(r) /\ [Next]_vars => Lacks(r)'
    BY EndedStep
  <2> HIDE DEF Lacks
  <2> QED
    BY <1>1, <2>1, RingInvariance, PTL DEF Spec
<1>3. Spec => []((Ended(s) /\ Nowhere) => [](~Shown(s)))
  <2>1. RingInv /\ Ended(s) /\ Nowhere /\ [Next]_vars => Nowhere'
    <3> SUFFICES ASSUME RingInv, Ended(s), Nowhere, [Next]_vars, NEW n \in Nodes
                 PROVE  ~At(n, s)'
      OBVIOUS
    <3>1. s \notin store'[n]
      BY EndedStep DEF Ended
    <3>2. \A r \in Requests : <<n, s>> \notin rows'[r] /\ <<n, s>> \notin rows[r]
      BY EndedStep DEF At
    <3>3. <<n, s>> \notin table'
      BY <3>2, TableIsAnAnswer DEF At
    <3> QED
      BY <3>1, <3>2, <3>3 DEF At
  <2>2. Nowhere => ~Shown(s)
    BY DEF Shown, At
  <2> HIDE DEF Nowhere
  <2> QED
    BY <1>1, <2>1, <2>2, RingInvariance, PTL DEF Spec
<1> QED
  BY <1>2, <1>3

\* For any ring: an answer has every session that its launcher had from before
\* the request started, if that launcher answered; Here always does.  Followers
\* that are slow or dead hide no rows but their own.  This is what RowsComeUp
\* needs beside fairness.
THEOREM SteadyRowsAreShown ==
  ASSUME NEW s \in Sessions, NEW n \in Ring, NEW r \in Requests
  PROVE  Spec =>
    /\ [](stage[r] = "asking" => Here \in heard[r])
    /\ [](stage[r] # "asking" /\ [](s \in store[n])
            => [](stage[r] = "asking" /\ n \in heard[r] => <<n, s>> \in rows[r]))
<1> DEFINE Own == stage[r] = "asking" => Here \in heard[r]
           Has == s \in store[n]
           Shows == stage[r] = "asking" /\ n \in heard[r] => <<n, s>> \in rows[r]
           Apart == stage[r] # "asking"
<1>1. Init => Own
  BY DEF Init
<1>2. RingInv /\ Own /\ [Next]_vars => Own'
  BY AnswersGrow DEF RingInv
<1>3. RingInv /\ Has /\ Shows /\ [Next]_vars => Shows'
  BY AnswersGrow DEF RingInv, RowsOf
<1>4. Apart => Shows
  OBVIOUS
<1> HIDE DEF Own, Has, Shows, Apart
<1>5. Spec => []Own /\ [](Apart /\ []Has => []Shows)
  BY <1>1, <1>2, <1>3, <1>4, RingInvariance, PTL DEF Spec
<1> QED
  BY <1>5 DEF Own, Has, Shows, Apart

=============================================================================
