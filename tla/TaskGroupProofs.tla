-------------------------- MODULE TaskGroupProofs --------------------------
(***************************************************************************)
(* What holds of TaskGroup for every number of groups and tasks: a group   *)
(* that returns no error had all its tasks processed, and its WaitGroup is *)
(* never counted below zero.                                               *)
(***************************************************************************)
EXTENDS TaskGroup, FiniteSetTheorems, TLAPS

\* The tasks of a group that were counted and not notified; those sent or about
\* to be sent to the queue.
Unnotified(g) == {t \in Of(g) : task[t] \in {"offered", "queued", "held", "lost"}}
Sent(g) == {t \in Of(g) : task[t] \notin {"new", "rejected"}}
Done(g) == {t \in Of(g) : task[t] = "finished"}

\* Values without the two bounds, which follow from the counts.
Values ==
  /\ task \in [Tasks -> {"new", "offered", "rejected", "queued", "held",
                         "finished", "lost"}]
  /\ phase \in {"new", "open", "closing", "closed"}
  /\ late \in BOOLEAN /\ ctxClosed \in BOOLEAN
  /\ fails \in 0..MaxFails
  /\ group \in [Groups -> {"idle", "adding", "waiting", "ok", "err"}]
  /\ wg \in [Groups -> Int]
  /\ err \in [Groups -> BOOLEAN]
  /\ doneCh \in [Groups -> {"open", "closed"}]
  /\ messages \in [Groups -> Nat]
  /\ doneCnt \in [Groups -> Nat]
  /\ timer \in [Groups -> {"armed", "fired"}]
  /\ collector \in [Groups -> {"none", "loop", "end"}]

\* A group that goes on has no refused task; one that waits has sent them all.
AllSent(g) ==
  /\ group[g] # "err" => Now(g, "rejected") = {}
  /\ group[g] \in {"waiting", "ok"} => Sent(g) = Of(g) /\ Now(g, "offered") = {}

\* RunTasksGroupWG: the counter is the number of tasks not notified; of a group
\* that returned an error it may be greater.
Waited(g) ==
  g \notin WithChannel =>
    /\ collector[g] = "none"
    /\ wg[g] >= Cardinality(Unnotified(g))
    /\ group[g] # "err" => wg[g] = Cardinality(Unnotified(g))

\* RunTasksGroupCh: the counter and what the collector counted are the tasks
\* sent, but for the message too many that ends the collector.
Uncollected(g) ==
  collector[g] = "none" =>
    /\ doneCnt[g] = 0 /\ ~err[g] /\ wg[g] >= 0
    /\ g \in WithChannel /\ group[g] # "err" =>
         group[g] \in {"idle", "adding"} /\ wg[g] = Cardinality(Sent(g))

Collected(g) ==
  collector[g] # "none" =>
    /\ group[g] \in {"waiting", "ok", "err"}
    /\ \/ wg[g] >= 0 /\ wg[g] + doneCnt[g] = Cardinality(Of(g))
       \/ wg[g] = 0 /\ doneCnt[g] = Cardinality(Of(g)) + 1 /\ collector[g] = "end"

\* Every task that finished is a message, or one collected unless a timeout or
\* the context made up for it.
Messages(g) ==
  /\ messages[g] <= Cardinality(Done(g))
  /\ group[g] \in {"idle", "adding", "waiting"} => doneCh[g] = "open"
  /\ g \in WithChannel /\ group[g] \in {"idle", "adding", "waiting"} /\ ~err[g] =>
       doneCnt[g] + messages[g] = Cardinality(Done(g))

Processed(g) == group[g] = "ok" => Done(g) = Of(g)

GroupInv(g) ==
  AllSent(g) /\ Waited(g) /\ Uncollected(g) /\ Collected(g) /\ Messages(g) /\ Processed(g)

Inv == Values /\ \A g \in Groups : GroupInv(g)

-----------------------------------------------------------------------------
(* Counting                                                                *)

\* The tasks of a group are finitely many, and so are those of any part of it.
LEMMA Part ==
  ASSUME NEW g, NEW S \in SUBSET Of(g)
  PROVE  /\ IsFiniteSet(S) /\ Cardinality(S) \in Nat
         /\ Cardinality(Of(g)) \in Nat
         /\ Cardinality(S) <= Cardinality(Of(g))
         /\ Cardinality(S) >= Cardinality(Of(g)) => S = Of(g)
<1>1. IsFiniteSet(Of(g))
  BY GroupAssumption, FS_Subset DEF Of
<1>2. IsFiniteSet(S) /\ Cardinality(S) <= Cardinality(Of(g))
      /\ (Cardinality(S) = Cardinality(Of(g)) => S = Of(g))
  BY <1>1, FS_Subset
<1>3. Cardinality(S) \in Nat /\ Cardinality(Of(g)) \in Nat
  BY <1>1, <1>2, FS_CardinalityType
<1>. QED
  BY <1>2, <1>3

\* One task more counts one more.
LEMMA OneMore ==
  ASSUME NEW g, NEW S \in SUBSET Of(g), NEW t \in Of(g), t \notin S
  PROVE  Cardinality(S \cup {t}) = Cardinality(S) + 1
BY Part, FS_AddElement

\* No tasks count nothing.
LEMMA NoneLeft ==
  ASSUME NEW g, NEW S \in SUBSET Of(g), Cardinality(S) = 0
  PROVE  S = {}
BY Part, FS_EmptySet

\* The parts of a group, now and after a step.
LEMMA Parts ==
  ASSUME NEW g
  PROVE  /\ Unnotified(g) \in SUBSET Of(g) /\ Unnotified(g)' \in SUBSET Of(g)
         /\ Sent(g) \in SUBSET Of(g) /\ Sent(g)' \in SUBSET Of(g)
         /\ Done(g) \in SUBSET Of(g) /\ Done(g)' \in SUBSET Of(g)
         /\ Of(g)' = Of(g)
BY DEF Unnotified, Sent, Done, Of

\* A step that leaves a group and its tasks alone keeps what holds of it.
LEMMA Frame ==
  ASSUME NEW g, GroupInv(g),
         \A t \in Of(g) : task'[t] = task[t],
         (group[g])' = group[g], (wg[g])' = wg[g], (err[g])' = err[g],
         (doneCh[g])' = doneCh[g], (messages[g])' = messages[g],
         (doneCnt[g])' = doneCnt[g], (collector[g])' = collector[g]
  PROVE  GroupInv(g)'
<1>1. /\ Unnotified(g)' = Unnotified(g) /\ Sent(g)' = Sent(g)
      /\ Done(g)' = Done(g) /\ Of(g)' = Of(g)
      /\ Now(g, "rejected")' = Now(g, "rejected")
      /\ Now(g, "offered")' = Now(g, "offered")
  BY DEF Unnotified, Sent, Done, Of, Now, Pool!In
<1>. QED
  BY <1>1 DEF GroupInv, AllSent, Waited, Uncollected, Collected, Messages, Processed

-----------------------------------------------------------------------------
(* The steps of a group's goroutine and of its collector                   *)

\* A step of group h that changes no task leaves the other groups alone.
LEMMA StartKeeps ==
  ASSUME NEW h \in Groups, NEW g \in Groups, Values, GroupInv(g), StartGroup(h)
  PROVE  GroupInv(g)'
<1>1. CASE g # h
  BY <1>1, Frame DEF StartGroup, GotoG, poolVars, collectorVars, Values
<1>2. CASE g = h
  <2>1. /\ Unnotified(g)' = Unnotified(g) /\ Sent(g)' = Sent(g)
        /\ Done(g)' = Done(g) /\ Of(g)' = Of(g)
        /\ Now(g, "rejected")' = Now(g, "rejected")
    BY DEF StartGroup, poolVars, Unnotified, Sent, Done, Of, Now, Pool!In
  <2>2. /\ group[g] = "idle" /\ (group[g])' = "adding"
        /\ UNCHANGED <<wg, err, doneCh, messages, doneCnt, collector>>
    BY <1>2 DEF StartGroup, GotoG, collectorVars, Values
  <2>. QED
    BY <2>1, <2>2 DEF GroupInv, AllSent, Waited, Uncollected, Collected, Messages,
       Processed
<1>. QED
  BY <1>1, <1>2

\* Nothing is promised of a group that returns an error but the lower bounds.
LEMMA ErrKeeps ==
  ASSUME NEW g \in Groups, Values, GroupInv(g),
         \A t \in Of(g) : \/ task'[t] = task[t]
                          \/ task[t] \in {"new", "offered"} /\ task'[t] = "rejected",
         (group[g])' = "err", (wg[g])' = wg[g], (err[g])' = err[g],
         (messages[g])' = messages[g],
         (doneCnt[g])' = doneCnt[g], (collector[g])' = collector[g]
  PROVE  GroupInv(g)'
<1>1. /\ Unnotified(g)' \subseteq Unnotified(g) /\ Done(g)' = Done(g)
      /\ Of(g)' = Of(g)
  BY DEF Unnotified, Done, Of
<1>2. /\ Cardinality(Unnotified(g)') <= Cardinality(Unnotified(g))
      /\ Cardinality(Unnotified(g)') \in Nat /\ Cardinality(Unnotified(g)) \in Nat
  BY <1>1, Parts, Part, FS_Subset
<1>3. AllSent(g)' /\ Processed(g)'
  BY DEF AllSent, Processed
<1>4. Messages(g)'
  BY <1>1 DEF GroupInv, Messages
<1>5. Uncollected(g)'
  BY DEF GroupInv, Uncollected
<1>6. Collected(g)'
  BY <1>1 DEF GroupInv, Collected
<1>7. Waited(g)'
  BY <1>2 DEF GroupInv, Waited, Values
<1>. QED
  BY <1>3, <1>4, <1>5, <1>6, <1>7 DEF GroupInv

LEMMA AddingTimesOutKeeps ==
  ASSUME NEW h \in Groups, NEW g \in Groups, Values, GroupInv(g), AddingTimesOut(h)
  PROVE  GroupInv(g)'
<1>1. CASE g # h
  BY <1>1, Frame DEF AddingTimesOut, Return, GotoG, poolVars, collectorVars, Values
<1>2. CASE g = h
  <2>1. (group[g])' = "err" /\ UNCHANGED <<task, wg, err, messages, doneCnt, collector>>
    BY <1>2 DEF AddingTimesOut, Return, GotoG, poolVars, collectorVars, Values
  <2>. QED
    BY <2>1, ErrKeeps
<1>. QED
  BY <1>1, <1>2

\* A group waits when none of its tasks is new, offered or rejected.
LEMMA WaitKeeps ==
  ASSUME NEW h \in Groups, NEW g \in Groups, Values, GroupInv(g), Wait(h)
  PROVE  GroupInv(g)'
<1>1. CASE g # h
  BY <1>1, Frame DEF Wait, GotoG, poolVars, Values
<1>2. CASE g = h
  <2>1. /\ Unnotified(g)' = Unnotified(g) /\ Sent(g)' = Sent(g)
        /\ Done(g)' = Done(g) /\ Of(g)' = Of(g)
        /\ Now(g, "rejected")' = Now(g, "rejected")
        /\ Now(g, "offered")' = Now(g, "offered")
    BY DEF Wait, poolVars, Unnotified, Sent, Done, Of, Now, Pool!In
  <2>2. /\ group[g] = "adding" /\ (group[g])' = "waiting"
        /\ UNCHANGED <<wg, err, doneCh, messages, doneCnt>>
        /\ (collector[g])' = IF g \in WithChannel THEN "loop" ELSE collector[g]
        /\ Now(g, "offered") = {} /\ Now(g, "new") = {}
    BY <1>2 DEF Wait, Between, GotoG, Values
  <2>3. Now(g, "rejected") = {}
    BY <2>2 DEF GroupInv, AllSent
  <2>4. Sent(g) = Of(g)
    BY <2>2, <2>3 DEF Sent, Now, Of, Pool!In
  <2>5. AllSent(g)' /\ Messages(g)' /\ Processed(g)' /\ Waited(g)'
    BY <2>1, <2>2, <2>3, <2>4 DEF GroupInv, AllSent, Messages, Processed, Waited
  <2>6. Cardinality(Of(g)) \in Nat
    BY Part, Parts
  <2>7. Uncollected(g)'
    BY <2>1, <2>2 DEF GroupInv, Uncollected, Collected
  <2>8. Collected(g)'
    BY <2>1, <2>2, <2>4, <2>6 DEF GroupInv, Waited, Uncollected, Collected, Values
  <2>. QED
    BY <2>5, <2>7, <2>8 DEF GroupInv
<1>. QED
  BY <1>1, <1>2

\* The counter is zero: for a WaitGroup every task was notified; with a channel
\* and no error the collector counted a message of every task.
LEMMA ZeroMeansDone ==
  ASSUME NEW g \in Groups, Values, GroupInv(g),
         group[g] = "waiting", wg[g] = 0, ~err[g]
  PROVE  Done(g) = Of(g)
<1>1. CASE g \notin WithChannel
  <2>1. Unnotified(g) = {}
    BY <1>1, Parts, NoneLeft DEF GroupInv, Waited
  <2>2. Sent(g) = Of(g)
    BY DEF GroupInv, AllSent
  <2>. QED
    BY <2>1, <2>2 DEF Values, Unnotified, Sent, Done, Of
<1>2. CASE g \in WithChannel
  <2>1. Cardinality(Done(g)) \in Nat /\ Cardinality(Of(g)) \in Nat
    BY Parts, Part
  <2>2. collector[g] # "none"
    BY <1>2 DEF GroupInv, Uncollected
  <2>3. doneCnt[g] >= Cardinality(Of(g))
    BY <2>1, <2>2 DEF GroupInv, Collected, Values
  <2>4. doneCnt[g] + messages[g] = Cardinality(Done(g))
    BY <1>2 DEF GroupInv, Messages
  <2>5. Cardinality(Done(g)) >= Cardinality(Of(g))
    BY <2>1, <2>3, <2>4 DEF Values
  <2>. QED
    BY <2>5, Parts, Part
<1>. QED
  BY <1>1, <1>2

LEMMA WaitReturnsKeeps ==
  ASSUME NEW h \in Groups, NEW g \in Groups, Values, GroupInv(g), WaitReturns(h)
  PROVE  GroupInv(g)'
<1>1. CASE g # h
  BY <1>1, Frame DEF WaitReturns, Return, GotoG, poolVars, collectorVars, Values
<1>2. CASE g = h /\ err[g]
  <2>1. (group[g])' = "err" /\ UNCHANGED <<task, wg, err, messages, doneCnt, collector>>
    BY <1>2 DEF WaitReturns, Return, GotoG, poolVars, collectorVars, Values
  <2>. QED
    BY <2>1, ErrKeeps
<1>3. CASE g = h /\ ~err[g]
  <2>1. /\ Unnotified(g)' = Unnotified(g) /\ Sent(g)' = Sent(g)
        /\ Done(g)' = Done(g) /\ Of(g)' = Of(g)
        /\ Now(g, "rejected")' = Now(g, "rejected")
        /\ Now(g, "offered")' = Now(g, "offered")
    BY DEF WaitReturns, poolVars, Unnotified, Sent, Done, Of, Now, Pool!In
  <2>2. /\ group[g] = "waiting" /\ (group[g])' = "ok" /\ wg[g] = 0
        /\ UNCHANGED <<wg, err, messages, doneCnt, collector>>
    BY <1>3 DEF WaitReturns, Return, GotoG, collectorVars, Values
  <2>3. Done(g) = Of(g)
    BY <1>3, <2>2, ZeroMeansDone
  <2>. QED
    BY <2>1, <2>2, <2>3 DEF GroupInv, AllSent, Waited, Uncollected, Collected,
       Messages, Processed
<1>. QED
  BY <1>1, <1>2, <1>3

\* Collect, EndCollector and the two releases change one group, and no task.
LEMMA CollectKeeps ==
  ASSUME NEW h \in Groups, NEW g \in Groups, Values, GroupInv(g), Collect(h)
  PROVE  GroupInv(g)'
<1>1. CASE g # h
  BY <1>1, Frame DEF Collect, poolVars, Values
<1>2. CASE g = h
  <2>1. /\ Unnotified(g)' = Unnotified(g) /\ Sent(g)' = Sent(g)
        /\ Done(g)' = Done(g) /\ Of(g)' = Of(g)
        /\ Now(g, "rejected")' = Now(g, "rejected")
        /\ Now(g, "offered")' = Now(g, "offered")
    BY DEF Collect, poolVars, Unnotified, Sent, Done, Of, Now, Pool!In
  <2>2. /\ Cardinality(Of(g)) \in Nat /\ Cardinality(Done(g)) \in Nat
        /\ WgCnt(g) = Cardinality(Of(g))
    BY Parts, Part DEF WgCnt
  <2>3. /\ collector[g] = "loop" /\ messages[g] > 0
        /\ UNCHANGED <<group, doneCh>>
        /\ (messages[g])' = messages[g] - 1 /\ (doneCnt[g])' = doneCnt[g] + 1
        /\ messages[g] \in Nat /\ doneCnt[g] \in Nat /\ wg[g] \in Int
    BY <1>2 DEF Collect, Values
  <2>4. g \in WithChannel
    BY <2>3 DEF GroupInv, Waited
  <2>5. AllSent(g)' /\ Processed(g)' /\ Waited(g)'
    BY <2>1, <2>3, <2>4 DEF GroupInv, AllSent, Processed, Waited
  <2>6. CASE Spare(g)
    <3>1. (wg[g])' = wg[g] - 1 /\ UNCHANGED <<err, collector>>
      BY <1>2, <2>6 DEF Collect, Values
    <3>2. Uncollected(g)' /\ Collected(g)'
      BY <2>1, <2>2, <2>3, <2>6, <3>1 DEF Spare, GroupInv, Uncollected, Collected
    <3>3. Messages(g)'
      BY <2>1, <2>2, <2>3, <3>1 DEF GroupInv, Messages
    <3>. QED
      BY <2>5, <3>2, <3>3 DEF GroupInv
  <2>7. CASE ~Spare(g)
    <3>1. (err[g])' = TRUE /\ (collector[g])' = "end" /\ UNCHANGED wg
      BY <1>2, <2>7 DEF Collect, Values
    <3>2. Uncollected(g)' /\ Collected(g)'
      BY <2>1, <2>2, <2>3, <2>7, <3>1 DEF Spare, GroupInv, Uncollected, Collected
    <3>3. Messages(g)'
      BY <2>1, <2>2, <2>3, <3>1 DEF GroupInv, Messages
    <3>. QED
      BY <2>5, <3>2, <3>3 DEF GroupInv
  <2>. QED
    BY <2>6, <2>7
<1>. QED
  BY <1>1, <1>2

LEMMA EndCollectorKeeps ==
  ASSUME NEW h \in Groups, NEW g \in Groups, Values, GroupInv(g), EndCollector(h)
  PROVE  GroupInv(g)'
<1>1. CASE g # h
  BY <1>1, Frame DEF EndCollector, poolVars, Values
<1>2. CASE g = h
  <2>1. /\ Unnotified(g)' = Unnotified(g) /\ Sent(g)' = Sent(g)
        /\ Done(g)' = Done(g) /\ Of(g)' = Of(g)
        /\ Now(g, "rejected")' = Now(g, "rejected")
        /\ Now(g, "offered")' = Now(g, "offered")
    BY DEF EndCollector, poolVars, Unnotified, Sent, Done, Of, Now, Pool!In
  <2>2. /\ collector[g] = "loop" /\ (collector[g])' = "end"
        /\ UNCHANGED <<group, wg, err, doneCh, messages, doneCnt>>
    BY <1>2 DEF EndCollector, Values
  <2>. QED
    BY <2>1, <2>2 DEF GroupInv, AllSent, Waited, Uncollected, Collected, Messages,
       Processed
<1>. QED
  BY <1>1, <1>2

LEMMA ReleaseKeeps ==
  ASSUME NEW h \in Groups, NEW g \in Groups, Values, GroupInv(g), Release(h)
  PROVE  GroupInv(g)'
<1>1. CASE g # h
  BY <1>1, Frame DEF Release, poolVars, Values
<1>2. CASE g = h
  <2>1. /\ Unnotified(g)' = Unnotified(g) /\ Sent(g)' = Sent(g)
        /\ Done(g)' = Done(g) /\ Of(g)' = Of(g)
        /\ Now(g, "rejected")' = Now(g, "rejected")
        /\ Now(g, "offered")' = Now(g, "offered")
    BY DEF Release, poolVars, Unnotified, Sent, Done, Of, Now, Pool!In
  <2>2. Cardinality(Of(g)) \in Nat /\ WgCnt(g) = Cardinality(Of(g))
    BY Parts, Part DEF WgCnt
  <2>3. /\ collector[g] = "loop" /\ (err[g])' = TRUE
        /\ (wg[g])' = wg[g] - (WgCnt(g) - doneCnt[g])
        /\ (doneCnt[g])' = WgCnt(g)
        /\ UNCHANGED <<group, doneCh, messages, collector>>
        /\ doneCnt[g] \in Nat /\ wg[g] \in Int
    BY <1>2 DEF Release, Values
  <2>4. g \in WithChannel
    BY <2>3 DEF GroupInv, Waited
  <2>5. Uncollected(g)' /\ Collected(g)'
    BY <2>1, <2>2, <2>3 DEF GroupInv, Uncollected, Collected
  <2>. QED
    BY <2>1, <2>3, <2>4, <2>5 DEF GroupInv, AllSent, Waited, Messages, Processed
<1>. QED
  BY <1>1, <1>2

-----------------------------------------------------------------------------
(* The steps of the tasks                                                  *)

\* A task of one group leaves the tasks of the others alone.
LEMMA Elsewhere ==
  ASSUME NEW t \in Tasks, NEW g \in Groups, g # GroupOf[t], Values,
         NEW from, NEW to, Pool!Become(t, from, to)
  PROVE  \A u \in Of(g) : task'[u] = task[u]
BY DEF Of, Pool!Become, Values

\* A task that is neither refused nor finished goes on, or gets lost.
LEMMA MoveKeeps ==
  ASSUME NEW t \in Tasks, NEW g \in Groups, Values, GroupInv(g),
         NEW from \in {"offered", "queued", "held"}, NEW to \in {"queued", "held", "lost"},
         Pool!Become(t, from, to),
         UNCHANGED group, UNCHANGED wg, UNCHANGED err, UNCHANGED doneCh,
         UNCHANGED messages, UNCHANGED doneCnt, UNCHANGED collector
  PROVE  GroupInv(g)'
<1>1. /\ Unnotified(g)' = Unnotified(g) /\ Sent(g)' = Sent(g)
      /\ Done(g)' = Done(g) /\ Of(g)' = Of(g)
  BY DEF Pool!Become, Unnotified, Sent, Done, Of, Values
<1>2. /\ Now(g, "rejected")' = Now(g, "rejected")
      /\ Now(g, "offered")' \subseteq Now(g, "offered")
  BY DEF Pool!Become, Now, Of, Pool!In, Values
<1>3. AllSent(g)'
  BY <1>1, <1>2 DEF GroupInv, AllSent
<1>. QED
  BY <1>1, <1>3 DEF GroupInv, Waited, Uncollected, Collected, Messages, Processed

\* A group counts the task that it adds.
LEMMA OfferKeeps ==
  ASSUME NEW t \in Tasks, NEW g \in Groups, Values, GroupInv(g),
         AddTask(t), Pool!Offer(t), wg' = Count(GroupOf[t]),
         UNCHANGED group, UNCHANGED doneCh
  PROVE  GroupInv(g)'
<1>1. /\ task[t] = "new" /\ Pool!Become(t, "new", "offered")
      /\ group[GroupOf[t]] = "adding"
      /\ UNCHANGED <<err, messages, doneCnt, collector>>
  BY DEF AddTask, Between, Pool!Offer, Pool!Become, collectorVars
<1>2. CASE g # GroupOf[t]
  <2>1. (wg[g])' = wg[g]
    BY <1>2, GroupAssumption DEF Count, Values
  <2>. QED
    BY <1>1, <1>2, <2>1, Elsewhere, Frame
<1>3. CASE g = GroupOf[t]
  <2>1. /\ Unnotified(g)' = Unnotified(g) \cup {t} /\ Sent(g)' = Sent(g) \cup {t}
        /\ Done(g)' = Done(g) /\ Of(g)' = Of(g)
        /\ t \in Of(g) /\ t \notin Unnotified(g) /\ t \notin Sent(g)
    BY <1>1, <1>3 DEF Pool!Become, Unnotified, Sent, Done, Of, Values
  <2>2. Now(g, "rejected")' = Now(g, "rejected")
    BY <1>1 DEF Pool!Become, Now, Of, Pool!In, Values
  <2>3. /\ Cardinality(Unnotified(g)') = Cardinality(Unnotified(g)) + 1
        /\ Cardinality(Sent(g)') = Cardinality(Sent(g)) + 1
        /\ Cardinality(Unnotified(g)) \in Nat /\ Cardinality(Sent(g)) \in Nat
    BY <2>1, Parts, OneMore, Part
  <2>4. (wg[g])' = wg[g] + 1 /\ wg[g] \in Int
    BY <1>3 DEF Count, Values
  <2>5. collector[g] = "none"
    BY <1>1, <1>3 DEF GroupInv, Collected
  <2>6. Waited(g)' /\ Uncollected(g)' /\ Collected(g)'
    BY <1>1, <1>3, <2>3, <2>4, <2>5 DEF GroupInv, Waited, Uncollected, Collected
  <2>7. AllSent(g)' /\ Messages(g)' /\ Processed(g)'
    BY <1>1, <1>3, <2>1, <2>2 DEF GroupInv, AllSent, Messages, Processed
  <2>. QED
    BY <2>6, <2>7 DEF GroupInv
<1>. QED
  BY <1>2, <1>3

\* A group returns the error of a task that is refused, before the send or in it.
LEMMA RejectKeeps ==
  ASSUME NEW t \in Tasks, NEW g \in Groups, Values, GroupInv(g),
         NEW from \in {"new", "offered"}, Pool!Become(t, from, "rejected"),
         Return(GroupOf[t], TRUE),
         UNCHANGED wg, UNCHANGED err, UNCHANGED messages, UNCHANGED doneCnt,
         UNCHANGED collector
  PROVE  GroupInv(g)'
<1>1. CASE g # GroupOf[t]
  <2>1. (group[g])' = group[g] /\ (doneCh[g])' = doneCh[g]
    BY <1>1 DEF Return, GotoG, Values
  <2>. QED
    BY <1>1, <2>1, Elsewhere, Frame
<1>2. CASE g = GroupOf[t]
  <2>1. (group[g])' = "err"
    BY <1>2 DEF Return, GotoG, Values
  <2>2. \A u \in Of(g) : \/ task'[u] = task[u]
                         \/ task[u] \in {"new", "offered"} /\ task'[u] = "rejected"
    BY DEF Pool!Become, Of, Values
  <2>. QED
    BY <2>1, <2>2, ErrKeeps
<1>. QED
  BY <1>1, <1>2

LEMMA AddTaskKeeps ==
  ASSUME NEW t \in Tasks, NEW g \in Groups, Values, GroupInv(g), AddTask(t)
  PROVE  GroupInv(g)'
<1>1. CASE /\ Pool!Offer(t) /\ wg' = Count(GroupOf[t])
           /\ UNCHANGED group /\ UNCHANGED doneCh
  BY <1>1, OfferKeeps
<1>2. CASE Pool!Refuse(t) /\ Return(GroupOf[t], TRUE) /\ UNCHANGED wg
  <2>1. /\ UNCHANGED err /\ UNCHANGED messages /\ UNCHANGED doneCnt
        /\ UNCHANGED collector /\ Pool!Become(t, "new", "rejected")
    BY <1>2 DEF AddTask, collectorVars, Pool!Refuse
  <2>. QED
    BY <1>2, <2>1, RejectKeeps
<1>. QED
  BY <1>1, <1>2 DEF AddTask

LEMMA SendPanicsKeeps ==
  ASSUME NEW t \in Tasks, NEW g \in Groups, Values, GroupInv(g), SendPanics(t)
  PROVE  GroupInv(g)'
<1>1. /\ UNCHANGED wg /\ UNCHANGED err /\ UNCHANGED messages /\ UNCHANGED doneCnt
      /\ UNCHANGED collector /\ Pool!Become(t, "offered", "rejected")
      /\ Return(GroupOf[t], TRUE)
  BY DEF SendPanics, collectorVars, Pool!Reject
<1>. QED
  BY <1>1, RejectKeeps

\* Sending, taking, failing and dropping a task notify nobody.
LEMMA QuietKeeps ==
  ASSUME NEW t \in Tasks, NEW g \in Groups, Values, GroupInv(g),
         SendTask(t) \/ TakeTask(t) \/ FailTask(t) \/ DropTask(t)
  PROVE  GroupInv(g)'
<1>1. /\ UNCHANGED group /\ UNCHANGED wg /\ UNCHANGED err /\ UNCHANGED doneCh
      /\ UNCHANGED messages /\ UNCHANGED doneCnt /\ UNCHANGED collector
  BY DEF SendTask, TakeTask, FailTask, DropTask, collectorVars
<1>2. CASE SendTask(t)
  BY <1>1, <1>2, MoveKeeps DEF SendTask, Pool!Accept
<1>3. CASE TakeTask(t)
  BY <1>1, <1>3, MoveKeeps DEF TakeTask, Pool!Take
<1>4. CASE FailTask(t)
  BY <1>1, <1>4, MoveKeeps DEF FailTask, Pool!Fail
<1>5. CASE DropTask(t)
  BY <1>1, <1>5, MoveKeeps DEF DropTask, Pool!Drop
<1>. QED
  BY <1>2, <1>3, <1>4, <1>5

\* A task that finishes counts its group's WaitGroup down, or is one message.
LEMMA FinishKeeps ==
  ASSUME NEW t \in Tasks, NEW g \in Groups, Values, GroupInv(g), FinishTask(t)
  PROVE  GroupInv(g)'
<1>1. /\ task[t] = "held" /\ Pool!Become(t, "held", "finished")
      /\ Notify(GroupOf[t])
      /\ UNCHANGED <<group, err, doneCh, doneCnt, collector>>
  BY DEF FinishTask, Pool!Finish, Pool!Become, collectorVars
<1>2. CASE g # GroupOf[t]
  <2>1. (wg[g])' = wg[g] /\ (messages[g])' = messages[g]
    BY <1>1, <1>2, GroupAssumption DEF Notify, Values
  <2>. QED
    BY <1>1, <1>2, <2>1, Elsewhere, Frame
<1>3. CASE g = GroupOf[t]
  <2>1. /\ Unnotified(g) = Unnotified(g)' \cup {t} /\ t \notin Unnotified(g)'
        /\ Done(g)' = Done(g) \cup {t} /\ t \notin Done(g) /\ t \in Of(g)
        /\ Sent(g)' = Sent(g) /\ Of(g)' = Of(g)
    BY <1>1, <1>3 DEF Pool!Become, Unnotified, Sent, Done, Of, Values
  <2>2. /\ Now(g, "rejected")' = Now(g, "rejected")
        /\ Now(g, "offered")' = Now(g, "offered")
    BY <1>1 DEF Pool!Become, Now, Of, Pool!In, Values
  <2>3. /\ Cardinality(Unnotified(g)) = Cardinality(Unnotified(g)') + 1
        /\ Cardinality(Unnotified(g)') \in Nat
        /\ Cardinality(Done(g)') = Cardinality(Done(g)) + 1
        /\ Cardinality(Done(g)) \in Nat
    BY <2>1, Parts, OneMore, Part
  <2>4. AllSent(g)' /\ Processed(g)'
    BY <1>1, <2>1, <2>2 DEF GroupInv, AllSent, Processed
  <2>5. CASE g \notin WithChannel
    <3>1. (wg[g])' = wg[g] - 1 /\ wg[g] \in Int /\ UNCHANGED messages
      BY <1>1, <1>3, <2>5 DEF Notify, Values
    <3>2. Waited(g)'
      BY <1>1, <2>3, <3>1 DEF GroupInv, Waited
    <3>3. Uncollected(g)' /\ Collected(g)'
      BY <1>1, <2>3, <2>5, <3>1, <3>2 DEF GroupInv, Waited, Uncollected, Collected
    <3>4. Messages(g)'
      BY <1>1, <2>3, <2>5, <3>1 DEF GroupInv, Messages, Values
    <3>. QED
      BY <2>4, <3>2, <3>3, <3>4 DEF GroupInv
  <2>6. CASE g \in WithChannel
    <3>1. /\ UNCHANGED wg
          /\ (messages[g])' = IF doneCh[g] = "open" THEN messages[g] + 1 ELSE messages[g]
          /\ messages[g] \in Nat /\ doneCnt[g] \in Nat
      BY <1>1, <1>3, <2>6 DEF Notify, Values
    <3>2. Waited(g)' /\ Uncollected(g)' /\ Collected(g)'
      BY <1>1, <2>1, <2>6, <3>1 DEF GroupInv, Waited, Uncollected, Collected
    <3>3. Messages(g)'
      BY <1>1, <2>3, <3>1 DEF GroupInv, Messages
    <3>. QED
      BY <2>4, <3>2, <3>3 DEF GroupInv
  <2>. QED
    BY <2>5, <2>6
<1>. QED
  BY <1>2, <1>3

-----------------------------------------------------------------------------
(* The invariant                                                           *)

\* Every variable keeps to its values but for the bounds of the counters.
LEMMA StepsKeepValues ==
  ASSUME Values, [Next]_vars
  PROVE  Values'
<1>. USE DEF poolVars, collectorVars
<1>1. CASE UNCHANGED vars
  BY <1>1 DEF vars, Values
<1>2. CASE OpenOrClose
  BY <1>2 DEF OpenOrClose, Pool!Open, Pool!Close, Pool!GiveUp, Pool!Closed, Values
<1>3. CASE CloseContext
  BY <1>3 DEF CloseContext, Values
<1>4. ASSUME NEW g \in Groups, StartGroup(g)  PROVE Values'
  BY <1>4 DEF StartGroup, GotoG, Values
<1>5. ASSUME NEW g \in Groups, AddingTimesOut(g)  PROVE Values'
  BY <1>5 DEF AddingTimesOut, Return, GotoG, Values
<1>6. ASSUME NEW g \in Groups, Wait(g)  PROVE Values'
  BY <1>6 DEF Wait, GotoG, Values
<1>7. ASSUME NEW g \in Groups, WaitReturns(g)  PROVE Values'
  BY <1>7 DEF WaitReturns, Return, GotoG, Values
<1>8. ASSUME NEW t \in Tasks, AddTask(t)  PROVE Values'
  BY <1>8, GroupAssumption DEF AddTask, Return, GotoG, Count, Pool!Offer, Pool!Refuse,
     Pool!Become, Values
<1>9. ASSUME NEW t \in Tasks, SendTask(t)  PROVE Values'
  BY <1>9 DEF SendTask, Pool!Accept, Pool!Become, Values
<1>10. ASSUME NEW t \in Tasks, SendPanics(t)  PROVE Values'
  BY <1>10 DEF SendPanics, Return, GotoG, Pool!Reject, Pool!Become, Values
<1>11. ASSUME NEW g \in Groups, Collect(g)  PROVE Values'
  <2>1. /\ messages' \in [Groups -> Nat] /\ doneCnt' \in [Groups -> Nat]
        /\ UNCHANGED <<task, phase, late, ctxClosed, fails, group, doneCh, timer>>
    BY <1>11 DEF Collect, Values
  <2>2. CASE Spare(g)
    <3>1. wg' = [wg EXCEPT ![g] = @ - 1] /\ UNCHANGED <<err, collector>>
      BY <1>11, <2>2 DEF Collect
    <3>. QED
      BY <2>1, <3>1 DEF Values
  <2>3. CASE ~Spare(g)
    <3>1. /\ err' = [err EXCEPT ![g] = TRUE] /\ wg' = wg
          /\ collector' = [collector EXCEPT ![g] = "end"]
      BY <1>11, <2>3 DEF Collect
    <3>. QED
      BY <2>1, <3>1 DEF Values
  <2>. QED
    BY <2>2, <2>3
<1>12. ASSUME NEW g \in Groups, EndCollector(g)  PROVE Values'
  BY <1>12 DEF EndCollector, Values
<1>13. ASSUME NEW g \in Groups, Release(g), timer' \in [Groups -> {"armed", "fired"}]
       PROVE Values'
  <2>1. WgCnt(g) \in Nat
    BY Part, Parts DEF WgCnt
  <2>. QED
    BY <1>13, <2>1 DEF Release, Values
<1>14. ASSUME NEW g \in Groups, ReleaseOnContext(g) \/ TimerFires(g)  PROVE Values'
  BY <1>13, <1>14 DEF ReleaseOnContext, TimerFires, Values
<1>15. ASSUME NEW t \in Tasks, TakeTask(t)  PROVE Values'
  BY <1>15 DEF TakeTask, Pool!Take, Pool!Become, Values
<1>16. ASSUME NEW t \in Tasks, FinishTask(t)  PROVE Values'
  BY <1>16 DEF FinishTask, Notify, Pool!Finish, Pool!Become, Values
<1>17. ASSUME NEW t \in Tasks, FailTask(t)  PROVE Values'
  BY <1>17, GroupAssumption DEF FailTask, Pool!Fail, Pool!Become, Values
<1>18. ASSUME NEW t \in Tasks, DropTask(t)  PROVE Values'
  BY <1>18 DEF DropTask, Pool!Drop, Pool!Become, Values
<1>. QED
  BY <1>1, <1>2, <1>3, <1>4, <1>5, <1>6, <1>7, <1>8, <1>9, <1>10, <1>11, <1>12,
     <1>14, <1>15, <1>16, <1>17, <1>18
     DEF Next, RunGroup, RunCollector, Serve, Of

\* The pool and the service's context say nothing of a group.
LEMMA PoolKeeps ==
  ASSUME NEW g \in Groups, GroupInv(g), OpenOrClose \/ CloseContext \/ UNCHANGED vars
  PROVE  GroupInv(g)'
<1>1. /\ task' = task /\ group' = group /\ wg' = wg /\ err' = err /\ doneCh' = doneCh
      /\ messages' = messages /\ doneCnt' = doneCnt /\ collector' = collector
  BY DEF OpenOrClose, CloseContext, Pool!Open, Pool!Close, Pool!GiveUp, Pool!Closed,
     vars, poolVars, collectorVars
<1>. QED
  BY <1>1, Frame

\* Every step keeps what holds of every group.
LEMMA StepsKeepGroups ==
  ASSUME NEW g \in Groups, Values, GroupInv(g), [Next]_vars
  PROVE  GroupInv(g)'
<1>1. CASE OpenOrClose \/ CloseContext \/ UNCHANGED vars
  BY <1>1, PoolKeeps
<1>2. ASSUME NEW h \in Groups, StartGroup(h)  PROVE GroupInv(g)'
  BY <1>2, StartKeeps
<1>3. ASSUME NEW h \in Groups, AddingTimesOut(h)  PROVE GroupInv(g)'
  BY <1>3, AddingTimesOutKeeps
<1>4. ASSUME NEW h \in Groups, Wait(h)  PROVE GroupInv(g)'
  BY <1>4, WaitKeeps
<1>5. ASSUME NEW h \in Groups, WaitReturns(h)  PROVE GroupInv(g)'
  BY <1>5, WaitReturnsKeeps
<1>6. ASSUME NEW h \in Groups, Collect(h)  PROVE GroupInv(g)'
  BY <1>6, CollectKeeps
<1>7. ASSUME NEW h \in Groups, EndCollector(h)  PROVE GroupInv(g)'
  BY <1>7, EndCollectorKeeps
<1>8. ASSUME NEW h \in Groups, ReleaseOnContext(h) \/ TimerFires(h)  PROVE GroupInv(g)'
  BY <1>8, ReleaseKeeps DEF ReleaseOnContext, TimerFires
<1>9. ASSUME NEW t \in Tasks, AddTask(t)  PROVE GroupInv(g)'
  BY <1>9, AddTaskKeeps
<1>10. ASSUME NEW t \in Tasks, SendPanics(t)  PROVE GroupInv(g)'
  BY <1>10, SendPanicsKeeps
<1>11. ASSUME NEW t \in Tasks, SendTask(t) \/ TakeTask(t) \/ FailTask(t) \/ DropTask(t)
       PROVE GroupInv(g)'
  BY <1>11, QuietKeeps
<1>12. ASSUME NEW t \in Tasks, FinishTask(t)  PROVE GroupInv(g)'
  BY <1>12, FinishKeeps
<1>. QED
  BY <1>1, <1>2, <1>3, <1>4, <1>5, <1>6, <1>7, <1>8, <1>9, <1>10, <1>11, <1>12
     DEF Next, RunGroup, RunCollector, Serve, Of

\* A new service has no task that counts.
LEMMA InitInv == Init => Inv
<1>. SUFFICES ASSUME Init  PROVE Inv
  OBVIOUS
<1>1. Values
  <2>1. /\ task \in [Tasks -> {"new", "offered", "rejected", "queued", "held",
                               "finished", "lost"}]
        /\ phase = "new" /\ late \in BOOLEAN /\ ctxClosed \in BOOLEAN
    BY DEF Init, Pool!Init
  <2>2. fails \in 0..MaxFails
    BY GroupAssumption DEF Init
  <2>3. /\ group \in [Groups -> {"idle", "adding", "waiting", "ok", "err"}]
        /\ doneCh \in [Groups -> {"open", "closed"}]
        /\ timer \in [Groups -> {"armed", "fired"}]
        /\ collector \in [Groups -> {"none", "loop", "end"}]
        /\ err \in [Groups -> BOOLEAN]
    BY DEF Init
  <2>4. /\ wg \in [Groups -> Int] /\ messages \in [Groups -> Nat]
        /\ doneCnt \in [Groups -> Nat]
    BY DEF Init
  <2>. QED
    BY <2>1, <2>2, <2>3, <2>4 DEF Values
<1>2. ASSUME NEW g \in Groups  PROVE GroupInv(g)
  <2>1. Unnotified(g) = {} /\ Sent(g) = {} /\ Done(g) = {}
    BY DEF Init, Pool!Init, Unnotified, Sent, Done, Of
  <2>2. Now(g, "rejected") = {}
    BY DEF Init, Pool!Init, Now, Of, Pool!In
  <2>3. Cardinality({}) = 0
    BY FS_EmptySet
  <2>. QED
    BY <2>1, <2>2, <2>3 DEF Init, GroupInv, AllSent, Waited, Uncollected, Collected,
       Messages, Processed
<1>. QED
  BY <1>1, <1>2 DEF Inv

LEMMA NextInv == Inv /\ [Next]_vars => Inv'
BY StepsKeepValues, StepsKeepGroups DEF Inv

LEMMA Invariance == Spec => []Inv
<1>. QED
  BY InitInv, NextInv, PTL DEF Spec

\* TaskGroup.tla, TypeOK: every variable keeps to its values; the buffer of doneCh
\* (workerpool_service.go:152) has room for every message, and the collector counts
\* at most one more than there are tasks.
THEOREM GroupType == Spec => []TypeOK
<1>1. Inv => TypeOK
  <2>. SUFFICES ASSUME Inv, NEW g \in Groups
       PROVE /\ messages[g] <= Cardinality(Of(g))
             /\ doneCnt[g] <= Cardinality(Of(g)) + 1
    BY DEF Inv, Values, TypeOK
  <2>1. /\ Cardinality(Done(g)) \in Nat /\ Cardinality(Of(g)) \in Nat
        /\ Cardinality(Done(g)) <= Cardinality(Of(g))
    BY Parts, Part
  <2>2. messages[g] \in Nat /\ doneCnt[g] \in Nat /\ wg[g] \in Int
    BY DEF Inv, Values
  <2>3. messages[g] <= Cardinality(Of(g))
    BY <2>1, <2>2 DEF Inv, GroupInv, Messages
  <2>4. doneCnt[g] <= Cardinality(Of(g)) + 1
    BY <2>1, <2>2 DEF Inv, GroupInv, Uncollected, Collected
  <2>. QED
    BY <2>3, <2>4
<1>. QED
  BY <1>1, Invariance, PTL

\* TaskGroup.tla, OkMeansDone: a group that returns no error had all of its tasks
\* processed, for any number of groups and tasks.
THEOREM OkIsDone == Spec => []OkMeansDone
<1>1. Inv => OkMeansDone
  BY DEF Inv, GroupInv, Processed, OkMeansDone, Done, Now, Of, Pool!In
<1>. QED
  BY <1>1, Invariance, PTL

\* TaskGroup.tla, NeverNegative: no WaitGroup is counted below zero, however the
\* messages, the timeout and the context meet.
THEOREM NeverBelowZero == Spec => []NeverNegative
<1>1. Inv => NeverNegative
  <2>. SUFFICES ASSUME Inv, NEW g \in Groups  PROVE wg[g] >= 0
    BY DEF NeverNegative
  <2>1. CASE collector[g] = "none"
    BY <2>1 DEF Inv, GroupInv, Uncollected
  <2>2. CASE collector[g] # "none"
    BY <2>2 DEF Inv, GroupInv, Collected
  <2>. QED
    BY <2>1, <2>2
<1>. QED
  BY <1>1, Invariance, PTL
=============================================================================
