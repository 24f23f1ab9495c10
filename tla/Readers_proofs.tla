---------------------------- MODULE Readers_proofs ----------------------------
(***************************************************************************)
(* Proofs about Readers, for every finite set of owners and viewers, all   *)
(* tasks, and every number of events and full queues.                      *)
(***************************************************************************)
EXTENDS Readers, FiniteSetTheorems, TLAPS

TaskType ==
  [at : {"idle", "owner", "viewers", "done"}, frame : 0..MaxSeq, loop : Loop,
   kind : {"none", "update", "result", "again"}]

DoingType ==
  [at : {"free", "telling", "spawning", "acking", "replaying", "closing"},
   seen : 0..MaxSeq, upto : 0..MaxSeq, loop : Loop]

Pairs == Conns \X (1..MaxSeq)

(***************************************************************************)
(* What the helpers of the actions return                                  *)
(***************************************************************************)
LEMMA FiniteConns ==
  ASSUME NEW S \in SUBSET Conns
  PROVE  Cardinality(S) \in 0..Cardinality(Conns) /\ Cardinality(Conns) \in Nat
  <1>1. IsFiniteSet(Conns)
    BY FiniteAssumption, FS_Union DEF Conns
  <1>2. IsFiniteSet(S) /\ Cardinality(S) <= Cardinality(Conns)
    BY <1>1, FS_Subset
  <1>3. Cardinality(S) \in Nat /\ Cardinality(Conns) \in Nat
    BY <1>1, <1>2, FS_CardinalityType
  <1> QED
    BY <1>2, <1>3

LEMMA LoopTypes ==
  ASSUME watchers \subseteq Conns
  PROVE  /\ NoLoop \in Loop
         /\ \A S \in SUBSET Conns, w \in Conns \cup {NoConn} : Suspends(S, w) \in Loop
  <1>1. Cardinality(watchers) \in 0..Cardinality(Conns) /\ Cardinality(Conns) \in Nat
    BY FiniteConns
  <1> QED
    BY <1>1 DEF NoLoop, Suspends, Loop

LEMMA RestTypes ==
  ASSUME watchers \subseteq Conns
  PROVE  Quiet \in TaskType /\ Free \in DoingType
  BY LoopTypes, BoundAssumption DEF Quiet, Free, TaskType, DoingType

(* A loop over the viewers ends, or suspends in the put of one of them; it *)
(* takes what it hands over from `owed`, and leaves the other tasks alone. *)
LEMMA ToViewersTypes ==
  ASSUME task \in [Tasks -> TaskType], watchers \subseteq Conns, NEW e \in Tasks,
         NEW t \in TaskType, NEW owed, NEW past \in SUBSET Conns,
         NEW S \in SUBSET Conns, ToViewers(e, t, owed, past, S)
  PROVE  /\ task' \in [Tasks -> TaskType]
         /\ due' \subseteq owed
         /\ \A f \in Tasks \ {e} : task'[f] = task[f]
         /\ \/ task'[e].at = "done"
            \/ /\ task'[e].at = "viewers" /\ task'[e].frame = t.frame
               /\ task'[e].loop.wait \in Conns
  <1>1. PICK o \in Reaches(S) :
          /\ due' = owed \ (o[1] \X {t.frame})
          /\ IF o[2] = NoConn THEN task' = Done(e)
             ELSE task' = [task EXCEPT ![e] =
                     [t EXCEPT !.at = "viewers", !.loop = Suspends(past \cup o[1], o[2])]]
    BY DEF ToViewers
  <1>2. o[1] \in SUBSET Conns /\ o[2] \in Conns \cup {NoConn}
    BY DEF Reaches
  <1>3. Suspends(past \cup o[1], o[2]) \in Loop
    BY <1>2, LoopTypes
  <1>4. [t EXCEPT !.at = "viewers", !.loop = Suspends(past \cup o[1], o[2])] \in TaskType
    BY <1>3 DEF TaskType
  <1>5. [Quiet EXCEPT !.at = "done"] \in TaskType /\ [Quiet EXCEPT !.at = "done"].at = "done"
    BY RestTypes DEF TaskType
  <1>6. CASE o[2] = NoConn
    BY <1>1, <1>5, <1>6 DEF Done
  <1>7. CASE o[2] # NoConn
    <2> DEFINE u == [t EXCEPT !.at = "viewers", !.loop = Suspends(past \cup o[1], o[2])]
    <2>1. u.at = "viewers" /\ u.frame = t.frame /\ u.loop.wait \in Conns
      BY <1>2, <1>7 DEF TaskType, Suspends
    <2>2. task' = [task EXCEPT ![e] = u]
      BY <1>1, <1>7
    <2>3. u \in TaskType
      BY <1>4
    <2> HIDE DEF u
    <2> QED
      BY <1>1, <2>1, <2>2, <2>3
  <1> QED
    BY <1>6, <1>7

(* Whom the loop has still to serve, it waits for, or will come to.        *)
LEMMA ToViewersServes ==
  ASSUME task \in [Tasks -> TaskType], watchers \subseteq Conns, NEW e \in Tasks,
         NEW t \in TaskType, NEW owed, NEW past \in SUBSET Conns,
         ToViewers(e, t, owed, past, watchers \ past),
         NEW c \in watchers \ past, <<c, t.frame>> \in due'
  PROVE  /\ task'[e].at = "viewers"
         /\ task'[e].frame = t.frame
         /\ c = task'[e].loop.wait \/ c \in ToVisit(task'[e].loop)
  <1>1. PICK o \in Reaches(watchers \ past) :
          /\ due' = owed \ (o[1] \X {t.frame})
          /\ IF o[2] = NoConn THEN task' = Done(e)
             ELSE task' = [task EXCEPT ![e] =
                     [t EXCEPT !.at = "viewers", !.loop = Suspends(past \cup o[1], o[2])]]
    BY DEF ToViewers
  <1>2. c \notin o[1]
    BY <1>1
  <1>3. o[2] # NoConn
    BY <1>2 DEF Reaches
  <1>4. task'[e] = [t EXCEPT !.at = "viewers", !.loop = Suspends(past \cup o[1], o[2])]
    BY <1>1, <1>3
  <1>5. task'[e].at = "viewers" /\ task'[e].frame = t.frame
        /\ task'[e].loop = Suspends(past \cup o[1], o[2])
    BY <1>4 DEF TaskType
  <1> QED
    BY <1>2, <1>5 DEF ToVisit, Suspends

LEMMA OnEventTypes ==
  ASSUME TypeOK, NEW e \in Tasks, NEW kind \in {"update", "result", "again"}, NEW owed,
         OnEvent(e, kind, owed)
  PROVE  /\ task' \in [Tasks -> TaskType]
         /\ seq' = seq + 1 /\ seq' \in 0..MaxSeq
         /\ due' \subseteq owed \cup ({c \in Conns : Reads(c) /\ conn[c] = "up"} \X {seq + 1})
         /\ \A f \in Tasks \ {e} : task'[f] = task[f]
         /\ task'[e].at \in {"owner", "viewers"} => task'[e].frame = seq + 1
         /\ task'[e].at = "viewers" => task'[e].loop.wait \in Conns
  <1> DEFINE t   == [Quiet EXCEPT !.kind = kind, !.frame = seq + 1]
             all == owed \cup ({c \in Conns : Reads(c) /\ conn[c] = "up"} \X {seq + 1})
  <1>1. task \in [Tasks -> TaskType] /\ watchers \subseteq Conns
    BY DEF TypeOK, TaskType
  <1>2. seq' = seq + 1 /\ seq' \in 0..MaxSeq
    BY BoundAssumption DEF OnEvent, TypeOK
  <1>3. t \in TaskType
    BY <1>1, <1>2, RestTypes DEF TaskType
  <1>4. CASE Blocked(owner)
    <2>1. due' = all /\ task' = [task EXCEPT ![e] =
                                  [t EXCEPT !.at = "owner", !.loop.wait = owner]]
      BY <1>4 DEF OnEvent
    <2>2. /\ [t EXCEPT !.at = "owner", !.loop.wait = owner] \in TaskType
          /\ [t EXCEPT !.at = "owner", !.loop.wait = owner].frame = t.frame
          /\ [t EXCEPT !.at = "owner", !.loop.wait = owner].at = "owner"
      BY <1>3 DEF TaskType, Loop, TypeOK
    <2>3. t.frame = seq + 1
      BY <1>1, <1>2, RestTypes DEF TaskType
    <2> QED
      BY <1>1, <1>2, <2>1, <2>2, <2>3
  <1>5. CASE ~Blocked(owner)
    <2>1. ToViewers(e, t, all \ {<<owner, seq + 1>>}, {}, watchers)
      BY <1>5 DEF OnEvent
    <2> HIDE DEF t, all
    <2>2. /\ task' \in [Tasks -> TaskType]
          /\ due' \subseteq all
          /\ \A f \in Tasks \ {e} : task'[f] = task[f]
          /\ \/ task'[e].at = "done"
             \/ /\ task'[e].at = "viewers" /\ task'[e].frame = t.frame
                /\ task'[e].loop.wait \in Conns
      <3>1. {} \in SUBSET Conns /\ watchers \in SUBSET Conns
        BY <1>1
      <3>2. /\ task' \in [Tasks -> TaskType]
            /\ due' \subseteq all \ {<<owner, seq + 1>>}
            /\ \A f \in Tasks \ {e} : task'[f] = task[f]
            /\ \/ task'[e].at = "done"
               \/ /\ task'[e].at = "viewers" /\ task'[e].frame = t.frame
                  /\ task'[e].loop.wait \in Conns
        BY <1>1, <1>3, <2>1, <3>1, ToViewersTypes
      <3> QED
        BY <3>2
    <2>3. t.frame = seq + 1
      BY <1>1, <1>2, RestTypes DEF t, TaskType
    <2> QED
      BY <1>2, <2>2, <2>3 DEF all
  <1> QED
    BY <1>4, <1>5

(* The new event is on its way to whom it is due.                          *)
LEMMA OnEventServes ==
  ASSUME TypeOK, NEW e \in Tasks, NEW kind \in {"update", "result", "again"}, NEW owed,
         owed \subseteq Conns \X (1..seq), OnEvent(e, kind, owed),
         NEW c \in Conns, <<c, seq + 1>> \in due'
  PROVE  /\ Reads(c)
         /\ task'[e].frame = seq + 1
         /\ \/ task'[e].at = "owner" /\ (task'[e].loop.wait = c \/ c \in watchers)
            \/ /\ task'[e].at = "viewers"
               /\ c = task'[e].loop.wait \/ c \in ToVisit(task'[e].loop)
         /\ owner = c => task'[e].at = "owner" /\ task'[e].loop.wait = c
  <1> DEFINE t   == [Quiet EXCEPT !.kind = kind, !.frame = seq + 1]
             all == owed \cup ({d \in Conns : Reads(d) /\ conn[d] = "up"} \X {seq + 1})
  <1>1. task \in [Tasks -> TaskType] /\ watchers \subseteq Conns /\ seq \in Nat
    BY BoundAssumption DEF TypeOK, TaskType
  <1>2. t \in TaskType /\ t.frame = seq + 1
    <2>1. seq + 1 \in 0..MaxSeq
      BY <1>1, OnEventTypes
    <2> QED
      BY <1>1, <2>1, RestTypes DEF TaskType
  <1>3. <<c, seq + 1>> \in all
    BY OnEventTypes
  <1>4. Reads(c)
    BY <1>1, <1>3
  <1>5. CASE Blocked(owner)
    <2>1. task' = [task EXCEPT ![e] = [t EXCEPT !.at = "owner", !.loop.wait = owner]]
      BY <1>5 DEF OnEvent
    <2>2. task'[e].at = "owner" /\ task'[e].frame = seq + 1 /\ task'[e].loop.wait = owner
      BY <1>1, <1>2, <2>1 DEF TaskType, Loop
    <2> QED
      BY <1>4, <2>2 DEF Reads
  <1>6. CASE ~Blocked(owner)
    <2>1. ToViewers(e, t, all \ {<<owner, seq + 1>>}, {}, watchers)
      BY <1>6 DEF OnEvent
    <2> HIDE DEF t, all
    <2>2. due' \subseteq all \ {<<owner, seq + 1>>}
      BY <1>1, <1>2, <2>1, ToViewersTypes
    <2>3. c # owner /\ c \in watchers
      BY <1>4, <2>2 DEF Reads
    <2>4. watchers \ {} = watchers
      OBVIOUS
    <2>5. /\ task'[e].at = "viewers" /\ task'[e].frame = seq + 1
          /\ c = task'[e].loop.wait \/ c \in ToVisit(task'[e].loop)
      BY <1>1, <1>2, <2>1, <2>3, <2>4, ToViewersServes
    <2> QED
      BY <1>4, <2>3, <2>5
  <1> QED
    BY <1>5, <1>6

(* A handler that gives c a place in its request.                          *)
LEMMA HandlesTypes ==
  ASSUME TypeOK, NEW c \in Conns, NEW phase \in DoingType, Handles(c, phase)
  PROVE  /\ doing' \in [Conns -> DoingType]
         /\ doing'[c] = phase
         /\ \A d \in Conns \ {c} : doing'[d] = doing[d]
  BY DEF Handles, TypeOK, DoingType

LEMMA PhaseTypes ==
  ASSUME TypeOK, NEW seen \in 0..MaxSeq,
         NEW at \in {"free", "telling", "spawning", "acking", "replaying", "closing"}
  PROVE  /\ Phase(at, seen) \in DoingType
         /\ Phase(at, seen).at = at /\ Phase(at, seen).seen = seen
  BY RestTypes DEF Phase, DoingType, TypeOK

(* After a replay, what is due is what was due to the others, and what     *)
(* waits for room in the queue of the reader.                              *)
LEMMA ReplaysTypes ==
  ASSUME TypeOK, NEW c \in Conns, NEW seen \in 0..MaxSeq, NEW S \in SUBSET Conns,
         Replays(c, seen, S)
  PROVE  /\ doing' \in [Conns -> DoingType]
         /\ full' \subseteq Conns
         /\ \A d \in Conns \ {c} : doing'[d] = doing[d]
         /\ \A p \in due' :
              \/ p \in due /\ p[1] \in S
              \/ /\ p \in Conns \X (1..seq) /\ p[1] = c
                 /\ conn[c] = "up" /\ doing'[c].at = "replaying"
                 /\ p[2] \in (doing'[c].seen + 1)..doing'[c].upto
         /\ doing'[c].at = "free" \/ (doing'[c].at = "replaying" /\ conn[c] = "up")
  <1> DEFINE phase == [Phase("replaying", seen) EXCEPT !.upto = seq]
  <1>1. seq \in 0..MaxSeq /\ seen \in 0..MaxSeq /\ full \subseteq Conns /\ watchers \subseteq Conns
    BY BoundAssumption DEF TypeOK
  <1>2. Free \in DoingType /\ Free.at = "free"
    BY <1>1, RestTypes DEF Free
  <1>3. Phase("replaying", seen) \in DoingType /\ Phase("replaying", seen).at = "replaying"
        /\ Phase("replaying", seen).seen = seen
    BY <1>1, PhaseTypes
  <1>4. phase \in DoingType /\ phase.at = "replaying" /\ phase.seen = seen /\ phase.upto = seq
    BY <1>1, <1>3 DEF DoingType
  <1> HIDE DEF phase
  <1>5. CASE due' = Of(S) /\ Handles(c, Free) /\ UNCHANGED full
    BY <1>1, <1>2, <1>5, HandlesTypes DEF Of
  <1>6. CASE /\ After(c, seen) # {} /\ due' = Of(S) \cup After(c, seen)
             /\ full' = full \cup {c} /\ Handles(c, phase)
    <2>1. /\ doing' \in [Conns -> DoingType] /\ doing'[c] = phase
          /\ \A d \in Conns \ {c} : doing'[d] = doing[d]
      BY <1>4, <1>6, HandlesTypes
    <2>2. conn[c] = "up"
      BY <1>6 DEF After
    <2>3. After(c, seen) = {c} \X ((seen + 1)..seq)
      BY <2>2 DEF After
    <2>4. \A p \in After(c, seen) : /\ p \in Conns \X (1..seq) /\ p[1] = c
                                    /\ p[2] \in (seen + 1)..seq
      BY <1>1, <2>3, BoundAssumption
    <2> QED
      BY <1>1, <1>4, <1>6, <2>1, <2>2, <2>4 DEF Of
  <1> QED
    BY <1>5, <1>6 DEF Replays, phase

-----------------------------------------------------------------------------
(***************************************************************************)
(* The inductive invariant                                                 *)
(***************************************************************************)

(* A frame that is being handed has been numbered.                         *)
Numbered == \A e \in Tasks : task[e].at \in {"owner", "viewers"} => task[e].frame \in 1..seq

(* A loop over the viewers is suspended in the put of one.                 *)
Waiting ==
  /\ \A e \in Tasks : task[e].at = "viewers" => task[e].loop.wait \in Conns
  /\ \A c \in Conns : doing[c].at = "closing" => doing[c].loop.wait \in Conns

(* What is due is an event so far, to a connection that is served.         *)
Current == \A p \in due : conn[p[1]] = "up" /\ p[2] \in 1..seq

(* Where a connection has ended, no handler is suspended.                  *)
Resting == \A c \in Conns : conn[c] = "down" => doing[c].at = "free"

(* The event of p is on its way: from a task, waiting for the owner it was *)
(* recorded for, or from the replay.                                       *)
OnTask(e, p) ==
  /\ task[e].frame = p[2]
  /\ \/ task[e].at = "owner" /\ (task[e].loop.wait = p[1] \/ p[1] \in watchers)
     \/ task[e].at = "viewers" /\ (task[e].loop.wait = p[1] \/ p[1] \in ToVisit(task[e].loop))

ToOwner(e, p) == task[e].frame = p[2] /\ task[e].at = "owner" /\ task[e].loop.wait = p[1]

Replaying(p) ==
  doing[p[1]].at = "replaying" /\ p[2] \in (doing[p[1]].seen + 1)..doing[p[1]].upto

(* The owner does not depend on being a viewer too: it may cease to be one *)
(* before the loop comes to the viewers.                                   *)
OwnerServed ==
  \A p \in due : owner = p[1] /\ p[2] \notin cut =>
    (\E e \in Tasks : ToOwner(e, p)) \/ Replaying(p)

Inv == /\ TypeOK /\ Numbered /\ Waiting /\ Current /\ Resting
       /\ OwnerServed /\ NothingMissed /\ NoGhosts

LEMMA UnderWayIs ==
  \A p : UnderWay(p[1], p[2]) <=> (\E e \in Tasks : OnTask(e, p)) \/ Replaying(p)
  BY DEF UnderWay, OnTask, Replaying

(* What a step of a task leaves of what is due: it may be done with what   *)
(* it was handing, and what it has numbered it hands.                      *)
TaskStep(e) ==
  /\ UNCHANGED <<present, owner, watchers, owned, conn, full, doing>>
  /\ task' \in [Tasks -> TaskType]
  /\ \A f \in Tasks \ {e} : task'[f] = task[f]
  /\ seq' \in {seq, seq + 1} /\ seq' \in 0..MaxSeq
  /\ cut \subseteq cut' /\ cut' \subseteq 1..MaxSeq
  /\ task'[e].at \in {"owner", "viewers"} => task'[e].frame \in 1..seq'
  /\ task'[e].at = "viewers" => task'[e].loop.wait \in Conns
  /\ \A p \in due' :
       \/ /\ p \in due
          /\ p[2] \in cut' \/ (OnTask(e, p) => OnTask(e, p)' /\ ~ToOwner(e, p))
       \/ /\ p \in Pairs /\ conn[p[1]] = "up" /\ p[2] = seq + 1 /\ seq' = seq + 1
          /\ OnTask(e, p)'
          /\ owner = p[1] => ToOwner(e, p)'

(* What a step of a connection leaves of it: it may replay, and cease to   *)
(* read.                                                                   *)
ConnStep ==
  /\ UNCHANGED agents
  /\ TypeOK'
  /\ \A p \in due' :
       /\ conn'[p[1]] = "up"
       /\ \/ p \in Conns \X (1..seq) /\ Replaying(p)'
          \/ /\ p \in due
             /\ Replaying(p) => Replaying(p)'
             /\ Reads(p[1])' => Reads(p[1])
             /\ owner' = p[1] => owner = p[1]
             /\ p[1] \in watchers \ watchers' => owner' = p[1] \/ ~Reads(p[1])'
  /\ \A d \in Conns : conn'[d] = "down" => doing'[d].at = "free"
  /\ \A d \in Conns : doing'[d].at = "closing" => doing'[d].loop.wait \in Conns
  /\ present' => present
  /\ present' => \A d \in Conns : conn'[d] = "down" /\ Reads(d)' => conn[d] = "down" /\ Reads(d)

LEMMA TaskStepKeeps ==
  ASSUME Inv, NEW e \in Tasks, TaskStep(e)
  PROVE  Inv'
  <1>1. seq \in Nat /\ MaxSeq \in Nat
    BY BoundAssumption DEF Inv, TypeOK
  <1>2. TypeOK'
    BY <1>1 DEF Inv, TypeOK, TaskStep, TaskType, Pairs, Loop
  <1>3. Numbered' /\ Waiting'
    BY <1>1 DEF Inv, Numbered, Waiting, TaskStep
  <1>4. Current'
    BY <1>1 DEF Inv, Current, TaskStep
  <1>5. Resting' /\ NoGhosts'
    BY DEF Inv, Resting, NoGhosts, TaskStep, Reads
  <1>6. ASSUME NEW f \in Tasks \ {e}, NEW p
        PROVE  OnTask(f, p)' = OnTask(f, p) /\ ToOwner(f, p)' = ToOwner(f, p)
    <2>1. task'[f] = task[f] /\ watchers' = watchers
      BY DEF TaskStep
    <2> QED
      BY <2>1 DEF OnTask, ToOwner, ToVisit
  <1>7. \A p : Replaying(p)' = Replaying(p)
    BY DEF Replaying, TaskStep
  <1>8. ASSUME NEW p \in due', Reads(p[1])', p[2] \notin cut'
        PROVE  (\E f \in Tasks : OnTask(f, p)') \/ Replaying(p)'
    <2>1. CASE p \in due
      <3>1. Reads(p[1]) /\ p[2] \notin cut
        BY <1>8 DEF TaskStep, Reads
      <3>2. (\E f \in Tasks : OnTask(f, p)) \/ Replaying(p)
        BY <2>1, <3>1, UnderWayIs DEF Inv, NothingMissed
      <3>3. p[2] # seq + 1
        BY <1>1, <2>1 DEF Inv, Current
      <3>4. OnTask(e, p) => OnTask(e, p)'
        BY <1>8, <3>3 DEF TaskStep
      <3> QED
        BY <3>2, <3>4, <1>6, <1>7
    <2>2. CASE p \notin due
      BY <2>2 DEF TaskStep
    <2> QED
      BY <2>1, <2>2
  <1>9. NothingMissed'
    <2>1. \A p : UnderWay(p[1], p[2])' <=> (\E f \in Tasks : OnTask(f, p)') \/ Replaying(p)'
      BY DEF UnderWay, OnTask, Replaying
    <2> QED
      BY <1>8, <2>1 DEF NothingMissed
  <1>10. OwnerServed'
    <2> SUFFICES ASSUME NEW p \in due', owner' = p[1], p[2] \notin cut'
                 PROVE  (\E f \in Tasks : ToOwner(f, p)') \/ Replaying(p)'
      BY DEF OwnerServed
    <2>1. CASE p \in due
      <3>1. owner = p[1] /\ p[2] \notin cut
        BY DEF TaskStep
      <3>2. (\E f \in Tasks : ToOwner(f, p)) \/ Replaying(p)
        BY <2>1, <3>1 DEF Inv, OwnerServed
      <3>3. p[2] # seq + 1
        BY <1>1, <2>1 DEF Inv, Current
      <3>4. OnTask(e, p) => ~ToOwner(e, p)
        BY <3>3 DEF TaskStep
      <3>5. ~ToOwner(e, p)
        BY <3>4 DEF OnTask, ToOwner
      <3> QED
        BY <3>2, <3>5, <1>6, <1>7
    <2>2. CASE p \notin due
      BY <2>2 DEF TaskStep
    <2> QED
      BY <2>1, <2>2
  <1> QED
    BY <1>2, <1>3, <1>4, <1>5, <1>9, <1>10 DEF Inv

LEMMA ConnStepKeeps ==
  ASSUME Inv, ConnStep
  PROVE  Inv'
  <1>1. TypeOK' /\ Numbered' /\ Waiting'
    BY DEF Inv, Numbered, Waiting, ConnStep, agents
  <1>2. Current'
    <2>1. seq' = seq
      BY DEF ConnStep, agents
    <2> QED
      BY <2>1 DEF Inv, Current, ConnStep
  <1>3. Resting' /\ NoGhosts'
    BY DEF Inv, Resting, NoGhosts, ConnStep
  <1>4. ASSUME NEW p \in due', owner' = p[1], p[2] \notin cut'
        PROVE  (\E f \in Tasks : ToOwner(f, p)') \/ Replaying(p)'
    <2> SUFFICES ASSUME ~Replaying(p)'
                 PROVE  \E f \in Tasks : ToOwner(f, p)'
      OBVIOUS
    <2>1. p \in due /\ owner = p[1] /\ ~Replaying(p)
      BY <1>4 DEF ConnStep
    <2>2. cut' = cut /\ task' = task
      BY DEF ConnStep, agents
    <2>3. \E f \in Tasks : ToOwner(f, p)
      BY <1>4, <2>1, <2>2 DEF Inv, OwnerServed
    <2> QED
      BY <2>2, <2>3 DEF ToOwner
  <1>5. ASSUME NEW p \in due', Reads(p[1])', p[2] \notin cut'
        PROVE  (\E f \in Tasks : OnTask(f, p)') \/ Replaying(p)'
    <2>1. CASE owner' = p[1]
      BY <1>4, <1>5, <2>1 DEF OnTask, ToOwner
    <2>2. CASE owner' # p[1] /\ ~Replaying(p)'
      <3>1. p \in due /\ ~Replaying(p) /\ Reads(p[1]) /\ p[1] \notin watchers \ watchers'
        BY <1>5, <2>2 DEF ConnStep
      <3>2. cut' = cut /\ task' = task
        BY DEF ConnStep, agents
      <3>3. PICK f \in Tasks : OnTask(f, p)
        BY <1>5, <3>1, <3>2, UnderWayIs DEF Inv, NothingMissed
      <3>4. OnTask(f, p)'
        BY <3>1, <3>2, <3>3 DEF OnTask, ToVisit
      <3> QED
        BY <3>4
    <2> QED
      BY <2>1, <2>2
  <1>6. NothingMissed'
    <2>1. \A p : UnderWay(p[1], p[2])' <=> (\E f \in Tasks : OnTask(f, p)') \/ Replaying(p)'
      BY DEF UnderWay, OnTask, Replaying
    <2> QED
      BY <1>5, <2>1 DEF NothingMissed
  <1>7. OwnerServed'
    BY <1>4 DEF OwnerServed
  <1> QED
    BY <1>1, <1>2, <1>3, <1>6, <1>7 DEF Inv

(***************************************************************************)
(* The steps of the tasks                                                  *)
(***************************************************************************)
LEMMA InvFacts ==
  ASSUME Inv
  PROVE  /\ task \in [Tasks -> TaskType] /\ watchers \subseteq Conns
         /\ seq \in 0..MaxSeq /\ seq \in Nat /\ MaxSeq \in Nat
         /\ due \subseteq Conns \X (1..seq)
         /\ \A p \in due : conn[p[1]] = "up"
         /\ cut \subseteq 1..MaxSeq
         /\ \A e \in Tasks : task[e].at \in {"owner", "viewers"} => task[e].frame \in 1..MaxSeq
  <1>1. MaxSeq \in Nat /\ seq \in Nat
    BY BoundAssumption DEF Inv, TypeOK
  <1> QED
    BY <1>1 DEF Inv, TypeOK, TaskType, Current, Numbered

(* on_event is called by a task that has done with what it was handing, or *)
(* breaks it off.                                                          *)
LEMMA OnEventStep ==
  ASSUME Inv, NEW e \in Tasks, NEW kind \in {"update", "result", "again"}, NEW owed,
         owed \subseteq due, OnEvent(e, kind, owed),
         UNCHANGED <<present, owner, watchers, owned, conn, full, doing>>,
         cut \subseteq cut', cut' \subseteq 1..MaxSeq,
         \A p \in owed : p[2] \in cut' \/ ~OnTask(e, p)
  PROVE  TaskStep(e)
  <1>1. owed \subseteq Conns \X (1..seq)
    BY InvFacts
  <1>2. /\ task' \in [Tasks -> TaskType]
        /\ seq' = seq + 1 /\ seq' \in 0..MaxSeq
        /\ due' \subseteq owed \cup ({c \in Conns : Reads(c) /\ conn[c] = "up"} \X {seq + 1})
        /\ \A f \in Tasks \ {e} : task'[f] = task[f]
        /\ task'[e].at \in {"owner", "viewers"} => task'[e].frame = seq + 1
        /\ task'[e].at = "viewers" => task'[e].loop.wait \in Conns
    BY OnEventTypes DEF Inv
  <1>3. ASSUME NEW p \in due', p \notin owed
        PROVE  /\ p \in Pairs /\ conn[p[1]] = "up" /\ p[2] = seq + 1
               /\ OnTask(e, p)'
               /\ owner = p[1] => ToOwner(e, p)'
    <2>1. /\ p[1] \in Conns /\ conn[p[1]] = "up" /\ p[2] = seq + 1
          /\ p = <<p[1], seq + 1>> /\ p \in Pairs
      BY <1>2, <1>3, InvFacts DEF Pairs
    <2>2. /\ task'[e].frame = seq + 1
          /\ \/ task'[e].at = "owner" /\ (task'[e].loop.wait = p[1] \/ p[1] \in watchers)
             \/ /\ task'[e].at = "viewers"
                /\ p[1] = task'[e].loop.wait \/ p[1] \in ToVisit(task'[e].loop)
          /\ owner = p[1] => task'[e].at = "owner" /\ task'[e].loop.wait = p[1]
      BY <1>1, <2>1, OnEventServes DEF Inv
    <2> QED
      BY <2>1, <2>2 DEF OnTask, ToOwner, ToVisit
  <1>4. task'[e].at \in {"owner", "viewers"} => task'[e].frame \in 1..seq'
    BY <1>2, InvFacts
  <1> QED
    BY <1>2, <1>3, <1>4 DEF TaskStep

(* The task breaks off what it was handing, and ends.                      *)
LEMMA DoneStep ==
  ASSUME Inv, NEW e \in Tasks,
         due' \subseteq due, task' = Done(e),
         UNCHANGED <<present, seq, owner, watchers, owned, conn, full, doing>>,
         cut \subseteq cut', cut' \subseteq 1..MaxSeq,
         \A p \in due : p[2] \in cut' \/ ~OnTask(e, p)
  PROVE  TaskStep(e)
  <1>1. [Quiet EXCEPT !.at = "done"] \in TaskType /\ [Quiet EXCEPT !.at = "done"].at = "done"
    BY InvFacts, RestTypes DEF TaskType
  <1>2. /\ task' \in [Tasks -> TaskType] /\ task'[e].at = "done"
        /\ \A f \in Tasks \ {e} : task'[f] = task[f]
    BY <1>1, InvFacts DEF Done
  <1> QED
    BY <1>2, InvFacts DEF TaskStep

LEMMA EmitStep ==
  ASSUME Inv, NEW e \in Tasks, NEW kind \in {"update", "result"}, Emit(e, kind)
  PROVE  TaskStep(e)
  <1>1. \A p \in due : ~OnTask(e, p)
    BY DEF Emit, OnTask
  <1>2. cut' = cut /\ cut \subseteq 1..MaxSeq
    BY InvFacts DEF Emit
  <1> QED
    BY <1>1, <1>2, OnEventStep DEF Emit

(* The loop over the viewers begins, or goes on.                           *)
LEMMA LoopStep ==
  ASSUME Inv, NEW e \in Tasks, NEW past \in SUBSET Conns,
         task[e].at \in {"owner", "viewers"},
         ToViewers(e, task[e], due \ {<<task[e].loop.wait, task[e].frame>>}, past,
                   watchers \ past),
         \A p \in due : OnTask(e, p) => p[1] = task[e].loop.wait \/ p[1] \in watchers \ past,
         UNCHANGED <<present, seq, owner, watchers, owned, conn, full, doing, cut>>
  PROVE  TaskStep(e)
  <1> DEFINE t    == task[e]
             owed == due \ {<<t.loop.wait, t.frame>>}
  <1>1. t \in TaskType /\ t.frame \in 1..seq
    BY InvFacts DEF Inv, Numbered
  <1>2. ToViewers(e, t, owed, past, watchers \ past)
    OBVIOUS
  <1> HIDE DEF t, owed
  <1>3. /\ task' \in [Tasks -> TaskType]
        /\ due' \subseteq owed
        /\ \A f \in Tasks \ {e} : task'[f] = task[f]
        /\ \/ task'[e].at = "done"
           \/ /\ task'[e].at = "viewers" /\ task'[e].frame = t.frame
              /\ task'[e].loop.wait \in Conns
    BY <1>1, <1>2, InvFacts, ToViewersTypes
  <1>4. ASSUME NEW p \in due', OnTask(e, p)
        PROVE  p \in due /\ OnTask(e, p)' /\ ~ToOwner(e, p)
    <2>1. p \in due /\ p # <<t.loop.wait, t.frame>> /\ p = <<p[1], p[2]>>
      BY <1>3, InvFacts DEF owed
    <2>2. p[2] = t.frame
      BY <1>4 DEF OnTask, t
    <2>3. p[1] # t.loop.wait
      BY <2>1, <2>2
    <2>4. p[1] \in watchers \ past
      BY <1>4, <2>1, <2>3 DEF t
    <2>5. <<p[1], t.frame>> \in due'
      BY <2>1, <2>2
    <2>6. /\ task'[e].at = "viewers" /\ task'[e].frame = t.frame
          /\ p[1] = task'[e].loop.wait \/ p[1] \in ToVisit(task'[e].loop)
      BY <1>1, <1>2, <2>4, <2>5, InvFacts, ToViewersServes
    <2> QED
      BY <2>1, <2>2, <2>3, <2>6 DEF OnTask, ToOwner, ToVisit, t
  <1>5. due' \subseteq due
    BY <1>3 DEF owed
  <1> QED
    BY <1>1, <1>3, <1>4, <1>5, InvFacts DEF TaskStep

LEMMA OwnerTakesStep ==
  ASSUME Inv, NEW e \in Tasks, OwnerTakes(e)
  PROVE  TaskStep(e)
  <1>1. watchers \ {} = watchers
    OBVIOUS
  <1>2. \A p \in due : OnTask(e, p) => p[1] = task[e].loop.wait \/ p[1] \in watchers \ {}
    BY DEF OnTask, OwnerTakes
  <1>3. /\ ToViewers(e, task[e], due \ {<<task[e].loop.wait, task[e].frame>>}, {}, watchers \ {})
        /\ task[e].at = "owner"
        /\ UNCHANGED <<present, seq, owner, watchers, owned, conn, full, doing, cut>>
    BY <1>1 DEF OwnerTakes
  <1> QED
    BY <1>2, <1>3, LoopStep

LEMMA ViewerTakesStep ==
  ASSUME Inv, NEW e \in Tasks, ViewerTakes(e)
  PROVE  TaskStep(e)
  <1> DEFINE past == Served(task[e].loop)
  <1>1. task[e].at = "viewers"
    BY DEF ViewerTakes
  <1>2. past \in SUBSET Conns
    BY <1>1, InvFacts DEF Inv, Waiting, Served, TaskType, Loop
  <1>3. ToVisit(task[e].loop) = watchers \ past
    BY DEF ToVisit, Served
  <1>4. \A p \in due : OnTask(e, p) => p[1] = task[e].loop.wait \/ p[1] \in watchers \ past
    BY <1>1, <1>3 DEF OnTask
  <1>5. /\ ToViewers(e, task[e], due \ {<<task[e].loop.wait, task[e].frame>>}, past,
                     watchers \ past)
        /\ UNCHANGED <<present, seq, owner, watchers, owned, conn, full, doing, cut>>
    BY <1>3 DEF ViewerTakes
  <1> HIDE DEF past
  <1> QED
    BY <1>1, <1>2, <1>4, <1>5, LoopStep

LEMMA LoopRaisesStep ==
  ASSUME Inv, NEW e \in Tasks, LoopRaises(e)
  PROVE  TaskStep(e)
  <1> DEFINE owed == due \ {<<task[e].loop.wait, task[e].frame>>}
  <1>1. task[e].frame \in 1..MaxSeq /\ cut' = cut \cup {task[e].frame}
        /\ UNCHANGED <<present, owner, watchers, owned, conn, full, doing>>
    BY InvFacts DEF LoopRaises
  <1>2. \A p \in due : p[2] \in cut' \/ ~OnTask(e, p)
    BY <1>1 DEF OnTask
  <1>3. cut \subseteq cut' /\ cut' \subseteq 1..MaxSeq
    BY <1>1, InvFacts
  <1>4. CASE OnEvent(e, "again", owed)
    BY <1>1, <1>2, <1>3, <1>4, OnEventStep
  <1>5. CASE due' = owed /\ task' = Done(e) /\ UNCHANGED seq
    BY <1>1, <1>2, <1>3, <1>5, DoneStep
  <1> QED
    BY <1>4, <1>5 DEF LoopRaises

LEMMA TurnCancelledStep ==
  ASSUME Inv, NEW e \in Tasks, NEW byUser, TurnCancelled(e, byUser)
  PROVE  TaskStep(e)
  <1>1. task[e].frame \in 1..MaxSeq /\ cut' = cut \cup {task[e].frame}
        /\ UNCHANGED <<present, owner, watchers, owned, conn, full, doing>>
    BY InvFacts DEF TurnCancelled, InTurn
  <1>2. \A p \in due : p[2] \in cut' \/ ~OnTask(e, p)
    BY <1>1 DEF OnTask
  <1>3. cut \subseteq cut' /\ cut' \subseteq 1..MaxSeq
    BY <1>1, InvFacts
  <1>4. CASE OnEvent(e, "again", due)
    BY <1>1, <1>2, <1>3, <1>4, OnEventStep
  <1>5. CASE due' = due /\ task' = Done(e) /\ UNCHANGED seq
    BY <1>1, <1>2, <1>3, <1>5, DoneStep
  <1> QED
    BY <1>4, <1>5 DEF TurnCancelled

(***************************************************************************)
(* The steps of the connections                                            *)
(***************************************************************************)
LEMMA ConnFacts ==
  ASSUME Inv
  PROVE  /\ present \in BOOLEAN /\ owner \in Conns \cup {NoConn}
         /\ watchers \subseteq Conns /\ owned \subseteq Conns /\ full \subseteq Conns
         /\ conn \in [Conns -> {"up", "closing", "down"}]
         /\ doing \in [Conns -> DoingType]
         /\ due \subseteq Conns \X (1..seq)
         /\ \A p \in due : conn[p[1]] = "up"
         /\ \A d \in Conns : conn[d] = "down" => doing[d].at = "free"
         /\ \A d \in Conns : doing[d].at = "closing" => doing[d].loop.wait \in Conns
  <1>1. due \subseteq Conns \X (1..seq) /\ \A p \in due : conn[p[1]] = "up"
    BY InvFacts
  <1> QED
    BY <1>1 DEF Inv, TypeOK, DoingType, Waiting, Resting

LEMMA ConnTypes ==
  ASSUME Inv, UNCHANGED agents,
         present' \in BOOLEAN, owner' \in Conns \cup {NoConn},
         watchers' \subseteq Conns, owned' \subseteq Conns, full' \subseteq Conns,
         conn' \in [Conns -> {"up", "closing", "down"}],
         doing' \in [Conns -> DoingType],
         due' \subseteq Conns \X (1..seq)
  PROVE  TypeOK'
  <1>1. due' \subseteq Conns \X (1..MaxSeq)
    BY InvFacts
  <1>2. seq' = seq /\ task' = task /\ cut' = cut
    BY DEF agents
  <1> QED
    BY <1>1, <1>2 DEF Inv, TypeOK, DoingType, Loop

(* A handler goes on to a phase other than a replay.                       *)
LEMMA PhaseStep ==
  ASSUME Inv, NEW c \in Conns, NEW phase \in DoingType, Handles(c, phase),
         doing[c].at # "replaying", phase.at # "replaying",
         phase.at # "free" => conn[c] # "down",
         phase.at = "closing" => phase.loop.wait \in Conns,
         owned' \subseteq Conns, present' \in BOOLEAN, present' => present,
         UNCHANGED <<owner, watchers, conn, full, due, agents>>
  PROVE  ConnStep
  <1>1. /\ doing' \in [Conns -> DoingType] /\ doing'[c] = phase
        /\ \A d \in Conns \ {c} : doing'[d] = doing[d]
    BY HandlesTypes DEF Inv
  <1>2. TypeOK'
    BY <1>1, ConnFacts, ConnTypes
  <1>3. \A p \in due : Replaying(p) => Replaying(p)'
    BY <1>1, ConnFacts DEF Replaying
  <1> QED
    BY <1>1, <1>2, <1>3, ConnFacts DEF ConnStep, Reads

LEMMA HookStep ==
  ASSUME Inv, NEW c \in Conns, NEW seen \in 0..MaxSeq, Hook(c, seen),
         conn[c] # "down", owned' \subseteq Conns,
         UNCHANGED <<present, watchers, conn, agents>>
  PROVE  ConnStep
  <1>1. owner' = c /\ Replays(c, seen, watchers \ {c}) /\ watchers \ {c} \in SUBSET Conns
    BY ConnFacts DEF Hook
  <1>2. /\ doing' \in [Conns -> DoingType]
        /\ full' \subseteq Conns
        /\ \A d \in Conns \ {c} : doing'[d] = doing[d]
        /\ \A p \in due' :
             \/ p \in due /\ p[1] \in watchers \ {c}
             \/ /\ p \in Conns \X (1..seq) /\ p[1] = c
                /\ conn[c] = "up" /\ doing'[c].at = "replaying"
                /\ p[2] \in (doing'[c].seen + 1)..doing'[c].upto
        /\ doing'[c].at = "free" \/ (doing'[c].at = "replaying" /\ conn[c] = "up")
    BY <1>1, ReplaysTypes DEF Inv
  <1>3. due' \subseteq Conns \X (1..seq) /\ \A p \in due' : conn'[p[1]] = "up"
    BY <1>2, ConnFacts
  <1>4. TypeOK'
    BY <1>1, <1>2, <1>3, ConnFacts, ConnTypes
  <1>5. ASSUME NEW p \in due', p \in due, p[1] \in watchers \ {c}
        PROVE  /\ Replaying(p) => Replaying(p)'
               /\ Reads(p[1]) /\ owner' # p[1] /\ p[1] \notin watchers \ watchers'
    BY <1>1, <1>2, <1>5, ConnFacts DEF Replaying, Reads
  <1>6. ASSUME NEW p \in due', ~(p \in due /\ p[1] \in watchers \ {c})
        PROVE  p \in Conns \X (1..seq) /\ Replaying(p)'
    BY <1>2, <1>6 DEF Replaying
  <1> QED
    BY <1>1, <1>2, <1>3, <1>4, <1>5, <1>6, ConnFacts DEF ConnStep, Reads

LEMMA AcknowledgeStep ==
  ASSUME Inv, NEW c \in Conns, NEW seen \in 0..MaxSeq, NEW others \in SUBSET Conns,
         Acknowledge(c, seen, others),
         doing[c].at # "replaying", conn[c] # "down",
         UNCHANGED <<present, watchers, conn, agents>>
  PROVE  ConnStep
  <1>1. owned' \subseteq Conns
    BY DEF Acknowledge
  <1>2. CASE Handles(c, Phase("acking", seen)) /\ UNCHANGED <<owner, due, full>>
    BY <1>1, <1>2, PhaseTypes, PhaseStep, ConnFacts DEF Inv
  <1>3. CASE Hook(c, seen)
    BY <1>1, <1>3, HookStep
  <1> QED
    BY <1>2, <1>3 DEF Acknowledge

LEMMA ProceedsStep ==
  ASSUME Inv, NEW c \in Conns, NEW seen \in 0..MaxSeq, NEW others \in SUBSET Conns,
         Proceeds(c, seen, others),
         doing[c].at # "replaying", conn[c] # "down",
         UNCHANGED <<present, watchers, conn, agents>>
  PROVE  ConnStep
  <1>1. CASE Acknowledge(c, seen, others)
    BY <1>1, AcknowledgeStep
  <1>2. CASE /\ Handles(c, Phase("spawning", seen)) /\ owned' = others
             /\ UNCHANGED <<owner, due, full>>
    BY <1>2, PhaseTypes, PhaseStep, ConnFacts DEF Inv
  <1> QED
    BY <1>1, <1>2 DEF Proceeds

LEMMA TakeOverStep ==
  ASSUME Inv, NEW c \in Conns, NEW seen \in 0..seq, TakeOver(c, seen)
  PROVE  ConnStep
  <1> DEFINE prev  == IF owner \in Conns \ {c} /\ conn[owner] # "down" THEN owner ELSE NoConn
             phase == [Phase("telling", seen) EXCEPT !.loop.wait = prev]
  <1>1. /\ doing[c].at = "free" /\ conn[c] # "down" /\ seen \in 0..MaxSeq
        /\ UNCHANGED <<present, watchers, conn, agents>>
        /\ owned \ {prev} \in SUBSET Conns
    BY InvFacts, ConnFacts DEF TakeOver, Idles
  <1>2. CASE /\ owned' = owned \ {prev} /\ Handles(c, phase)
             /\ UNCHANGED <<owner, due, full>>
    <2>1. phase \in DoingType /\ phase.at = "telling"
      BY <1>1, PhaseTypes DEF Inv, DoingType, Loop
    <2> HIDE DEF prev, phase
    <2> QED
      BY <1>1, <1>2, <2>1, ConnFacts, PhaseStep
  <1>3. CASE Proceeds(c, seen, owned \ {prev})
    <2> HIDE DEF prev
    <2> QED
      BY <1>1, <1>3, ProceedsStep
  <1> QED
    BY <1>2, <1>3 DEF TakeOver

LEMMA ToldStep ==
  ASSUME Inv, NEW c \in Conns, Told(c)
  PROVE  ConnStep
  <1>1. /\ doing[c].at # "replaying" /\ conn[c] # "down"
        /\ doing[c].seen \in 0..MaxSeq /\ owned \in SUBSET Conns
    BY ConnFacts DEF Told, DoingType
  <1> QED
    BY <1>1, ProceedsStep DEF Told

LEMMA SpawnedStep ==
  ASSUME Inv, NEW c \in Conns, Spawned(c)
  PROVE  ConnStep
  <1>1. /\ doing[c].at # "replaying" /\ conn[c] # "down"
        /\ doing[c].seen \in 0..MaxSeq /\ owned \in SUBSET Conns
    BY ConnFacts DEF Spawned, DoingType
  <1> QED
    BY <1>1, AcknowledgeStep DEF Spawned

LEMMA AckedStep ==
  ASSUME Inv, NEW c \in Conns, Acked(c)
  PROVE  ConnStep
  <1>1. conn[c] # "down" /\ doing[c].seen \in 0..MaxSeq /\ owned' \subseteq Conns
    BY ConnFacts DEF Acked, DoingType
  <1> QED
    BY <1>1, HookStep DEF Acked

LEMMA SpawnFailsStep ==
  ASSUME Inv, NEW c \in Conns, SpawnFails(c)
  PROVE  ConnStep
  <1>1. Free \in DoingType /\ Free.at = "free"
    BY ConnFacts, RestTypes DEF Free
  <1> QED
    BY <1>1, ConnFacts, PhaseStep DEF SpawnFails

LEMMA CloseFailsStep ==
  ASSUME Inv, NEW c \in Conns, CloseFails(c)
  PROVE  ConnStep
  <1>1. Free \in DoingType /\ Free.at = "free"
    BY ConnFacts, RestTypes DEF Free
  <1> QED
    BY <1>1, ConnFacts, PhaseStep DEF CloseFails

LEMMA ReplayedStep ==
  ASSUME Inv, NEW c \in Conns, Replayed(c)
  PROVE  ConnStep
  <1>1. Free \in DoingType /\ Free.at = "free"
    BY ConnFacts, RestTypes DEF Free
  <1>2. /\ doing' \in [Conns -> DoingType] /\ doing'[c] = Free
        /\ \A d \in Conns \ {c} : doing'[d] = doing[d]
    BY <1>1, HandlesTypes DEF Replayed, Inv
  <1>3. due' \subseteq due
    BY DEF Replayed
  <1>4. TypeOK'
    BY <1>2, <1>3, ConnFacts, ConnTypes DEF Replayed
  <1>5. ASSUME NEW p \in due', Replaying(p)
        PROVE  Replaying(p)'
    <2>1. p \in Conns \X (1..seq) /\ p \notin {c} \X ((doing[c].seen + 1)..doing[c].upto)
      BY ConnFacts DEF Replayed
    <2>2. p[1] # c
      BY <1>5, <2>1 DEF Replaying
    <2> QED
      BY <1>2, <1>5, <2>1, <2>2 DEF Replaying
  <1> QED
    BY <1>1, <1>2, <1>3, <1>4, <1>5, ConnFacts DEF ConnStep, Replayed, Reads

LEMMA WatchStep ==
  ASSUME Inv, NEW c \in Conns, NEW seen \in 0..seq, Watch(c, seen)
  PROVE  ConnStep
  <1>1. /\ Replays(c, seen, Conns \ {c}) /\ Conns \ {c} \in SUBSET Conns /\ seen \in 0..MaxSeq
        /\ conn[c] = "up" /\ watchers' = watchers \cup {c}
        /\ UNCHANGED <<present, owner, owned, conn, agents>>
    BY InvFacts DEF Watch, Idles
  <1>2. /\ doing' \in [Conns -> DoingType]
        /\ full' \subseteq Conns
        /\ \A d \in Conns \ {c} : doing'[d] = doing[d]
        /\ \A p \in due' :
             \/ p \in due /\ p[1] \in Conns \ {c}
             \/ /\ p \in Conns \X (1..seq) /\ p[1] = c
                /\ conn[c] = "up" /\ doing'[c].at = "replaying"
                /\ p[2] \in (doing'[c].seen + 1)..doing'[c].upto
        /\ doing'[c].at = "free" \/ (doing'[c].at = "replaying" /\ conn[c] = "up")
    BY <1>1, ReplaysTypes DEF Inv
  <1>3. due' \subseteq Conns \X (1..seq) /\ \A p \in due' : conn'[p[1]] = "up"
    BY <1>1, <1>2, ConnFacts
  <1>4. TypeOK'
    BY <1>1, <1>2, <1>3, ConnFacts, ConnTypes
  <1>5. ASSUME NEW p \in due', p \in due, p[1] \in Conns \ {c}
        PROVE  /\ Replaying(p) => Replaying(p)'
               /\ Reads(p[1])' => Reads(p[1])
               /\ p[1] \notin watchers \ watchers'
    BY <1>1, <1>2, <1>5, ConnFacts DEF Replaying, Reads
  <1>6. ASSUME NEW p \in due', ~(p \in due /\ p[1] \in Conns \ {c})
        PROVE  p \in Conns \X (1..seq) /\ Replaying(p)'
    BY <1>2, <1>6 DEF Replaying
  <1> QED
    BY <1>1, <1>2, <1>3, <1>4, <1>5, <1>6, ConnFacts DEF ConnStep, Reads

LEMMA DetachStep ==
  ASSUME Inv, NEW c \in Conns, Detach(c)
  PROVE  ConnStep
  <1>1. /\ due' = {p \in due : p[1] = c => owner' = c \/ c \in watchers'}
        /\ owner' = owner \/ (owner = c /\ owner' = NoConn)
        /\ \/ watchers' = watchers
           \/ watchers' = watchers \ {c} /\ owner' = owner
        /\ owned' \subseteq Conns
        /\ UNCHANGED <<present, conn, full, doing, agents>>
    BY ConnFacts DEF Detach
  <1>2. TypeOK'
    BY <1>1, ConnFacts, ConnTypes
  <1>3. ASSUME NEW p \in due'
        PROVE  /\ p \in due /\ p[1] \in Conns
               /\ Replaying(p) => Replaying(p)'
               /\ p[1] \in watchers \ watchers' => owner' = p[1]
    BY <1>1, ConnFacts DEF Replaying
  <1>4. \A d \in Conns : /\ Reads(d)' => Reads(d)
                         /\ owner' = d => owner = d
    BY <1>1, ConnsAssumption DEF Reads
  <1> QED
    BY <1>1, <1>2, <1>3, <1>4, ConnFacts DEF ConnStep

(* The close tells the viewers, and removes the session.                   *)
LEMMA BroadcastStep ==
  ASSUME Inv, NEW c \in Conns, NEW past \in SUBSET Conns, NEW S \in SUBSET Conns,
         Broadcast(c, past, S), doing[c].at # "replaying", conn[c] # "down",
         owned' \subseteq Conns,
         UNCHANGED <<owner, watchers, conn, full, due, agents>>
  PROVE  ConnStep
  <1>1. PICK o \in Reaches(S) :
          IF o[2] = NoConn
            THEN present' = FALSE /\ Handles(c, [Free EXCEPT !.loop.past = past \cup o[1]])
            ELSE /\ Handles(c, [Free EXCEPT !.at = "closing",
                                           !.loop = Suspends(past \cup o[1], o[2])])
                 /\ UNCHANGED present
    BY DEF Broadcast
  <1>2. o[1] \in SUBSET Conns /\ o[2] \in Conns \cup {NoConn}
    BY DEF Reaches
  <1>3. Free \in DoingType /\ Free.at = "free" /\ present \in BOOLEAN
    BY ConnFacts, RestTypes DEF Free
  <1>4. CASE o[2] = NoConn
    <2> DEFINE phase == [Free EXCEPT !.loop.past = past \cup o[1]]
    <2>1. phase \in DoingType /\ phase.at = "free"
      BY <1>2, <1>3 DEF DoingType, Loop
    <2>2. Handles(c, phase) /\ present' = FALSE
      BY <1>1, <1>4
    <2> HIDE DEF phase
    <2> QED
      BY <2>1, <2>2, PhaseStep
  <1>5. CASE o[2] # NoConn
    <2> DEFINE phase == [Free EXCEPT !.at = "closing", !.loop = Suspends(past \cup o[1], o[2])]
    <2>1. Suspends(past \cup o[1], o[2]) \in Loop /\ Suspends(past \cup o[1], o[2]).wait = o[2]
      BY <1>2, ConnFacts, LoopTypes DEF Suspends
    <2>2. phase \in DoingType /\ phase.at = "closing" /\ phase.loop.wait \in Conns
      BY <1>2, <1>3, <1>5, <2>1 DEF DoingType
    <2>3. Handles(c, phase) /\ UNCHANGED present
      BY <1>1, <1>5
    <2> HIDE DEF phase
    <2> QED
      BY <1>3, <2>2, <2>3, PhaseStep
  <1> QED
    BY <1>4, <1>5

LEMMA CloseStep ==
  ASSUME Inv, NEW c \in Conns, Close(c)
  PROVE  ConnStep
  <1>1. /\ doing[c].at # "replaying" /\ conn[c] # "down" /\ owned' \subseteq Conns
        /\ watchers \in SUBSET Conns /\ {} \in SUBSET Conns
    BY ConnFacts DEF Close, Idles
  <1> QED
    BY <1>1, BroadcastStep DEF Close

LEMMA ViewerNoticedStep ==
  ASSUME Inv, NEW c \in Conns, ViewerNoticed(c)
  PROVE  ConnStep
  <1>1. /\ doing[c].at # "replaying" /\ conn[c] # "down" /\ owned' \subseteq Conns
        /\ Served(doing[c].loop) \in SUBSET Conns /\ ToVisit(doing[c].loop) \in SUBSET Conns
    BY ConnFacts DEF ViewerNoticed, DoingType, Loop, Served, ToVisit
  <1> QED
    BY <1>1, BroadcastStep DEF ViewerNoticed

LEMMA ReapStep ==
  ASSUME Inv, Reap
  PROVE  ConnStep
  <1>1. TypeOK'
    BY ConnFacts, ConnTypes DEF Reap
  <1>2. \A p \in due : Replaying(p) => Replaying(p)'
    BY DEF Replaying, Reap
  <1> QED
    BY <1>1, <1>2, ConnFacts DEF ConnStep, Reap, Reads

LEMMA FailsStep ==
  ASSUME Inv, NEW c \in Conns, Fails(c)
  PROVE  ConnStep
  <1>1. /\ conn' \in [Conns -> {"up", "closing", "down"}] /\ conn'[c] = "closing"
        /\ \A d \in Conns \ {c} : conn'[d] = conn[d]
        /\ \A p \in due' : p \in due /\ p[1] \in Conns \ {c}
        /\ full' \subseteq Conns
        /\ UNCHANGED <<present, owner, watchers, owned, doing, agents>>
    BY ConnFacts DEF Fails, Of
  <1>2. TypeOK'
    BY <1>1, ConnFacts, ConnTypes
  <1>3. \A p \in due : Replaying(p) => Replaying(p)'
    BY <1>1 DEF Replaying
  <1> QED
    BY <1>1, <1>2, <1>3, ConnFacts DEF ConnStep, Reads

LEMMA EndsStep ==
  ASSUME Inv, NEW c \in Conns, Ends(c)
  PROVE  ConnStep
  <1>1. /\ conn' \in [Conns -> {"up", "closing", "down"}] /\ conn'[c] = "down"
        /\ \A d \in Conns \ {c} : conn'[d] = conn[d]
        /\ conn[c] = "closing" /\ doing[c].at = "free" /\ doing' = doing
        /\ owned' \subseteq Conns /\ watchers' \subseteq watchers
        /\ watchers \ watchers' \subseteq {c}
        /\ owner' \in Conns \cup {NoConn}
        /\ owner' \in Conns => owner' = owner
        /\ UNCHANGED <<present, full, due, agents>>
        /\ present => owner' # c /\ c \notin watchers'
    BY ConnFacts, ConnsAssumption DEF Ends
  <1>2. TypeOK'
    BY <1>1, ConnFacts, ConnTypes
  <1>3. \A p \in due : p[1] \in Conns \ {c}
    BY <1>1, ConnFacts
  <1>4. \A p \in due : Replaying(p) => Replaying(p)'
    BY <1>1 DEF Replaying
  <1>5. \A d \in Conns : Reads(d)' => Reads(d)
    BY <1>1 DEF Reads
  <1> QED
    BY <1>1, <1>2, <1>3, <1>4, <1>5, ConnFacts DEF ConnStep, Reads

LEMMA TrafficStep ==
  ASSUME Inv, NEW c \in Conns, Traffic(c)
  PROVE  ConnStep
  <1>1. full' \subseteq Conns /\ UNCHANGED <<present, owner, watchers, owned, conn, doing, due, agents>>
    BY ConnFacts DEF Traffic
  <1>2. TypeOK'
    BY <1>1, ConnFacts, ConnTypes
  <1>3. \A p \in due : Replaying(p) => Replaying(p)'
    BY <1>1 DEF Replaying
  <1> QED
    BY <1>1, <1>2, <1>3, ConnFacts DEF ConnStep, Reads

-----------------------------------------------------------------------------
LEMMA InitInv == Init => Inv
  <1> SUFFICES ASSUME Init
               PROVE  Inv
    OBVIOUS
  <1>1. watchers \subseteq Conns
    BY DEF Init
  <1>2. Quiet \in TaskType /\ Quiet.at = "idle" /\ Free \in DoingType /\ Free.at = "free"
    BY <1>1, RestTypes DEF Quiet, Free
  <1>3. TypeOK
    BY <1>2, BoundAssumption DEF Init, TypeOK, TaskType, DoingType
  <1>4. Numbered /\ Waiting /\ Current /\ Resting /\ OwnerServed /\ NothingMissed
    BY <1>2 DEF Init, Numbered, Waiting, Current, Resting, OwnerServed, NothingMissed
  <1>5. NoGhosts
    BY DEF Init, NoGhosts
  <1> QED
    BY <1>3, <1>4, <1>5 DEF Inv

LEMMA NextInv == Inv /\ [Next]_vars => Inv'
  <1> SUFFICES ASSUME Inv, [Next]_vars
               PROVE  Inv'
    OBVIOUS
  <1>1. CASE \E e \in Tasks, kind \in {"update", "result"} : Emit(e, kind)
    BY <1>1, EmitStep, TaskStepKeeps
  <1>2. CASE \E e \in Tasks : OwnerTakes(e)
    BY <1>2, OwnerTakesStep, TaskStepKeeps
  <1>3. CASE \E e \in Tasks : ViewerTakes(e)
    BY <1>3, ViewerTakesStep, TaskStepKeeps
  <1>4. CASE \E e \in Tasks : LoopRaises(e)
    BY <1>4, LoopRaisesStep, TaskStepKeeps
  <1>5. CASE \E e \in Tasks, byUser \in BOOLEAN : TurnCancelled(e, byUser)
    BY <1>5, TurnCancelledStep, TaskStepKeeps
  <1>6. CASE \E c \in Owners : \E seen \in 0..seq : TakeOver(c, seen)
    BY <1>6, TakeOverStep, ConnStepKeeps DEF Conns
  <1>7. CASE \E c \in Conns : Told(c)
    BY <1>7, ToldStep, ConnStepKeeps
  <1>8. CASE \E c \in Conns : Spawned(c)
    BY <1>8, SpawnedStep, ConnStepKeeps
  <1>9. CASE \E c \in Conns : SpawnFails(c)
    BY <1>9, SpawnFailsStep, ConnStepKeeps
  <1>10. CASE \E c \in Conns : Acked(c)
    BY <1>10, AckedStep, ConnStepKeeps
  <1>11. CASE \E c \in Conns : Replayed(c)
    BY <1>11, ReplayedStep, ConnStepKeeps
  <1>12. CASE \E c \in Viewers : \E seen \in 0..seq : Watch(c, seen)
    BY <1>12, WatchStep, ConnStepKeeps DEF Conns
  <1>13. CASE \E c \in Conns : Detach(c)
    BY <1>13, DetachStep, ConnStepKeeps
  <1>14. CASE \E c \in Conns : Close(c)
    BY <1>14, CloseStep, ConnStepKeeps
  <1>15. CASE \E c \in Conns : ViewerNoticed(c)
    BY <1>15, ViewerNoticedStep, ConnStepKeeps
  <1>16. CASE \E c \in Conns : CloseFails(c)
    BY <1>16, CloseFailsStep, ConnStepKeeps
  <1>17. CASE Reap
    BY <1>17, ReapStep, ConnStepKeeps
  <1>18. CASE \E c \in Conns : Fails(c)
    BY <1>18, FailsStep, ConnStepKeeps
  <1>19. CASE \E c \in Conns : Ends(c)
    BY <1>19, EndsStep, ConnStepKeeps
  <1>20. CASE \E c \in Conns : Traffic(c)
    BY <1>20, TrafficStep, ConnStepKeeps
  <1>21. CASE UNCHANGED vars
    <2>1. \A p : UnderWay(p[1], p[2])' = UnderWay(p[1], p[2])
      BY <1>21 DEF UnderWay, ToVisit, vars, agents
    <2>2. NothingMissed'
      BY <1>21, <2>1 DEF Inv, NothingMissed, Reads, vars, agents
    <2> QED
      BY <1>21, <2>2 DEF Inv, TypeOK, Numbered, Waiting, Current, Resting, OwnerServed, ToOwner,
                         Replaying, NoGhosts, Reads, vars, agents
  <1> QED
    BY <1>1, <1>2, <1>3, <1>4, <1>5, <1>6, <1>7, <1>8, <1>9, <1>10, <1>11, <1>12, <1>13,
       <1>14, <1>15, <1>16, <1>17, <1>18, <1>19, <1>20, <1>21 DEF Next

LEMMA InvHolds == Spec => []Inv
  BY InitInv, NextInv, PTL DEF Spec

(* Every variable has its type, whatever waits for whose queue             *)
(* (session.py:178-195, daemon.py:1073-1108).                              *)
THEOREM TypeCorrect == Spec => []TypeOK
  <1>1. Inv => TypeOK
    BY DEF Inv
  <1> QED
    BY <1>1, InvHolds, PTL

(* The owner and each viewer get every event after the ones they said they *)
(* have: it is in their queue, or on its way to them, unless its handing   *)
(* was broken off (session.py:178-195, 284-333).                           *)
THEOREM EventsArrive == Spec => []NothingMissed
  <1>1. Inv => NothingMissed
    BY DEF Inv
  <1> QED
    BY <1>1, InvHolds, PTL

(* A connection that has ended reads no session, though it may have left   *)
(* while the one that takes over was not hooked yet (session.py:778).      *)
THEOREM GoneReadNothing == Spec => []NoGhosts
  <1>1. Inv => NoGhosts
    BY DEF Inv
  <1> QED
    BY <1>1, InvHolds, PTL

(* When the loop over the viewers of S comes to its end, it has served all *)
(* of them.                                                                *)
LEMMA BroadcastTells ==
  ASSUME Inv, NEW c \in Conns, NEW past \in SUBSET Conns, NEW S \in SUBSET Conns,
         Broadcast(c, past, S), doing'[c].at = "free"
  PROVE  doing'[c].loop.past = past \cup S
  <1>1. PICK o \in Reaches(S) :
          IF o[2] = NoConn
            THEN present' = FALSE /\ Handles(c, [Free EXCEPT !.loop.past = past \cup o[1]])
            ELSE /\ Handles(c, [Free EXCEPT !.at = "closing",
                                           !.loop = Suspends(past \cup o[1], o[2])])
                 /\ UNCHANGED present
    BY DEF Broadcast
  <1>2. o[1] \in SUBSET Conns /\ o[2] \in Conns \cup {NoConn}
    BY DEF Reaches
  <1>3. Free \in DoingType
    BY ConnFacts, RestTypes
  <1>4. CASE o[2] = NoConn
    <2> DEFINE phase == [Free EXCEPT !.loop.past = past \cup o[1]]
    <2>1. phase \in DoingType /\ phase.loop.past = past \cup o[1]
      BY <1>2, <1>3 DEF DoingType, Loop
    <2>2. Handles(c, phase) /\ o[1] = S
      BY <1>1, <1>4 DEF Reaches
    <2> HIDE DEF phase
    <2> QED
      BY <2>1, <2>2, HandlesTypes DEF Inv
  <1>5. CASE o[2] # NoConn
    <2> DEFINE phase == [Free EXCEPT !.at = "closing", !.loop = Suspends(past \cup o[1], o[2])]
    <2>1. phase \in DoingType /\ phase.at = "closing"
      BY <1>2, <1>3, ConnFacts, LoopTypes DEF DoingType
    <2>2. Handles(c, phase)
      BY <1>1, <1>5
    <2> HIDE DEF phase
    <2> QED
      BY <2>1, <2>2, HandlesTypes DEF Inv
  <1> QED
    BY <1>4, <1>5

(* A close that removes the session has told every viewer there is, those  *)
(* too that came while the notice waited for a full queue (session.py:352).*)
THEOREM CloseTellsAll == Spec => CloseTells
  <1> DEFINE Tells ==
        \A c \in Conns :
          /\ present /\ ~present'
          /\ doing[c].at = "closing" \/ c \in owned \ owned'
          /\ doing'[c].at = "free"
          => \A v \in watchers : conn[v] = "up" => v \in doing'[c].loop.past
  <1>1. Inv /\ [Next]_vars => [Tells]_vars
    <2> SUFFICES ASSUME Inv, [Next]_vars, NEW c \in Conns, present, ~present',
                        doing[c].at = "closing" \/ c \in owned \ owned',
                        doing'[c].at = "free"
                 PROVE  watchers \subseteq doing'[c].loop.past
      OBVIOUS
    <2>1. CASE \E d \in Conns : SpawnFails(d)
      <3>1. PICK d \in Conns : SpawnFails(d)
        BY <2>1
      <3>2. doing[c].at = "closing" /\ doing[d].at = "spawning" /\ Handles(d, Free)
        BY <3>1 DEF SpawnFails
      <3>3. doing'[c] = doing[c]
        BY <3>2, ConnFacts DEF Handles
      <3> QED
        BY <3>2, <3>3
    <2>2. CASE \E d \in Conns : Close(d)
      <3>1. PICK d \in Conns : Close(d)
        BY <2>2
      <3>2. Broadcast(d, {}, watchers) /\ doing[d].at = "free" /\ owned' = owned \ {d}
            /\ watchers \in SUBSET Conns /\ {} \in SUBSET Conns
        BY <3>1, ConnFacts DEF Close, Idles
      <3>3. c # d => doing'[c] = doing[c]
        BY <3>2, ConnFacts DEF Broadcast, Handles
      <3>4. c = d
        BY <3>2, <3>3
      <3>5. doing'[c].loop.past = {} \cup watchers
        BY <3>2, <3>4, BroadcastTells
      <3> QED
        BY <3>5
    <2>3. CASE \E d \in Conns : ViewerNoticed(d)
      <3>1. PICK d \in Conns : ViewerNoticed(d)
        BY <2>3
      <3>2. /\ Broadcast(d, Served(doing[d].loop), ToVisit(doing[d].loop))
            /\ doing[d].at = "closing" /\ owned' = owned
            /\ Served(doing[d].loop) \in SUBSET Conns /\ ToVisit(doing[d].loop) \in SUBSET Conns
        BY <3>1, ConnFacts DEF ViewerNoticed, DoingType, Loop, Served, ToVisit
      <3>3. c # d => doing'[c] = doing[c]
        BY <3>2, ConnFacts DEF Broadcast, Handles
      <3>4. c = d
        BY <3>2, <3>3
      <3>5. doing'[c].loop.past = Served(doing[d].loop) \cup ToVisit(doing[d].loop)
        BY <3>2, <3>4, BroadcastTells
      <3> QED
        BY <3>5 DEF Served, ToVisit
    <2>4. CASE Reap
      BY <2>4 DEF Reap
    <2> QED
      BY <2>1, <2>2, <2>3, <2>4
         DEF Next, Emit, OwnerTakes, ViewerTakes, LoopRaises, TurnCancelled, TakeOver, Told,
             Spawned, Acked, Replayed, Watch, Detach, CloseFails, Fails, Ends, Traffic, vars
  <1> QED
    BY <1>1, InvHolds, PTL DEF Spec, CloseTells
=============================================================================
