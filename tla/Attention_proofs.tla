--------------------------- MODULE Attention_proofs ---------------------------
(***************************************************************************)
(* Proofs about Attention, for every set of connections, requests and      *)
(* events, every policy, arming and offer, and every number of objects.    *)
(*                                                                         *)
(* Neither the types nor the properties are inductive by themselves: what  *)
(* is answered must have been decided (Decided), handlers belong to objects*)
(* that were made and have what they fire with (Placed), and the process   *)
(* knows a session only while it is in the table (Backed).                 *)
(***************************************************************************)
EXTENDS Attention, TLAPS

TaskType ==
  [at : {"idle", "reporting", "entering", "eaten", "waiting", "answering", "done"},
   object : 0..MaxObjects, reason : Reasons \cup {None}, turn : BOOLEAN,
   offered : SUBSET Kinds, stalled : BOOLEAN, answer : Choices \cup {None}]

(* A request that is being answered was neither open nor dropped.          *)
Decided ==
  \A r \in Requests : task[r].at = "answering" => future[r] \in Choices \cup {None}

Backed ==
  /\ Known => present
  /\ present => made # 0
  /\ backend # "none" => made # 0

(* Handlers and attaches are of objects that were made, those that may     *)
(* fire have a reason, and an object that is not made needs no attention.  *)
Placed ==
  /\ \A t \in Tasks :
       /\ task[t].at # "idle" => task[t].object \in 1..made
       /\ task[t].at \in {"reporting", "entering"} => task[t].reason # None
  /\ \A r \in Requests : task[r].at = "entering" => task[r].stalled
  /\ \A c \in Conns : attaching[c] <= made
  /\ \A o \in Objects : o > made => attention[o] = None

(***************************************************************************)
(* What Killed and the making of a task leave                              *)
(***************************************************************************)
LEMMA KilledTasks ==
  ASSUME task \in [Tasks -> TaskType], NEW T
  PROVE  /\ Killed(T) \in [Tasks -> TaskType]
         /\ \A t \in Tasks \ T : Killed(T)[t] = task[t]
         /\ \A t \in Tasks :
              /\ Killed(T)[t].object = task[t].object
              /\ Killed(T)[t].reason = task[t].reason
              /\ Killed(T)[t].stalled = task[t].stalled
              /\ t \in T => Killed(T)[t].at = IF task[t].at = "entering" THEN "eaten" ELSE "done"
  BY DEF Killed, TaskType

LEMMA KilledTurns ==
  ASSUME task \in [Tasks -> TaskType], NEW o, NEW T \in {{}, TurnTasks(o)}
  PROVE  /\ T \subseteq Events
         /\ \A r \in Requests : Killed(T)[r] = task[r]
  <1>1. T \subseteq Events /\ Requests \subseteq Tasks \ T
    BY TasksAssumption DEF TurnTasks, Tasks
  <1> QED
    BY <1>1, KilledTasks

(* The tasks that end with the process were reporting or entering.         *)
LEMMA ProcessKills ==
  ASSUME ProcessClosed
  PROVE  \E T \in SUBSET Tasks :
           task' = Killed(T) /\ \A t \in T : task[t].at \in {"reporting", "entering"}
  <1> DEFINE E == {r \in Requests : task[r].at = "entering"}
             U == IF Known THEN TurnTasks(made) ELSE {}
  <1>1. task' = Killed(E \cup U)
    BY DEF ProcessClosed
  <1>2. E \cup U \in SUBSET Tasks
    BY DEF Tasks, TurnTasks
  <1>3. \A t \in E \cup U : task[t].at \in {"reporting", "entering"}
    BY DEF TurnTasks
  <1> HIDE DEF E, U
  <1> QED
    BY <1>1, <1>2, <1>3

LEMMA IdleTask == Idle \in TaskType
  BY BoundAssumption DEF Idle, TaskType, None, Kinds, Choices, Reasons

LEMMA ReportingTask ==
  ASSUME made \in 0..MaxObjects, NEW reason \in Reasons, NEW turn \in BOOLEAN
  PROVE  /\ Reporting(made, reason, turn) \in TaskType
         /\ Reporting(made, reason, turn).at = "reporting"
         /\ Reporting(made, reason, turn).object = made
         /\ Reporting(made, reason, turn).reason = reason
  BY IdleTask DEF Reporting, Idle, TaskType

LEMMA AskedTask ==
  ASSUME made \in 0..MaxObjects, NEW offered \in SUBSET Kinds
  PROVE  /\ Asked(offered) \in TaskType
         /\ Asked(offered).at = "idle" /\ Asked(offered).object = made
         /\ Asked(offered).reason = "permission_pending"
         /\ Asked(offered).stalled = FALSE
         /\ Asked(offered).answer = None
  BY IdleTask DEF Asked, Idle, TaskType, Reasons

(* What answers without the owner, of the kinds there are.                 *)
LEMMA AutoAnswers ==
  ASSUME NEW offered \in SUBSET Kinds, NEW way
  PROVE  /\ AutoDecision(offered, way) \subseteq Choices
         /\ AutoDecision(offered, way) \subseteq Kind(way) \cup {"cancelled"}
         /\ Fallback(offered) \subseteq Choices
  BY DEF AutoDecision, Fallback, Kind, Kinds, Choices

LEMMA ReasonsAreNotNone == None \notin Reasons /\ None \notin Choices
  BY DEF None, Reasons, Choices, Kinds

(***************************************************************************)
(* Types                                                                   *)
(***************************************************************************)
LEMMA InitTypes == Init => TypeOK /\ Decided
  <1> SUFFICES ASSUME Init PROVE TypeOK /\ Decided
    OBVIOUS
  <1>1. Idle \in TaskType /\ Idle.at = "idle"
    BY IdleTask DEF Idle
  <1>2. task \in [Tasks -> TaskType]
    BY <1>1 DEF Init
  <1>3. made \in 0..MaxObjects /\ attaching \in [Conns -> 0..MaxObjects]
    BY BoundAssumption DEF Init
  <1>4. Decided
    BY <1>1 DEF Init, Decided, Tasks
  <1> QED
    BY <1>2, <1>3, <1>4 DEF Init, TypeOK, TaskType

(* Every handler leaves the variables with their types, and an answer that *)
(* is given to the agent is one that was made.                             *)
LEMMA TypeStep == TypeOK /\ Decided /\ [Next]_vars => TypeOK' /\ Decided'
  <1> SUFFICES ASSUME TypeOK, Decided, [Next]_vars PROVE TypeOK' /\ Decided'
    OBVIOUS
  <1> USE TasksAssumption DEF Tasks, Objects
  <1>t. task \in [Tasks -> TaskType]
    BY DEF TypeOK, TaskType
  <1>p. /\ Policies \subseteq Policy /\ Armings \subseteq SUBSET Reasons
        /\ Offers \subseteq SUBSET Kinds
    BY ChoicesAssumption
  <1>1. ASSUME NEW t \in Tasks, Posted(t) PROVE TypeOK' /\ Decided'
    BY <1>1 DEF Posted, TypeOK, Decided, session, asked
  <1>2. ASSUME NEW e \in Events, NEW reason \in Reasons, TurnEnds(e, reason)
        PROVE TypeOK' /\ Decided'
    <2>1. task' \in [Tasks -> TaskType]
      BY <1>2, <1>t, ReportingTask DEF TurnEnds, TypeOK
    <2>2. Decided'
      BY <1>2, <1>t DEF TurnEnds, Decided, asked, TypeOK
    <2> QED
      BY <1>2, <2>1, <2>2 DEF TurnEnds, TypeOK, TaskType, session, asked, notices
  <1>3. ASSUME NEW e \in Events, Crash(e) PROVE TypeOK' /\ Decided'
    <2>0. Reporting(made, "agent_crashed", FALSE) \in TaskType
      BY ReportingTask DEF TypeOK, Reasons
    <2>1. task' \in [Tasks -> TaskType]
      BY <1>3, <1>t, <2>0, KilledTasks DEF Crash
    <2>2. \A r \in Requests : task'[r] = task[r]
      BY <1>3, <1>t, KilledTasks, KilledTurns DEF Crash
    <2>3. Decided'
      BY <1>3, <2>2 DEF Crash, Decided, asked
    <2> QED
      BY <1>3, <2>1, <2>3 DEF Crash, TypeOK, TaskType, asked, notices
  <1>4. ASSUME NEW e \in Events, Reported(e) PROVE TypeOK' /\ Decided'
    <2>1. task' \in [Tasks -> TaskType] /\ Decided'
      BY <1>4, <1>t DEF Reported, To, TaskType, Decided, asked
    <2>2. attention' \in [Objects -> Reasons \cup {None}]
      BY <1>4, <1>t DEF Reported, TypeOK, TaskType
    <2> QED
      BY <1>4, <2>1, <2>2 DEF Reported, TypeOK, TaskType, session, asked, notices
  <1>5. ASSUME NEW e \in Events, EventFires(e) PROVE TypeOK' /\ Decided'
    <2>1. task' \in [Tasks -> TaskType] /\ Decided'
      BY <1>5, <1>t DEF EventFires, To, TaskType, Decided, asked
    <2>2. outstanding' \in Reasons \cup {None} /\ posting' \subseteq Tasks
      BY <1>5, <1>t DEF EventFires, Fired, TypeOK, TaskType
    <2> QED
      BY <1>5, <2>1, <2>2 DEF EventFires, TypeOK, TaskType, session, asked
  <1>6. ASSUME NEW r \in Requests, NEW offered \in Offers, AskDecided(r, offered)
        PROVE TypeOK' /\ Decided'
    <2>1. PICK answer \in Choices :
            task' = [task EXCEPT ![r] = [Asked(offered) EXCEPT !.at = "done", !.answer = answer]]
      BY <1>6, <1>p, AutoAnswers DEF AskDecided
    <2>0. Asked(offered) \in TaskType
      BY <1>p, AskedTask DEF TypeOK
    <2>2. [Asked(offered) EXCEPT !.at = "done", !.answer = answer] \in TaskType
      BY <2>0 DEF TaskType
    <2>3. task' \in [Tasks -> TaskType] /\ Decided'
      BY <1>6, <1>t, <2>1, <2>2, AskedTask DEF AskDecided, Decided, asked, TaskType
    <2> QED
      BY <1>6, <2>3 DEF AskDecided, TypeOK, TaskType, session, asked, notices
  <1>7. ASSUME NEW r \in Requests, NEW offered \in Offers, AskRelayed(r, offered)
        PROVE TypeOK' /\ Decided'
    <2> DEFINE asking == [Asked(offered) EXCEPT !.at = "waiting", !.stalled = owner[made] = NoConn]
    <2>0. Asked(offered) \in TaskType
      BY <1>p, AskedTask DEF TypeOK
    <2>1. asking \in TaskType /\ asking.at = "waiting"
      BY <2>0 DEF TaskType
    <2>2. task' = [task EXCEPT ![r] = asking]
      BY <1>7 DEF AskRelayed
    <2>3. future' = [future EXCEPT ![r] = "open"] /\ pending' \in [Objects -> SUBSET Requests]
      BY <1>7 DEF AskRelayed, Register, TypeOK
    <2>4. task' \in [Tasks -> TaskType]
      BY <1>t, <2>1, <2>2
    <2>5. Decided'
      BY <1>t, <2>1, <2>2, <2>3 DEF Decided, TypeOK
    <2> QED
      BY <1>7, <2>3, <2>4, <2>5 DEF AskRelayed, Register, TypeOK, TaskType, session, notices
  <1>8. ASSUME NEW r \in Requests, NEW offered \in Offers, AskStalled(r, offered)
        PROVE TypeOK' /\ Decided'
    <2> DEFINE asking == [Asked(offered) EXCEPT !.at = "entering", !.stalled = TRUE]
    <2>0. Asked(offered) \in TaskType
      BY <1>p, AskedTask DEF TypeOK
    <2>1. asking \in TaskType /\ asking.at = "entering"
      BY <2>0 DEF TaskType
    <2>2. task' = [task EXCEPT ![r] = asking]
      BY <1>8 DEF AskStalled
    <2>3. task' \in [Tasks -> TaskType]
      BY <1>t, <2>1, <2>2
    <2>4. Decided'
      BY <1>8, <1>t, <2>1, <2>2 DEF AskStalled, Decided, TypeOK, asked
    <2>5. attention' \in [Objects -> Reasons \cup {None}]
      BY <1>8 DEF AskStalled, TypeOK, Reasons
    <2> QED
      BY <1>8, <2>3, <2>4, <2>5 DEF AskStalled, TypeOK, TaskType, session, asked, notices
  <1>9. ASSUME NEW r \in Requests, RequestFires(r) PROVE TypeOK' /\ Decided'
    <2>1. task' \in [Tasks -> TaskType] /\ Decided'
      <3>1. /\ task' = [task EXCEPT ![r].at = "waiting"]
            /\ future' = [future EXCEPT ![r] = "open"]
        BY <1>9 DEF RequestFires, Register, To
      <3>2. task' \in [Tasks -> TaskType]
        BY <1>t, <3>1 DEF TaskType
      <3>3. Decided'
        BY <1>t, <3>1 DEF Decided, TypeOK, TaskType
      <3> QED
        BY <3>2, <3>3
    <2>2. outstanding' \in Reasons \cup {None} /\ posting' \subseteq Tasks
      BY <1>9, <1>t DEF RequestFires, Fired, TypeOK, TaskType
    <2> QED
      BY <1>9, <2>1, <2>2 DEF RequestFires, Register, TypeOK, TaskType, session
  <1>10. ASSUME NEW c \in Conns, NEW r \in Requests, NEW choice \in Choices,
                Respond(c, r, choice)
         PROVE TypeOK' /\ Decided'
    BY <1>10 DEF Respond, TypeOK, Decided, session, notices
  <1>11. ASSUME NEW r \in Requests, Resolved(r) PROVE TypeOK' /\ Decided'
    <2>1. task' \in [Tasks -> TaskType]
      BY <1>11, <1>t DEF Resolved, TaskType
    <2>2. Decided'
      BY <1>11, <1>t DEF Resolved, Decided, TypeOK, TaskType
    <2>3. /\ pending' \in [Objects -> SUBSET Requests]
          /\ attention' \in [Objects -> Reasons \cup {None}]
          /\ outstanding' \in Reasons \cup {None}
      BY <1>11 DEF Resolved, Clear, TypeOK
    <2> QED
      BY <1>11, <2>1, <2>2, <2>3 DEF Resolved, TypeOK, TaskType, session
  <1>12. ASSUME NEW r \in Requests, Answer(r) PROVE TypeOK' /\ Decided'
    <2>0. future[r] \in Choices \cup {None}
      BY <1>12 DEF Answer, Decided
    <2>1. task' \in [Tasks -> TaskType]
      <3>1. [task[r] EXCEPT !.at = "done", !.answer = future[r]] \in TaskType
        BY <1>t, <2>0 DEF TaskType
      <3>2. task' = [task EXCEPT ![r] = [task[r] EXCEPT !.at = "done", !.answer = future[r]]]
        BY <1>12, <1>t DEF Answer
      <3> QED
        BY <1>t, <3>1, <3>2
    <2>2. Decided'
      BY <1>12, <1>t DEF Answer, Decided, TaskType
    <2>3. remembered' \in [Objects -> {None, "allow", "deny"}]
      BY <1>12 DEF Answer, TypeOK
    <2> QED
      BY <1>12, <2>1, <2>2, <2>3 DEF Answer, TypeOK, TaskType, session, notices
  <1>13. ASSUME NEW c \in Conns, Attach(c) PROVE TypeOK' /\ Decided'
    BY <1>13 DEF Attach, StartAttach, TypeOK, Decided, asked, notices
  <1>14. ASSUME NEW c \in Conns, NEW p \in Policies, NEW a \in Armings, Resume(c, p, a)
         PROVE TypeOK' /\ Decided'
    BY <1>14 DEF Resume, StartAttach, TypeOK, Decided, asked, notices
  <1>15. ASSUME NEW c \in Conns, Open(c) PROVE TypeOK' /\ Decided'
    <2>1. made + 1 \in 0..MaxObjects
      BY <1>15, BoundAssumption DEF Open, TypeOK
    <2> QED
      BY <1>15, <2>1 DEF Open, StartAttach, TypeOK, Decided, asked, notices
  <1>16. ASSUME NEW c \in Conns, Attached(c) PROVE TypeOK' /\ Decided'
    BY <1>16, BoundAssumption DEF Attached, Clear, TypeOK, Decided, asked
  <1>17. ASSUME NEW c \in Conns, Detach(c) PROVE TypeOK' /\ Decided'
    BY <1>17 DEF Detach, TypeOK, Decided, asked, notices
  <1>18. CASE BackendClosed
    BY <1>18 DEF BackendClosed, TypeOK, Decided, asked, notices
  <1>19. ASSUME Remove, owned' \subseteq Conns PROVE TypeOK' /\ Decided'
    <2>1. task' \in [Tasks -> TaskType]
      BY <1>19, <1>t, KilledTasks DEF Remove
    <2>2. \A r \in Requests : task'[r] = task[r]
      BY <1>19, <1>t, KilledTurns DEF Remove
    <2>4. Decided'
      BY <1>19, <2>2 DEF Remove, Decided, TypeOK, Choices, Kinds, None
    <2>3. /\ pending' \in [Objects -> SUBSET Requests]
          /\ future' \in [Requests -> Choices \cup {None, "open", "dropped"}]
          /\ backend' \in {"none", "known", "ended"}
      BY <1>19 DEF Remove, TypeOK
    <2> QED
      BY <1>19, <2>1, <2>4, <2>3 DEF Remove, TypeOK, TaskType, notices
  <1>20. ASSUME NEW c \in Conns, Close(c) PROVE TypeOK' /\ Decided'
    BY <1>19, <1>20 DEF Close, TypeOK
  <1>21. CASE Reap
    BY <1>19, <1>21 DEF Reap, TypeOK
  <1>22. CASE ProcessClosed
    <2>1. PICK T \in SUBSET Tasks : task' = Killed(T)
      BY <1>22 DEF ProcessClosed, TurnTasks
    <2>2. task' \in [Tasks -> TaskType]
      BY <1>t, <2>1, KilledTasks
    <2>3. future' \in [Requests -> Choices \cup {None, "open", "dropped"}]
      BY <1>22 DEF ProcessClosed, TypeOK
    <2>4. Decided'
      <3> SUFFICES ASSUME NEW r \in Requests, task'[r].at = "answering"
                   PROVE future'[r] \in Choices \cup {None}
        BY DEF Decided
      <3>1. task[r].at = "answering"
        BY <1>t, <2>1, KilledTasks
      <3> QED
        BY <1>22, <3>1 DEF ProcessClosed, Decided
    <2> QED
      BY <1>22, <2>2, <2>3, <2>4 DEF ProcessClosed, TypeOK, TaskType, notices
  <1>23. CASE UNCHANGED vars
    BY <1>23 DEF vars, session, notices, asked, TypeOK, Decided
  <1> QED
    BY <1>1, <1>2, <1>3, <1>4, <1>5, <1>6, <1>7, <1>8, <1>9, <1>10, <1>11, <1>12, <1>13,
       <1>14, <1>15, <1>16, <1>17, <1>18, <1>20, <1>21, <1>22, <1>23 DEF Next

(***************************************************************************)
(* The process knows a session that is in the table                        *)
(***************************************************************************)
LEMMA BackedStep == TypeOK /\ Backed /\ [Next]_vars => Backed'
  <1> SUFFICES ASSUME TypeOK, Backed, [Next]_vars PROVE Backed'
    OBVIOUS
  <1> USE DEF Backed, Known, session
  <1>1. CASE UNCHANGED <<made, present, backend>>
    BY <1>1
  <1>2. ASSUME NEW e \in Events, Crash(e) PROVE Backed'
    BY <1>2 DEF Crash
  <1>3. ASSUME NEW c \in Conns, Attach(c) PROVE Backed'
    BY <1>3 DEF Attach
  <1>4. ASSUME NEW c \in Conns, NEW p \in Policies, NEW a \in Armings, Resume(c, p, a)
        PROVE Backed'
    BY <1>4 DEF Resume
  <1>5. ASSUME NEW c \in Conns, Open(c) PROVE Backed'
    BY <1>5 DEF Open, TypeOK
  <1>6. CASE BackendClosed
    BY <1>6 DEF BackendClosed
  <1>7. CASE Remove
    BY <1>7 DEF Remove
  <1>8. CASE ProcessClosed
    BY <1>8 DEF ProcessClosed
  <1> QED
    BY <1>1, <1>2, <1>3, <1>4, <1>5, <1>6, <1>7, <1>8
    DEF Next, vars, Posted, TurnEnds, Reported, EventFires, AskDecided, AskRelayed, AskStalled,
        RequestFires, Respond, Resolved, Answer, Attached, Detach, Close, Reap

(***************************************************************************)
(* Where handlers and attention are                                        *)
(***************************************************************************)
LEMMA InitPlaced == Init => Backed /\ Placed
  <1> SUFFICES ASSUME Init PROVE Backed /\ Placed
    OBVIOUS
  <1>1. \A t \in Tasks : task[t].at = "idle"
    BY DEF Init, Idle
  <1> QED
    BY <1>1 DEF Init, Backed, Known, Placed, Tasks

(* A task that an action makes, or moves, is placed if its place is.       *)
LEMMA PlacedTasks ==
  ASSUME task \in [Tasks -> TaskType], Placed, made' = made,
         NEW t \in Tasks, NEW new, task' = [task EXCEPT ![t] = new],
         new.at # "idle" => new.object \in 1..made,
         new.at \in {"reporting", "entering"} => new.reason # None,
         t \in Requests /\ new.at = "entering" => new.stalled
  PROVE  /\ \A u \in Tasks :
               /\ task'[u].at # "idle" => task'[u].object \in 1..made'
               /\ task'[u].at \in {"reporting", "entering"} => task'[u].reason # None
         /\ \A r \in Requests : task'[r].at = "entering" => task'[r].stalled
  BY DEF Placed, Tasks

LEMMA PlacedKilled ==
  ASSUME task \in [Tasks -> TaskType], Placed, made' = made, NEW T \in SUBSET Tasks,
         \A t \in T : task[t].at # "idle", task' = Killed(T)
  PROVE  /\ \A u \in Tasks :
               /\ task'[u].at # "idle" => task'[u].object \in 1..made'
               /\ task'[u].at \in {"reporting", "entering"} => task'[u].reason # None
         /\ \A r \in Requests : task'[r].at = "entering" => task'[r].stalled
  <1>1. ASSUME NEW u \in Tasks
        PROVE  /\ task'[u].object = task[u].object /\ task'[u].reason = task[u].reason
               /\ task'[u].stalled = task[u].stalled
               /\ task'[u].at # "idle" => task[u].at # "idle"
               /\ task'[u].at \in {"reporting", "entering"} => task'[u].at = task[u].at
    <2>1. CASE u \in T
      BY <2>1, KilledTasks
    <2>2. CASE u \notin T
      BY <2>2, KilledTasks
    <2> QED
      BY <2>1, <2>2
  <1> QED
    BY <1>1 DEF Placed, Tasks

LEMMA PlacedStep == TypeOK /\ Backed /\ Placed /\ [Next]_vars => Placed'
  <1> SUFFICES ASSUME TypeOK, Backed, Placed, [Next]_vars PROVE Placed'
    OBVIOUS
  <1> USE DEF Tasks, Objects
  <1>t. task \in [Tasks -> TaskType]
    BY DEF TypeOK, TaskType
  <1>p. /\ Offers \subseteq SUBSET Kinds
        /\ made \in 0..MaxObjects /\ MaxObjects \in Nat
        /\ attention \in [Objects -> Reasons \cup {None}]
        /\ attaching \in [Conns -> 0..MaxObjects]
    BY ChoicesAssumption, BoundAssumption DEF TypeOK
  <1>m. backend # "none" => made \in 1..made
    BY <1>p DEF Backed
  <1>1. ASSUME NEW t \in Tasks, Posted(t) PROVE Placed'
    BY <1>1 DEF Posted, Placed, session
  <1>2. ASSUME NEW e \in Events, NEW reason \in Reasons, TurnEnds(e, reason) PROVE Placed'
    <2> DEFINE new == Reporting(made, reason, TRUE)
    <2>1. task' = [task EXCEPT ![e] = new] /\ made' = made /\ UNCHANGED <<attaching, attention>>
      BY <1>2 DEF TurnEnds, session
    <2>2. new.at = "reporting" /\ new.object = made /\ new.reason # None
      BY <1>p, ReportingTask, ReasonsAreNotNone
    <2>3. made \in 1..made /\ e \notin Requests
      BY <1>2, <1>m, TasksAssumption DEF TurnEnds, Known
    <2> HIDE DEF new
    <2> QED
      BY <1>t, <2>1, <2>2, <2>3, PlacedTasks DEF Placed
  <1>3. ASSUME NEW e \in Events, Crash(e) PROVE Placed'
    <2> DEFINE new == Reporting(made, "agent_crashed", FALSE)
               K   == Killed(TurnTasks(made))
    <2>1. task' = [K EXCEPT ![e] = new] /\ made' = made /\ UNCHANGED <<attaching, attention>>
      BY <1>3 DEF Crash
    <2>2. new.at = "reporting" /\ new.object = made /\ new.reason # None
      BY <1>p, ReportingTask, ReasonsAreNotNone DEF Reasons
    <2>3. made \in 1..made /\ e \notin Requests
      BY <1>3, <1>m, TasksAssumption DEF Crash, Known
    <2>4. K \in [Tasks -> TaskType]
      BY <1>t, KilledTasks
    <2>5. ASSUME NEW u \in Tasks
          PROVE  /\ K[u].object = task[u].object /\ K[u].reason = task[u].reason
                 /\ K[u].stalled = task[u].stalled
                 /\ K[u].at # "idle" => task[u].at # "idle"
                 /\ K[u].at \in {"reporting", "entering"} => K[u].at = task[u].at
      <3>1. CASE u \in TurnTasks(made)
        BY <1>t, <3>1, KilledTasks DEF TurnTasks
      <3>2. CASE u \notin TurnTasks(made)
        BY <1>t, <3>2, KilledTasks
      <3> QED
        BY <3>1, <3>2
    <2> HIDE DEF new, K
    <2> QED
      BY <1>t, <2>1, <2>2, <2>3, <2>4, <2>5 DEF Placed
  <1>4. ASSUME NEW e \in Events, Reported(e) PROVE Placed'
    <2>1. PICK phase \in {"entering", "done"} : task' = [task EXCEPT ![e].at = phase]
      BY <1>4 DEF Reported, To
    <2> DEFINE new == [task[e] EXCEPT !.at = phase]
    <2>2. task' = [task EXCEPT ![e] = new] /\ made' = made /\ UNCHANGED attaching
      BY <1>4, <1>t, <2>1 DEF Reported, session
    <2>3. /\ new.at = phase /\ new.object = task[e].object /\ new.reason = task[e].reason
          /\ e \notin Requests
      BY <1>t, TasksAssumption DEF TaskType
    <2>4. task[e].object \in 1..made /\ task[e].reason # None
      BY <1>4, <1>t DEF Reported, Placed
    <2>5. \A o \in Objects : o > made' => attention'[o] = None
      BY <1>4, <1>p, <2>2, <2>4 DEF Reported, Placed
    <2> HIDE DEF new
    <2> QED
      BY <1>t, <2>2, <2>3, <2>4, <2>5, PlacedTasks DEF Placed
  <1>5. ASSUME NEW e \in Events, EventFires(e) PROVE Placed'
    BY <1>5, <1>t DEF EventFires, To, Placed, session, TaskType
  <1>6. ASSUME NEW r \in Requests, NEW offered \in Offers, AskDecided(r, offered)
        PROVE Placed'
    <2>1. PICK answer \in Choices :
            task' = [task EXCEPT ![r] = [Asked(offered) EXCEPT !.at = "done", !.answer = answer]]
      BY <1>6, <1>p, AutoAnswers DEF AskDecided
    <2> DEFINE new == [Asked(offered) EXCEPT !.at = "done", !.answer = answer]
    <2>2. Asked(offered) \in TaskType /\ Asked(offered).object = made
      BY <1>p, AskedTask
    <2>3. new.at = "done" /\ new.object = made
      BY <2>2 DEF TaskType
    <2>4. made \in 1..made /\ made' = made /\ UNCHANGED <<attaching, attention>>
      BY <1>6, <1>m DEF AskDecided, Known, session
    <2>5. task' = [task EXCEPT ![r] = new]
      BY <2>1
    <2> HIDE DEF new
    <2> QED
      BY <1>t, <2>3, <2>4, <2>5, PlacedTasks DEF Placed
  <1>7. ASSUME NEW r \in Requests, NEW offered \in Offers, AskRelayed(r, offered)
        PROVE Placed'
    <2> DEFINE new == [Asked(offered) EXCEPT !.at = "waiting", !.stalled = owner[made] = NoConn]
    <2>2. Asked(offered) \in TaskType /\ Asked(offered).object = made
      BY <1>p, AskedTask
    <2>3. new.at = "waiting" /\ new.object = made
      BY <2>2 DEF TaskType
    <2>4. made \in 1..made /\ made' = made /\ UNCHANGED <<attaching, attention>>
      BY <1>7, <1>m DEF AskRelayed, Known, session
    <2>5. task' = [task EXCEPT ![r] = new]
      BY <1>7 DEF AskRelayed
    <2> HIDE DEF new
    <2> QED
      BY <1>t, <2>3, <2>4, <2>5, PlacedTasks DEF Placed
  <1>8. ASSUME NEW r \in Requests, NEW offered \in Offers, AskStalled(r, offered)
        PROVE Placed'
    <2> DEFINE new == [Asked(offered) EXCEPT !.at = "entering", !.stalled = TRUE]
    <2>2. /\ Asked(offered) \in TaskType /\ Asked(offered).object = made
          /\ Asked(offered).reason # None
      BY <1>p, AskedTask DEF None
    <2>3. new.at = "entering" /\ new.object = made /\ new.stalled /\ new.reason # None
      BY <2>2 DEF TaskType
    <2>4. made \in 1..made /\ made' = made /\ UNCHANGED attaching
      BY <1>8, <1>m DEF AskStalled, Known, session
    <2>5. task' = [task EXCEPT ![r] = new]
      BY <1>8 DEF AskStalled
    <2>6. \A o \in Objects : o > made' => attention'[o] = None
      BY <1>8, <1>p, <2>4 DEF AskStalled, Placed
    <2> HIDE DEF new
    <2> QED
      BY <1>t, <2>3, <2>4, <2>5, <2>6, PlacedTasks DEF Placed
  <1>9. ASSUME NEW r \in Requests, RequestFires(r) PROVE Placed'
    BY <1>9, <1>t DEF RequestFires, Register, To, Placed, session, TaskType
  <1>10. ASSUME NEW c \in Conns, NEW r \in Requests, NEW choice \in Choices,
                Respond(c, r, choice)
         PROVE Placed'
    BY <1>10 DEF Respond, Placed, session
  <1>11. ASSUME NEW r \in Requests, Resolved(r) PROVE Placed'
    <2>1. PICK phase \in {"answering", "done"} : task' = [task EXCEPT ![r].at = phase]
      BY <1>11 DEF Resolved
    <2> DEFINE new == [task[r] EXCEPT !.at = phase]
    <2>2. task' = [task EXCEPT ![r] = new] /\ made' = made /\ UNCHANGED attaching
      BY <1>11, <1>t, <2>1 DEF Resolved, session
    <2>3. new.at = phase /\ new.object = task[r].object
      BY <1>t DEF TaskType
    <2>4. task[r].object \in 1..made
      BY <1>11, <1>t DEF Resolved, Placed
    <2>5. \A o \in Objects : o > made' => attention'[o] = None
      BY <1>11, <1>p, <2>2 DEF Resolved, Clear, Placed
    <2> HIDE DEF new
    <2> QED
      BY <1>t, <2>2, <2>3, <2>4, <2>5, PlacedTasks DEF Placed
  <1>12. ASSUME NEW r \in Requests, Answer(r) PROVE Placed'
    <2> DEFINE new == [task[r] EXCEPT !.at = "done", !.answer = future[r]]
    <2>2. /\ task' = [task EXCEPT ![r] = new]
          /\ made' = made /\ UNCHANGED <<attaching, attention>>
      BY <1>12, <1>t DEF Answer, session
    <2>3. new.at = "done" /\ new.object = task[r].object
      BY <1>t DEF TaskType
    <2>4. task[r].object \in 1..made
      BY <1>12, <1>t DEF Answer, Placed
    <2> HIDE DEF new
    <2> QED
      BY <1>t, <2>2, <2>3, <2>4, PlacedTasks DEF Placed
  <1>13. ASSUME NEW c \in Conns, Attach(c) PROVE Placed'
    BY <1>13, <1>p DEF Attach, StartAttach, Placed
  <1>14. ASSUME NEW c \in Conns, NEW p \in Policies, NEW a \in Armings, Resume(c, p, a)
         PROVE Placed'
    BY <1>14, <1>p DEF Resume, StartAttach, Placed
  <1>15. ASSUME NEW c \in Conns, Open(c) PROVE Placed'
    <2>1. /\ made' = made + 1 /\ UNCHANGED <<task, attention>>
          /\ attaching' = [attaching EXCEPT ![c] = made + 1]
      BY <1>15 DEF Open, StartAttach
    <2>2. \A u \in Tasks : task[u].object \in 1..made => task[u].object \in 1..made + 1
      BY <1>p
    <2>3. \A d \in Conns : attaching'[d] <= made'
      BY <1>p, <2>1 DEF Placed
    <2>4. \A o \in Objects : o > made + 1 => o > made
      BY <1>p
    <2> QED
      BY <2>1, <2>2, <2>3, <2>4 DEF Placed
  <1>16. ASSUME NEW c \in Conns, Attached(c) PROVE Placed'
    BY <1>16, <1>p DEF Attached, Clear, Placed
  <1>17. ASSUME NEW c \in Conns, Detach(c) PROVE Placed'
    BY <1>17 DEF Detach, Placed
  <1>18. CASE BackendClosed
    BY <1>18 DEF BackendClosed, Placed
  <1>19. CASE Remove
    <2>1. PICK T \in {{}, TurnTasks(made)} : task' = Killed(T)
      BY <1>19 DEF Remove
    <2>2. T \in SUBSET Tasks /\ \A t \in T : task[t].at # "idle"
      BY <2>1 DEF TurnTasks
    <2> QED
      BY <1>19, <1>t, <2>1, <2>2, PlacedKilled DEF Remove, Placed
  <1>20. CASE ProcessClosed
    <2>1. PICK T \in SUBSET Tasks : task' = Killed(T) /\ \A t \in T : task[t].at # "idle"
      BY <1>20 DEF ProcessClosed, TurnTasks
    <2> QED
      BY <1>20, <1>t, <2>1, PlacedKilled DEF ProcessClosed, Placed
  <1>21. CASE UNCHANGED vars
    BY <1>21 DEF vars, session, Placed
  <1> QED
    BY <1>1, <1>2, <1>3, <1>4, <1>5, <1>6, <1>7, <1>8, <1>9, <1>10, <1>11, <1>12, <1>13,
       <1>14, <1>15, <1>16, <1>17, <1>18, <1>19, <1>20, <1>21 DEF Next, Close, Reap

(***************************************************************************)
(* Attention ends with an attach                                           *)
(***************************************************************************)
LEMMA CalmStep ==
  TypeOK /\ Backed /\ AttendedIsCalm /\ [Next]_vars => AttendedIsCalm'
  <1> SUFFICES ASSUME TypeOK, Backed, AttendedIsCalm, [Next]_vars PROVE AttendedIsCalm'
    OBVIOUS
  <1> USE DEF AttendedIsCalm, Objects
  <1>m. made \in 0..MaxObjects /\ MaxObjects \in Nat
    BY BoundAssumption DEF TypeOK
  <1>p. /\ made \in 0..MaxObjects /\ MaxObjects \in Nat /\ present => made \in Objects
        /\ attention \in [Objects -> Reasons \cup {None}]
        /\ attaching \in [Conns -> 0..MaxObjects]
        /\ owner \in [Objects -> Conns \cup {NoConn}]
    BY BoundAssumption DEF TypeOK, Backed
  <1>0. ASSUME UNCHANGED <<made, present, owner, attaching>>,
               made \in Objects /\ owner[made] # NoConn
                 => attention'[made] \in {attention[made], None}
        PROVE AttendedIsCalm'
    <2> SUFFICES ASSUME present', owner'[made'] # NoConn,
                        \A c \in Conns : attaching'[c] # made'
                 PROVE attention'[made'] = None
      OBVIOUS
    <2>1. present
      BY <1>0
    <2>2. made \in Objects
      <3>1. made # 0
        BY <2>1 DEF Backed
      <3> QED
        BY <1>m, <3>1
    <2>3. attention[made] = None
      BY <1>0, <2>1
    <2> QED
      BY <1>0, <2>2, <2>3
  <1>1. CASE UNCHANGED <<made, present, owner, attaching, attention>>
    BY <1>1
  <1>2. ASSUME NEW e \in Events, Reported(e) PROVE AttendedIsCalm'
    <2>1. UNCHANGED <<made, present, owner, attaching>>
      BY <1>2 DEF Reported, session
    <2>2. made \in Objects /\ owner[made] # NoConn => attention'[made] = attention[made]
      BY <1>2, <1>p DEF Reported, Enters
    <2> QED
      BY <1>0, <2>1, <2>2
  <1>3. ASSUME NEW r \in Requests, NEW offered \in Offers, AskStalled(r, offered)
        PROVE AttendedIsCalm'
    BY <1>3 DEF AskStalled, Enters, session
  <1>4. ASSUME NEW r \in Requests, Resolved(r) PROVE AttendedIsCalm'
    <2>1. UNCHANGED <<made, present, owner, attaching>>
      BY <1>4 DEF Resolved, session
    <2>2. \A o \in Objects : attention'[o] \in {attention[o], None}
      BY <1>4, <1>p DEF Resolved, Clear
    <2> QED
      BY <1>0, <2>1, <2>2
  <1>5. ASSUME NEW c \in Conns, Attach(c) PROVE AttendedIsCalm'
    BY <1>5, <1>p DEF Attach, StartAttach
  <1>6. ASSUME NEW c \in Conns, NEW p \in Policies, NEW a \in Armings, Resume(c, p, a)
        PROVE AttendedIsCalm'
    BY <1>6, <1>p DEF Resume, StartAttach
  <1>7. ASSUME NEW c \in Conns, Open(c) PROVE AttendedIsCalm'
    BY <1>7, <1>p DEF Open, StartAttach
  <1>8. ASSUME NEW c \in Conns, Attached(c) PROVE AttendedIsCalm'
    BY <1>8, <1>p DEF Attached, Clear
  <1>9. ASSUME NEW c \in Conns, Detach(c) PROVE AttendedIsCalm'
    BY <1>9, <1>p DEF Detach
  <1>10. CASE Remove
    BY <1>10 DEF Remove
  <1> QED
    BY <1>1, <1>2, <1>3, <1>4, <1>5, <1>6, <1>7, <1>8, <1>9, <1>10
    DEF Next, vars, session, Posted, TurnEnds, Crash, EventFires, AskDecided, AskRelayed,
        RequestFires, Respond, Answer, BackendClosed, Close, Reap, ProcessClosed

(***************************************************************************)
(* A request that waits can be answered, or dropped                        *)
(***************************************************************************)
LEMMA WaitingStep ==
  TypeOK /\ Backed /\ Placed /\ WaitingIsPending /\ [Next]_vars => WaitingIsPending'
  <1> SUFFICES ASSUME TypeOK, Backed, Placed, WaitingIsPending, [Next]_vars
               PROVE WaitingIsPending'
    OBVIOUS
  <1> USE DEF Tasks, Objects
  <1>t. task \in [Tasks -> TaskType]
    BY DEF TypeOK, TaskType
  <1>p. /\ made \in 0..MaxObjects /\ MaxObjects \in Nat
        /\ Offers \subseteq SUBSET Kinds
        /\ pending \in [Objects -> SUBSET Requests]
        /\ future \in [Requests -> Choices \cup {None, "open", "dropped"}]
        /\ Known => present /\ made \in Objects
    BY BoundAssumption, ChoicesAssumption DEF TypeOK, Backed
  <1>1. ASSUME UNCHANGED <<made, present, pending, future>>,
               \A r \in Requests : task'[r] = task[r] \/ task'[r].at # "waiting"
        PROVE WaitingIsPending'
    BY <1>1 DEF WaitingIsPending
  <1>2. ASSUME NEW t \in Tasks, Posted(t) PROVE WaitingIsPending'
    BY <1>1, <1>2 DEF Posted, session, asked
  <1>3. ASSUME NEW e \in Events, NEW reason \in Reasons, TurnEnds(e, reason)
        PROVE WaitingIsPending'
    BY <1>1, <1>3, <1>t, TasksAssumption DEF TurnEnds, session, asked
  <1>4. ASSUME NEW e \in Events, Crash(e) PROVE WaitingIsPending'
    <2>1. \A r \in Requests : task'[r] = task[r]
      BY <1>4, <1>t, KilledTurns, KilledTasks, TasksAssumption DEF Crash
    <2> QED
      BY <1>1, <1>4, <2>1 DEF Crash, asked
  <1>5. ASSUME NEW e \in Events, Reported(e) PROVE WaitingIsPending'
    BY <1>1, <1>5, <1>t, TasksAssumption DEF Reported, To, session, asked
  <1>6. ASSUME NEW e \in Events, EventFires(e) PROVE WaitingIsPending'
    BY <1>1, <1>6, <1>t, TasksAssumption DEF EventFires, To, session, asked
  <1>7. ASSUME NEW r \in Requests, NEW offered \in Offers, AskDecided(r, offered)
        PROVE WaitingIsPending'
    <2>1. PICK answer \in Choices :
            task' = [task EXCEPT ![r] = [Asked(offered) EXCEPT !.at = "done", !.answer = answer]]
      BY <1>7, <1>p, AutoAnswers DEF AskDecided
    <2>2. [Asked(offered) EXCEPT !.at = "done", !.answer = answer].at = "done"
      BY <1>p, AskedTask DEF TaskType
    <2>3. \A q \in Requests : task'[q] = task[q] \/ task'[q].at # "waiting"
      BY <1>t, <2>1, <2>2
    <2> QED
      BY <1>1, <1>7, <2>3 DEF AskDecided, session, asked
  <1>8. ASSUME NEW r \in Requests, NEW offered \in Offers, AskRelayed(r, offered)
        PROVE WaitingIsPending'
    <2> DEFINE new == [Asked(offered) EXCEPT !.at = "waiting", !.stalled = owner[made] = NoConn]
    <2>1. Asked(offered) \in TaskType /\ Asked(offered).object = made
      BY <1>p, AskedTask
    <2>2. new.object = made
      BY <2>1 DEF TaskType
    <2>3. task' = [task EXCEPT ![r] = new]
      BY <1>8 DEF AskRelayed
    <2>4. Known /\ present /\ made \in Objects
      BY <1>8, <1>p DEF AskRelayed, Backed
    <2>5. /\ pending' = [pending EXCEPT ![made] = @ \cup {r}]
          /\ future' = [future EXCEPT ![r] = "open"]
          /\ UNCHANGED <<made, present>>
      BY <1>8 DEF AskRelayed, Register, session
    <2> HIDE DEF new
    <2> QED
      BY <1>t, <1>p, <2>2, <2>3, <2>4, <2>5 DEF WaitingIsPending
  <1>9. ASSUME NEW r \in Requests, NEW offered \in Offers, AskStalled(r, offered)
        PROVE WaitingIsPending'
    <2>1. [Asked(offered) EXCEPT !.at = "entering", !.stalled = TRUE].at = "entering"
      BY <1>p, AskedTask DEF TaskType
    <2>2. \A q \in Requests : task'[q] = task[q] \/ task'[q].at # "waiting"
      BY <1>9, <1>t, <2>1 DEF AskStalled
    <2> QED
      BY <1>1, <1>9, <2>2 DEF AskStalled, session, asked
  <1>10. ASSUME NEW r \in Requests, RequestFires(r) PROVE WaitingIsPending'
    <2>1. /\ task[r].stalled /\ task[r].object \in Objects
      BY <1>10, <1>t, <1>p DEF RequestFires, Placed
    <2>2. /\ task' = [task EXCEPT ![r].at = "waiting"]
          /\ pending' = [pending EXCEPT ![task[r].object] = @ \cup {r}]
          /\ future' = [future EXCEPT ![r] = "open"]
          /\ UNCHANGED <<made, present>>
      BY <1>10 DEF RequestFires, Register, To, session
    <2>3. /\ task'[r].object = task[r].object /\ task'[r].stalled
          /\ \A q \in Requests \ {r} : task'[q] = task[q]
      BY <1>t, <2>1, <2>2 DEF TaskType
    <2>4. \A o \in Objects : pending[o] \subseteq pending'[o]
      BY <1>p, <2>1, <2>2
    <2>5. \A q \in Requests \ {r} : task[q].at = "waiting" => task[q].object \in Objects
      BY <1>p DEF Placed
    <2> QED
      BY <1>p, <2>1, <2>2, <2>3, <2>4, <2>5 DEF WaitingIsPending
  <1>11. ASSUME NEW c \in Conns, NEW r \in Requests, NEW choice \in Choices,
                Respond(c, r, choice)
         PROVE WaitingIsPending'
    BY <1>11, <1>p DEF Respond, session, WaitingIsPending
  <1>12. ASSUME NEW r \in Requests, Resolved(r) PROVE WaitingIsPending'
    <2>1. /\ \A q \in Requests \ {r} : task'[q] = task[q]
          /\ task'[r].at # "waiting"
          /\ UNCHANGED <<made, present, future>>
      BY <1>12, <1>t DEF Resolved, session, TaskType
    <2>2. \A q \in Requests \ {r}, o \in Objects : q \in pending[o] => q \in pending'[o]
      BY <1>12, <1>p DEF Resolved
    <2>3. \A q \in Requests \ {r} : task[q].at = "waiting" => task[q].object \in Objects
      BY <1>p DEF Placed
    <2> QED
      BY <2>1, <2>2, <2>3 DEF WaitingIsPending
  <1>13. ASSUME NEW r \in Requests, Answer(r) PROVE WaitingIsPending'
    <2>1. \A q \in Requests : task'[q] = task[q] \/ task'[q].at # "waiting"
      BY <1>13, <1>t DEF Answer, TaskType
    <2> QED
      BY <1>1, <1>13, <2>1 DEF Answer, session, notices
  <1>14. ASSUME UNCHANGED <<made, present, pending, future, task>> PROVE WaitingIsPending'
    BY <1>1, <1>14
  <1>15. ASSUME NEW c \in Conns, Open(c) PROVE WaitingIsPending'
    BY <1>15 DEF Open, WaitingIsPending, asked
  <1>16. CASE Remove
    <2>1. \A r \in Requests : task'[r] = task[r]
      BY <1>16, <1>t, KilledTurns DEF Remove
    <2>2. /\ future' = [r \in Requests |-> IF r \in pending[made] /\ future[r] = "open"
                                            THEN "dropped" ELSE future[r]]
          /\ pending' = [pending EXCEPT ![made] = {}]
          /\ UNCHANGED made
      BY <1>16 DEF Remove
    <2>3. \A r \in Requests : future'[r] = "open" => future[r] = "open" /\ r \notin pending[made]
      BY <1>p, <2>2
    <2>4. \A o \in Objects \ {made} : pending'[o] = pending[o]
      BY <1>p, <2>2
    <2>5. \A q \in Requests : task[q].at = "waiting" => task[q].object \in Objects
      BY <1>p DEF Placed
    <2> QED
      BY <2>1, <2>3, <2>4, <2>5 DEF WaitingIsPending
  <1>17. CASE ProcessClosed
    <2>1. PICK T \in SUBSET Tasks : task' = Killed(T)
      BY <1>17 DEF ProcessClosed, TurnTasks
    <2>2. \A r \in Requests : task'[r].at = "waiting" => task'[r] = task[r]
      <3>1. ASSUME NEW r \in Requests, r \in T PROVE task'[r].at # "waiting"
        BY <1>t, <2>1, <3>1, KilledTasks
      <3> QED
        BY <1>t, <2>1, <3>1, KilledTasks
    <2>3. \A r \in Requests : task'[r].at = "waiting" => future'[r] # "open"
      BY <1>17, <2>2 DEF ProcessClosed
    <2> QED
      BY <2>3 DEF WaitingIsPending
  <1> QED
    BY <1>2, <1>3, <1>4, <1>5, <1>6, <1>7, <1>8, <1>9, <1>10, <1>11, <1>12, <1>13, <1>14, <1>15,
       <1>16, <1>17
    DEF Next, Attach, Resume, Attached, Detach, BackendClosed, Close, Reap, vars, session, asked

(***************************************************************************)
(* Attention is notified                                                   *)
(***************************************************************************)
(* The session is in the outstanding set, or a task is about to put it     *)
(* there, or was cancelled in the middle.                                  *)
Noticed ==
  \/ outstanding # None
  \/ \E t \in Tasks : task[t].at \in {"entering", "eaten"} /\ task[t].object = made

(* Whatever becomes of the tasks of an object, its notice is kept, as long *)
(* as they are moved from entering only to eaten.                          *)
LEMMA NoticeKept ==
  ASSUME Noticed, made' = made, outstanding' = outstanding,
         \A t \in Tasks : task[t].at \in {"entering", "eaten"} =>
           task'[t].at \in {"entering", "eaten"} /\ task'[t].object = task[t].object
  PROVE  Noticed'
  BY DEF Noticed

LEMMA NoticedStep ==
  TypeOK /\ Backed /\ Placed /\ AttentionIsNotified /\ [Next]_vars => AttentionIsNotified'
  <1> SUFFICES ASSUME TypeOK, Backed, Placed, AttentionIsNotified, [Next]_vars,
                      made' = 1, present', attention'[1] # None
               PROVE Noticed'
    BY DEF AttentionIsNotified, Noticed
  <1> USE DEF Tasks, Objects
  <1>t. task \in [Tasks -> TaskType]
    BY DEF TypeOK, TaskType
  <1>p. /\ made \in 0..MaxObjects /\ MaxObjects \in Nat \ {0}
        /\ Offers \subseteq SUBSET Kinds
        /\ attention \in [Objects -> Reasons \cup {None}]
        /\ attaching \in [Conns -> 0..MaxObjects]
        /\ outstanding \in Reasons \cup {None}
    BY BoundAssumption, ChoicesAssumption DEF TypeOK
  <1>n. ASSUME made = 1, present, attention[1] # None PROVE Noticed
    BY <1>n DEF AttentionIsNotified, Noticed
  <1>1. ASSUME UNCHANGED <<made, present, attention, outstanding>>,
               \A t \in Tasks : task[t].at \in {"entering", "eaten"} =>
                 task'[t].at \in {"entering", "eaten"} /\ task'[t].object = task[t].object
        PROVE Noticed'
    <2>1. made = 1 /\ attention[1] # None
      BY <1>1
    <2>2. present
      BY <1>1
    <2> QED
      BY <1>1, <1>n, <2>1, <2>2, NoticeKept
  <1>2. ASSUME NEW t \in Tasks, Posted(t) PROVE Noticed'
    BY <1>1, <1>2 DEF Posted, session
  <1>3. ASSUME NEW e \in Events, NEW reason \in Reasons, TurnEnds(e, reason) PROVE Noticed'
    BY <1>1, <1>3, <1>t DEF TurnEnds, session, notices
  <1>4. ASSUME NEW e \in Events, Crash(e) PROVE Noticed'
    <2> DEFINE K == Killed(TurnTasks(made))
    <2>1. \A t \in Tasks : task[t].at \in {"entering", "eaten"} =>
            K[t].at \in {"entering", "eaten"} /\ K[t].object = task[t].object
      <3>1. \A t \in TurnTasks(made) : task[t].at # "eaten"
        BY DEF TurnTasks
      <3> QED
        BY <1>t, <3>1, KilledTasks
    <2>2. task' = [K EXCEPT ![e] = Reporting(made, "agent_crashed", FALSE)] /\ task[e].at = "idle"
      BY <1>4 DEF Crash
    <2>3. K \in [Tasks -> TaskType]
      BY <1>t, KilledTasks
    <2> HIDE DEF K
    <2>4. \A t \in Tasks : task[t].at \in {"entering", "eaten"} =>
            task'[t].at \in {"entering", "eaten"} /\ task'[t].object = task[t].object
      BY <2>1, <2>2, <2>3
    <2> QED
      BY <1>1, <1>4, <2>4 DEF Crash, notices
  <1>5. ASSUME NEW e \in Events, Reported(e) PROVE Noticed'
    <2>1. CASE attention' = attention
      <3>1. \A t \in Tasks : task[t].at \in {"entering", "eaten"} => task'[t] = task[t]
        BY <1>5, <1>t DEF Reported, To
      <3> QED
        BY <1>1, <1>5, <2>1, <3>1 DEF Reported, session, notices
    <2>2. CASE attention' # attention
      <3>1. task' = [task EXCEPT ![e].at = "entering"] /\ made = 1
        BY <1>5, <2>2 DEF Reported, To, session
      <3>2. task[e].object \in 1..made
        BY <1>5, <1>t DEF Reported, Placed
      <3>3. task'[e].at = "entering" /\ task'[e].object = made'
        BY <1>t, <3>1, <3>2 DEF TaskType
      <3> QED
        BY <3>3 DEF Noticed
    <2> QED
      BY <2>1, <2>2
  <1>6. ASSUME NEW e \in Events, EventFires(e) PROVE Noticed'
    BY <1>6 DEF EventFires, Fired, Placed, Noticed
  <1>7. ASSUME NEW r \in Requests, NEW offered \in Offers, AskDecided(r, offered)
        PROVE Noticed'
    <2>1. \A t \in Tasks : task[t].at \in {"entering", "eaten"} => task'[t] = task[t]
      BY <1>7, <1>t DEF AskDecided
    <2> QED
      BY <1>1, <1>7, <2>1 DEF AskDecided, session, notices
  <1>8. ASSUME NEW r \in Requests, NEW offered \in Offers, AskRelayed(r, offered)
        PROVE Noticed'
    <2>1. \A t \in Tasks : task[t].at \in {"entering", "eaten"} => task'[t] = task[t]
      BY <1>8, <1>t DEF AskRelayed
    <2> QED
      BY <1>1, <1>8, <2>1 DEF AskRelayed, session, notices
  <1>9. ASSUME NEW r \in Requests, NEW offered \in Offers, AskStalled(r, offered)
        PROVE Noticed'
    <2> DEFINE new == [Asked(offered) EXCEPT !.at = "entering", !.stalled = TRUE]
    <2>1. Asked(offered) \in TaskType /\ Asked(offered).object = made
      BY <1>p, AskedTask
    <2>2. new.at = "entering" /\ new.object = made
      BY <2>1 DEF TaskType
    <2>3. task' = [task EXCEPT ![r] = new] /\ made' = made
      BY <1>9 DEF AskStalled, session
    <2> HIDE DEF new
    <2>4. task'[r].at = "entering" /\ task'[r].object = made'
      BY <1>t, <2>2, <2>3
    <2> QED
      BY <2>4 DEF Noticed
  <1>10. ASSUME NEW r \in Requests, RequestFires(r) PROVE Noticed'
    BY <1>10 DEF RequestFires, Fired, Placed, Noticed
  <1>11. ASSUME NEW c \in Conns, NEW r \in Requests, NEW choice \in Choices,
                Respond(c, r, choice)
         PROVE Noticed'
    BY <1>1, <1>11 DEF Respond, session, notices
  <1>12. ASSUME NEW o \in 1..made, Clear(o), made' = made PROVE FALSE
    BY <1>12, <1>p DEF Clear
  <1>13. ASSUME NEW r \in Requests, Resolved(r) PROVE Noticed'
    <2>1. task[r].object \in 1..made /\ made' = made
      BY <1>13, <1>t DEF Resolved, Placed, session
    <2>2. UNCHANGED <<attention, outstanding>>
      BY <1>12, <1>13, <2>1 DEF Resolved
    <2>3. \A t \in Tasks : task[t].at \in {"entering", "eaten"} => task'[t] = task[t]
      BY <1>13, <1>t DEF Resolved
    <2> QED
      BY <1>1, <1>13, <2>2, <2>3 DEF Resolved, session
  <1>14. ASSUME NEW r \in Requests, Answer(r) PROVE Noticed'
    <2>1. \A t \in Tasks : task[t].at \in {"entering", "eaten"} => task'[t] = task[t]
      BY <1>14, <1>t DEF Answer
    <2> QED
      BY <1>1, <1>14, <2>1 DEF Answer, session, notices
  <1>15. ASSUME UNCHANGED <<made, present, attention, outstanding, task>> PROVE Noticed'
    BY <1>1, <1>15
  <1>16. ASSUME NEW c \in Conns, Open(c) PROVE Noticed'
    <2>1. made = 0 /\ attention' = attention
      BY <1>16, <1>p DEF Open
    <2>2. attention[1] = None
      BY <1>p, <2>1 DEF Placed
    <2> QED
      BY <2>1, <2>2
  <1>17. ASSUME NEW c \in Conns, Attached(c) PROVE Noticed'
    <2>1. attaching[c] \in 1..made /\ made' = made
      BY <1>17, <1>p DEF Attached, Placed
    <2> QED
      BY <1>12, <1>17, <2>1 DEF Attached
  <1>18. CASE Remove
    BY <1>18 DEF Remove
  <1>19. CASE ProcessClosed
    <2>0. PICK T \in SUBSET Tasks :
            task' = Killed(T) /\ \A t \in T : task[t].at \in {"reporting", "entering"}
      BY <1>19, ProcessKills
    <2>1. \A t \in T : task[t].at # "eaten"
      BY <2>0
    <2>2. \A t \in Tasks : task[t].at \in {"entering", "eaten"} =>
            task'[t].at \in {"entering", "eaten"} /\ task'[t].object = task[t].object
      BY <1>t, <2>0, <2>1, KilledTasks
    <2> QED
      BY <1>1, <1>19, <2>2 DEF ProcessClosed, notices
  <1> QED
    BY <1>2, <1>3, <1>4, <1>5, <1>6, <1>7, <1>8, <1>9, <1>10, <1>11, <1>13, <1>14, <1>15,
       <1>16, <1>17, <1>18, <1>19
    DEF Next, Attach, Resume, Detach, BackendClosed, Close, Reap, vars, session, notices

(***************************************************************************)
(* Denials                                                                 *)
(***************************************************************************)
(* Only asking takes a request from idle, and one that is asked of a       *)
(* session that denies is decided at once.                                 *)
LEMMA DenyStep ==
  ASSUME TypeOK, [Next]_vars, NEW r \in Requests,
         task[r].at = "idle", task'[r].at # "idle", Known, Denies(made)
  PROVE  task'[r].answer \in Kind("deny") \cup {"cancelled"}
  <1> USE DEF Tasks
  <1>t. task \in [Tasks -> TaskType] /\ Offers \subseteq SUBSET Kinds
    BY ChoicesAssumption DEF TypeOK, TaskType
  <1>w. Way(made) = "deny" /\ Way(made) # None
    BY DEF Denies, Way, None
  <1>1. ASSUME task'[r] = task[r] PROVE FALSE
    BY <1>1
  <1>2. ASSUME NEW e \in Events, NEW reason \in Reasons, TurnEnds(e, reason) PROVE FALSE
    BY <1>1, <1>2, <1>t, TasksAssumption DEF TurnEnds
  <1>3. ASSUME NEW e \in Events, Crash(e) PROVE FALSE
    <2>1. r \in Tasks /\ r # e
      BY TasksAssumption
    <2>2. Killed(TurnTasks(made)) \in [Tasks -> TaskType]
      BY <1>t, KilledTasks
    <2>3. Killed(TurnTasks(made))[r] = task[r]
      BY <1>t, KilledTurns
    <2> QED
      BY <1>1, <1>3, <2>1, <2>2, <2>3 DEF Crash
  <1>4. ASSUME NEW e \in Events, Reported(e) \/ EventFires(e) PROVE FALSE
    BY <1>1, <1>4, <1>t, TasksAssumption DEF Reported, EventFires, To
  <1>5. ASSUME NEW q \in Requests, NEW offered \in Offers, AskDecided(q, offered)
        PROVE task'[r].answer \in Kind("deny") \cup {"cancelled"}
    <2>1. PICK answer \in AutoDecision(offered, "deny") :
            task' = [task EXCEPT ![q] = [Asked(offered) EXCEPT !.at = "done", !.answer = answer]]
      BY <1>5, <1>w DEF AskDecided
    <2>2. answer \in Kind("deny") \cup {"cancelled"}
      BY <1>t, <2>1, AutoAnswers
    <2>3. q = r
      BY <1>1, <1>t, <2>1
    <2>4. Asked(offered) \in TaskType
      BY <1>t, AskedTask DEF TypeOK
    <2>5. task'[r] = [Asked(offered) EXCEPT !.at = "done", !.answer = answer]
      BY <1>t, <2>1, <2>3
    <2> QED
      BY <2>2, <2>4, <2>5 DEF TaskType
  <1>6. ASSUME NEW q \in Requests, NEW offered \in Offers,
               AskRelayed(q, offered) \/ AskStalled(q, offered)
        PROVE FALSE
    BY <1>6, <1>w DEF AskRelayed, AskStalled
  <1>7. ASSUME NEW q \in Requests, RequestFires(q) \/ Resolved(q) \/ Answer(q) PROVE FALSE
    <2>1. task[q].at # "idle" /\ q # r
      BY <1>7 DEF RequestFires, Resolved, Answer
    <2> QED
      BY <1>1, <1>7, <1>t, <2>1 DEF RequestFires, Resolved, Answer, To
  <1>8. ASSUME UNCHANGED task PROVE FALSE
    BY <1>1, <1>8
  <1>9. CASE Remove
    BY <1>1, <1>9, <1>t, KilledTurns DEF Remove
  <1>10. CASE ProcessClosed
    <2>1. PICK T \in SUBSET Tasks :
            task' = Killed(T) /\ \A t \in T : task[t].at \in {"reporting", "entering"}
      BY <1>10, ProcessKills
    <2>2. r \notin T
      BY <2>1
    <2> QED
      BY <1>1, <1>t, <2>1, <2>2, KilledTasks
  <1> QED
    BY <1>2, <1>3, <1>4, <1>5, <1>6, <1>7, <1>8, <1>9, <1>10
    DEF Next, Posted, Respond, Attach, Resume, Open, Attached, Detach, BackendClosed, Close, Reap,
        vars

(***************************************************************************)
(* The inductive invariant and what follows from it                        *)
(***************************************************************************)
Inv ==
  /\ TypeOK /\ Decided /\ Backed /\ Placed
  /\ AttendedIsCalm /\ WaitingIsPending /\ AttentionIsNotified

LEMMA InitInv == Init => Inv
  <1> SUFFICES ASSUME Init PROVE Inv
    OBVIOUS
  <1>1. AttendedIsCalm /\ AttentionIsNotified
    BY DEF Init, AttendedIsCalm, AttentionIsNotified
  <1>2. WaitingIsPending
    BY DEF Init, WaitingIsPending, Idle, Tasks
  <1> QED
    BY <1>1, <1>2, InitTypes, InitPlaced DEF Inv

LEMMA StepInv == Inv /\ [Next]_vars => Inv'
  BY TypeStep, BackedStep, PlacedStep, CalmStep, WaitingStep, NoticedStep DEF Inv

LEMMA InvHolds == Spec => []Inv
  BY InitInv, StepInv, PTL DEF Spec

(* Every variable has its type, however often the session is opened,       *)
(* attached, asked, answered and removed.                                  *)
THEOREM TypeCorrect == Spec => []TypeOK
  <1>1. Inv => TypeOK
    BY DEF Inv
  <1> QED
    BY <1>1, InvHolds, PTL

(* Once the attach of an owner is over, the session does not need          *)
(* attention, whatever raised it while the replay was going on.            *)
THEOREM AttendedCalm == Spec => []AttendedIsCalm
  <1>1. Inv => AttendedIsCalm
    BY DEF Inv
  <1> QED
    BY <1>1, InvHolds, PTL

(* A request of the agent that waits for an answer can be answered, or is  *)
(* dropped with its session, unless it stalled.                            *)
THEOREM RequestsPending == Spec => []WaitingIsPending
  <1>1. Inv => WaitingIsPending
    BY DEF Inv
  <1> QED
    BY <1>1, InvHolds, PTL

(* A session opened once that needs attention is outstanding, or a task is *)
(* about to make it so, or was cancelled when it was.                      *)
THEOREM AttentionNotified == Spec => []AttentionIsNotified
  <1>1. Inv => AttentionIsNotified
    BY DEF Inv
  <1> QED
    BY <1>1, InvHolds, PTL

(* No request of a session that denies is allowed while the process knows  *)
(* the session.                                                            *)
THEOREM DenialHolds == Spec => DenyHolds
  <1>1. Inv /\ [Next]_vars =>
          [\A r \in Requests :
             task[r].at = "idle" /\ task'[r].at # "idle" /\ Known /\ Denies(made)
               => task'[r].answer \in Kind("deny") \cup {"cancelled"}]_vars
    BY DenyStep DEF Inv
  <1> QED
    BY <1>1, InvHolds, PTL DEF Spec, DenyHolds
=============================================================================
