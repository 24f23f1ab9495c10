----------------------------- MODULE Attention ------------------------------
(***************************************************************************)
(* One session that may need its owner while nobody is attached: how it    *)
(* enters and leaves needs_attention, the permission requests of its agent *)
(* that are relayed, stalled, answered or abandoned, and the notifications *)
(* that are outstanding or posted for it.                                  *)
(*                                                                         *)
(* Sources: session.py (enter_attention, clear_attention and the triggers  *)
(* in on_event, decide_permission and its helpers, attach, detach_writer,  *)
(* SessionTable.remove), notify.py, acp.py (_ProcessClient), and the       *)
(* handlers of daemon.py that call them.                                   *)
(*                                                                         *)
(* on_event suspends its caller while the queue of a viewer, or of the     *)
(* owner, is full.  So each call of it that is followed by something is    *)
(* the end of a step here, and what follows is another step.  The session  *)
(* may be removed and opened again: every opening makes a Session object,  *)
(* and the tasks of an old object go on.  Objects are numbered.            *)
(*                                                                         *)
(* A permission option is known by its kind, and an owner answers with one *)
(* that was offered, or cancels.                                           *)
(***************************************************************************)
EXTENDS Naturals, FiniteSets

CONSTANTS
  Conns,       (* client connections                                       *)
  NoConn,      (* no connection                                            *)
  Requests,    (* permission requests of the agent                         *)
  Events,      (* errors and results that the session's turns end with     *)
  Policies,    (* permission policies the profile may have at an open      *)
  Armings,     (* sets of attention triggers an open may arm               *)
  Offers,      (* sets of option kinds a request may offer                 *)
  MaxObjects   (* bound: Session objects made for the session              *)

Kinds   == {"allow_once", "allow_always", "reject_once", "reject_always"}
Reasons == {"permission_pending", "auth_required", "agent_crashed", "turn_complete"}
Policy  == [mode : {"relay", "allow", "deny"}, detached : {"stall", "allow", "deny"}]
None    == "none"

ASSUME ConnsAssumption == NoConn \notin Conns
ASSUME TasksAssumption == Requests \cap Events = {}
ASSUME ChoicesAssumption ==
  /\ Policies \subseteq Policy
  /\ Armings \subseteq SUBSET Reasons
  /\ Offers \subseteq SUBSET Kinds
ASSUME BoundAssumption == MaxObjects \in Nat \ {0}

Tasks   == Requests \cup Events
Objects == 1..MaxObjects
Choices == Kinds \cup {"cancelled"}

VARIABLES
  made,         (* Session objects made so far; the newest is number made  *)
  present,      (* the newest object is in the SessionTable                *)
  backend,      (* the session on the agent process: "known"; "ended" while *)
                (* the agent may still be at its turn; or "none"           *)
  owner,        (* owner[o]: Session.connection_id of object o             *)
  owned,        (* connections with the session in _owned_sessions         *)
  attaching,    (* attaching[c]: object in whose attach() c is, or 0       *)
  attention,    (* attention[o]: attention_reason, None if not needed      *)
  policy,       (* permission_policy of each object                        *)
  armed,        (* attention_triggers of each object                       *)
  remembered,   (* remembered_permission of each object                    *)
  pending,      (* pending_permissions of each object                      *)
  task,         (* task[t]: where the handler of t is                      *)
  future,       (* future[r]: "open", what it was set to, or "dropped"     *)
  outstanding,  (* the session's reason in NotifyService._outstanding      *)
  posting       (* tasks whose notification is being dispatched            *)

session == <<made, present, backend, owner, owned, attaching, policy, armed>>
notices == <<outstanding, posting>>
asked   == <<remembered, pending, future>>
vars    == <<session, attention, asked, task, notices>>

Idle == [at |-> "idle", object |-> 0, reason |-> None, turn |-> FALSE,
         offered |-> {}, stalled |-> FALSE, answer |-> None]

Known == backend = "known"

(* The handler of t moves on.                                              *)
To(t, phase) == task' = [task EXCEPT ![t].at = phase]

(* Mutant: the owner's presence is not looked at.                          *)
EntersAnyway(o, reason) == reason \in armed[o] /\ attention[o] # reason

(* Whether enter_attention goes past its three early returns.              *)
Enters(o, reason) ==
  owner[o] = NoConn /\ reason \in armed[o] /\ attention[o] # reason

(* clear_attention for the objects that o ranges over: what is left of the *)
(* state and of the session's outstanding notification.                    *)
Clear(o) ==
  /\ attention' = [attention EXCEPT ![o] = None]
  /\ outstanding' = IF attention[o] = None THEN outstanding ELSE None

-----------------------------------------------------------------------------
Init ==
  /\ made = 0 /\ present = FALSE /\ backend = "none"
  /\ owner = [o \in Objects |-> NoConn]
  /\ owned = {}
  /\ attaching = [c \in Conns |-> 0]
  /\ attention = [o \in Objects |-> None]
  /\ policy \in [Objects -> Policies]
  /\ armed \in [Objects -> Armings]
  /\ remembered = [o \in Objects |-> None]
  /\ pending = [o \in Objects |-> {}]
  /\ task = [t \in Tasks |-> Idle]
  /\ future = [r \in Requests |-> None]
  /\ outstanding = None
  /\ posting = {}

(***************************************************************************)
(* enter_attention: the flag at once, the notification after the event.    *)
(***************************************************************************)
(* Mutant: the notification is dispatched, and not kept.                   *)
FiredUnkept(t) ==
  /\ posting' = posting \cup {t}
  /\ UNCHANGED outstanding

(* The webhook is posted by a task of NotifyService.                       *)
Fired(t) ==
  /\ outstanding' = task[t].reason
  /\ posting' = posting \cup {t}

(* WebhookSink.emit ends, with a POST, a failure that is logged, or the    *)
(* timeout, and the dispatch task is reaped.                               *)
Posted(t) ==
  /\ t \in posting
  /\ posting' = posting \ {t}
  /\ UNCHANGED <<session, attention, asked, task, outstanding>>

(***************************************************************************)
(* Errors and results                                                      *)
(***************************************************************************)
(* The turn of the newest object has a task that has not ended.            *)
TurnTasks(o) == {e \in Events : task[e].turn /\ task[e].object = o
                                 /\ task[e].at \in {"reporting", "entering"}}

(* Those tasks are cancelled: what they suspend in raises.                 *)
Killed(T) == [t \in Tasks |-> IF t \in T
                                THEN [task[t] EXCEPT !.at =
                                        IF @ = "entering" THEN "eaten" ELSE "done"]
                                ELSE task[t]]

Reporting(o, reason, turn) ==
  [Idle EXCEPT !.at = "reporting", !.object = o, !.reason = reason, !.turn = turn]

(* A turn ends: its task gives on_event a result or an error.              *)
TurnEnds(e, reason) ==
  /\ task[e].at = "idle" /\ Known /\ TurnTasks(made) = {}
  /\ task' = [task EXCEPT ![e] = Reporting(made, reason, TRUE)]
  /\ UNCHANGED <<session, attention, asked, notices>>

(* The process died: _watch_exit cancels the turn and reports the crash.   *)
Crash(e) ==
  /\ task[e].at = "idle" /\ Known
  /\ backend' = "none"
  /\ task' = [Killed(TurnTasks(made)) EXCEPT ![e] = Reporting(made, "agent_crashed", FALSE)]
  /\ UNCHANGED <<made, present, owner, owned, attaching, policy, armed, attention, asked,
                 notices>>

(* Once the frame is out, on_event tries to enter attention.               *)
Reported(e) ==
  /\ task[e].at = "reporting"
  /\ LET o == task[e].object IN
       \/ /\ Enters(o, task[e].reason)
          /\ attention' = [attention EXCEPT ![o] = task[e].reason]
          /\ To(e, "entering")
       \/ ~Enters(o, task[e].reason) /\ To(e, "done") /\ UNCHANGED attention
  /\ UNCHANGED <<session, asked, notices>>

EventFires(e) ==
  /\ e \in Events /\ task[e].at = "entering"
  /\ Fired(e)
  /\ To(e, "done")
  /\ UNCHANGED <<session, attention, asked>>

(***************************************************************************)
(* Permission requests                                                     *)
(***************************************************************************)
Kind(way) == IF way = "allow" THEN {"allow_once", "allow_always"}
             ELSE {"reject_once", "reject_always"}

(* _auto_decision: an option of that kind, "cancelled" if there is none.   *)
AutoDecision(offered, way) ==
  IF offered \cap Kind(way) = {} THEN {"cancelled"} ELSE offered \cap Kind(way)

(* Mutant: what was remembered is not looked at.                           *)
WayForgetful(o) ==
  IF policy[o].mode # "relay" THEN policy[o].mode
  ELSE IF owner[o] = NoConn /\ policy[o].detached # "stall" THEN policy[o].detached
  ELSE None

(* What decides without the owner, None if nothing does: what was          *)
(* remembered, then the policy, then, with nobody attached, its detached.  *)
Way(o) ==
  IF remembered[o] # None THEN remembered[o]
  ELSE IF policy[o].mode # "relay" THEN policy[o].mode
  ELSE IF owner[o] = NoConn /\ policy[o].detached # "stall" THEN policy[o].detached
  ELSE None

(* What a request gets for a session that the process does not know.       *)
Fallback(offered) ==
  IF offered \cap Kind("allow") = {} THEN offered ELSE offered \cap Kind("allow")

Asked(offered) ==
  [Idle EXCEPT !.object = made, !.reason = "permission_pending", !.offered = offered]

(* The request is answered at once: by the policy, or, for a session that  *)
(* was ended on the process, by default.                                   *)
AskDecided(r, offered) ==
  /\ task[r].at = "idle"
  /\ backend = "ended" \/ (Known /\ Way(made) # None)
  /\ \E answer \in IF Known THEN AutoDecision(offered, Way(made)) ELSE Fallback(offered) :
       task' = [task EXCEPT ![r] = [Asked(offered) EXCEPT !.at = "done", !.answer = answer]]
  /\ UNCHANGED <<session, attention, asked, notices>>

(* decide_permission registers its future, relays the request and waits.   *)
Register(r, o) ==
  /\ pending' = [pending EXCEPT ![o] = @ \cup {r}]
  /\ future' = [future EXCEPT ![r] = "open"]
  /\ UNCHANGED remembered

(* The owner is attached, or attention need not be entered.                *)
AskRelayed(r, offered) ==
  /\ task[r].at = "idle" /\ Known /\ Way(made) = None
  /\ ~Enters(made, "permission_pending")
  /\ task' = [task EXCEPT ![r] = [Asked(offered) EXCEPT !.at = "waiting",
                                                       !.stalled = owner[made] = NoConn]]
  /\ Register(r, made)
  /\ UNCHANGED <<session, attention, notices>>

(* Nobody is attached: the turn stalls, and the session needs attention.   *)
AskStalled(r, offered) ==
  /\ task[r].at = "idle" /\ Known /\ Way(made) = None
  /\ Enters(made, "permission_pending")
  /\ attention' = [attention EXCEPT ![made] = "permission_pending"]
  /\ task' = [task EXCEPT ![r] = [Asked(offered) EXCEPT !.at = "entering", !.stalled = TRUE]]
  /\ UNCHANGED <<session, asked, notices>>

RequestFires(r) ==
  /\ r \in Requests /\ task[r].at = "entering"
  /\ Fired(r)
  /\ To(r, "waiting")
  /\ Register(r, task[r].object)
  /\ UNCHANGED <<session, attention>>

(* resolve_permission: the first answer to a request that is pending.      *)
Respond(c, r, choice) ==
  /\ c \in owned /\ attaching[c] = 0 /\ present
  /\ r \in pending[made] /\ future[r] = "open"
  /\ choice \in task[r].offered \cup {"cancelled"}
  /\ future' = [future EXCEPT ![r] = choice]
  /\ UNCHANGED <<session, attention, remembered, pending, task, notices>>

(* The future is done: the request is no longer pending, and one that had  *)
(* stalled clears the attention.                                           *)
Resolved(r) ==
  /\ task[r].at = "waiting" /\ future[r] # "open"
  /\ pending' = [pending EXCEPT ![task[r].object] = @ \ {r}]
  /\ IF task[r].stalled THEN Clear(task[r].object) ELSE UNCHANGED <<attention, outstanding>>
  /\ task' = [task EXCEPT ![r].at = IF future[r] = "dropped" THEN "done" ELSE "answering"]
  /\ UNCHANGED <<session, remembered, future, posting>>

(* Mutant: the kind itself is remembered.                                  *)
AnswerKeepsKind(r) ==
  /\ task[r].at = "answering"
  /\ remembered' = [remembered EXCEPT ![task[r].object] = future[r]]
  /\ task' = [task EXCEPT ![r].at = "done", ![r].answer = future[r]]
  /\ UNCHANGED <<session, attention, pending, future, notices>>

(* ... and the decision is remembered and given to the agent.              *)
Answer(r) ==
  /\ task[r].at = "answering"
  /\ remembered' = [remembered EXCEPT ![task[r].object] =
                      CASE future[r] = "allow_always" -> "allow"
                        [] future[r] = "reject_always" -> "deny"
                        [] OTHER -> @]
  /\ task' = [task EXCEPT ![r].at = "done", ![r].answer = future[r]]
  /\ UNCHANGED <<session, attention, pending, future, notices>>

(***************************************************************************)
(* Coming and going                                                        *)
(***************************************************************************)
Free(c) == attaching[c] = 0

(* The previous owner is told, the new one hooked; clear_attention comes   *)
(* after the replay.                                                       *)
StartAttach(c, o) ==
  /\ owner' = [owner EXCEPT ![o] = c]
  /\ owned' = (owned \ {owner[o]}) \cup {c}
  /\ attaching' = [attaching EXCEPT ![c] = o]

(* session.attach as owner.                                                *)
Attach(c) ==
  /\ Free(c) /\ present
  /\ StartAttach(c, made)
  /\ UNCHANGED <<made, present, backend, policy, armed, attention, asked, task, notices>>

(* session.open that resumes: the profile's policy and triggers, which may *)
(* have changed, replace the session's, and the backend is respawned.      *)
Resume(c, p, a) ==
  /\ Free(c) /\ present
  /\ policy' = [policy EXCEPT ![made] = p]
  /\ armed' = [armed EXCEPT ![made] = a]
  /\ backend' = "known"
  /\ StartAttach(c, made)
  /\ UNCHANGED <<made, present, attention, asked, task, notices>>

(* session.open of a session that is not in the table.  Its backend needs  *)
(* the agent's answer, and what was cancelled by then has ended.           *)
Open(c) ==
  /\ Free(c) /\ ~present /\ made < MaxObjects
  /\ \A r \in Requests : future[r] = "dropped" => task[r].at # "waiting"
  /\ made' = made + 1
  /\ present' = TRUE
  /\ backend' = "known"
  /\ StartAttach(c, made + 1)
  /\ UNCHANGED <<policy, armed, attention, asked, task, notices>>

Attached(c) ==
  /\ attaching[c] # 0
  /\ Clear(attaching[c])
  /\ attaching' = [attaching EXCEPT ![c] = 0]
  /\ UNCHANGED <<made, present, backend, owner, owned, policy, armed, asked, task, posting>>

(* session.detach, and the end of the connection.                          *)
Detach(c) ==
  /\ Free(c) /\ c \in owned
  /\ owned' = owned \ {c}
  /\ owner' = [owner EXCEPT ![made] = IF present /\ @ = c THEN NoConn ELSE @]
  /\ UNCHANGED <<made, present, backend, attaching, policy, armed, attention, asked, task,
                 notices>>

(* A connection that ended has its session's backend closed: at once, or   *)
(* by on_event after the turn in flight.                                   *)
BackendClosed ==
  /\ Known /\ TurnTasks(made) = {}
  /\ \A r \in Requests : task[r].at \notin {"entering", "waiting"}
  /\ backend' = "none"
  /\ UNCHANGED <<made, present, owner, owned, attaching, policy, armed, attention, asked, task,
                 notices>>

(* Mutant: the pending requests are forgotten, and not cancelled.          *)
RemoveForgets ==
  /\ present' = FALSE
  /\ backend' = IF Known THEN "ended" ELSE backend
  /\ pending' = [pending EXCEPT ![made] = {}]
  /\ task' = Killed(IF Known THEN TurnTasks(made) ELSE {})
  /\ UNCHANGED <<made, owner, attaching, policy, armed, attention, remembered, future, notices>>

(* SessionTable.remove: futures are cancelled, the session is ended on the *)
(* process, and the task of its turn with it.                              *)
Remove ==
  /\ present' = FALSE
  /\ backend' = IF Known THEN "ended" ELSE backend
  /\ future' = [r \in Requests |-> IF r \in pending[made] /\ future[r] = "open"
                                     THEN "dropped" ELSE future[r]]
  /\ pending' = [pending EXCEPT ![made] = {}]
  /\ task' = Killed(IF Known THEN TurnTasks(made) ELSE {})
  /\ UNCHANGED <<made, owner, attaching, policy, armed, attention, remembered, notices>>

Close(c) ==
  /\ Free(c) /\ c \in owned /\ present
  /\ Remove
  /\ owned' = owned \ {c}

Reap ==
  /\ present /\ owner[made] = NoConn
  /\ Remove
  /\ UNCHANGED owned

(* The process is closed (profile.stop, idle): the turn is cancelled, and  *)
(* the connection to the agent cancels the requests it was handling.       *)
ProcessClosed ==
  /\ backend # "none"
  /\ backend' = "none"
  /\ LET W == {r \in Requests : task[r].at = "waiting" /\ future[r] = "open"}
         E == {r \in Requests : task[r].at = "entering"}
         U == IF Known THEN TurnTasks(made) ELSE {}
     IN /\ future' = [r \in Requests |-> IF r \in W THEN "dropped" ELSE future[r]]
        /\ task' = Killed(E \cup U)
  /\ UNCHANGED <<made, present, owner, owned, attaching, policy, armed, attention,
                 remembered, pending, notices>>

Next ==
  \/ \E t \in Tasks : Posted(t)
  \/ \E e \in Events, reason \in Reasons \ {"permission_pending"} : TurnEnds(e, reason)
  \/ \E e \in Events : Crash(e)
  \/ \E e \in Events : Reported(e)
  \/ \E e \in Events : EventFires(e)
  \/ \E r \in Requests, offered \in Offers : AskDecided(r, offered)
  \/ \E r \in Requests, offered \in Offers : AskRelayed(r, offered)
  \/ \E r \in Requests, offered \in Offers : AskStalled(r, offered)
  \/ \E r \in Requests : RequestFires(r)
  \/ \E c \in Conns, r \in Requests, choice \in Choices : Respond(c, r, choice)
  \/ \E r \in Requests : Resolved(r)
  \/ \E r \in Requests : Answer(r)
  \/ \E c \in Conns : Attach(c)
  \/ \E c \in Conns, p \in Policies, a \in Armings : Resume(c, p, a)
  \/ \E c \in Conns : Open(c)
  \/ \E c \in Conns : Attached(c)
  \/ \E c \in Conns : Detach(c)
  \/ BackendClosed
  \/ \E c \in Conns : Close(c)
  \/ Reap
  \/ ProcessClosed

Spec == Init /\ [][Next]_vars

-----------------------------------------------------------------------------
(* Every variable has its type.                                            *)
TypeOK ==
  /\ made \in 0..MaxObjects /\ present \in BOOLEAN
  /\ backend \in {"none", "known", "ended"}
  /\ owner \in [Objects -> Conns \cup {NoConn}] /\ owned \subseteq Conns
  /\ attaching \in [Conns -> 0..MaxObjects]
  /\ attention \in [Objects -> Reasons \cup {None}]
  /\ policy \in [Objects -> Policies] /\ armed \in [Objects -> Armings]
  /\ remembered \in [Objects -> {None, "allow", "deny"}]
  /\ pending \in [Objects -> SUBSET Requests]
  /\ task \in [Tasks ->
       [at : {"idle", "reporting", "entering", "eaten", "waiting", "answering", "done"},
        object : 0..MaxObjects, reason : Reasons \cup {None}, turn : BOOLEAN,
        offered : SUBSET Kinds, stalled : BOOLEAN, answer : Choices \cup {None}]]
  /\ future \in [Requests -> Choices \cup {None, "open", "dropped"}]
  /\ outstanding \in Reasons \cup {None}
  /\ posting \subseteq Tasks

(* "Reattaching always clears needs_attention" (spec.md:1352): a session   *)
(* with an owner whose attach is over does not need attention, whoever     *)
(* attached, left and raised it in between (session.py:364, 472).          *)
AttendedIsCalm ==
  present /\ owner[made] # NoConn /\ (\A c \in Conns : attaching[c] # made)
    => attention[made] = None

(* A session that needs attention is in the outstanding set, or about to   *)
(* be; only a task that was cancelled in the middle loses it, and then no  *)
(* later error of that reason brings it back (session.py:376).  A session  *)
(* that was closed and opened again can lose it to what is left of the old *)
(* object, whose attach ends late: the set is by session id.               *)
AttentionIsNotified ==
  made = 1 /\ present /\ attention[made] # None =>
    \/ outstanding # None
    \/ \E t \in Tasks : task[t].at \in {"entering", "eaten"} /\ task[t].object = made

(* A request that waits is one that its session can still get answered, or *)
(* drop with itself: only one that was entering attention when its session *)
(* was removed is left waiting for ever (session.py:421-426, 819).         *)
WaitingIsPending ==
  \A r \in Requests : task[r].at = "waiting" /\ future[r] = "open" =>
    /\ r \in pending[task[r].object]
    /\ task[r].stalled \/ (present /\ task[r].object = made)

(* A request asked by a session that allows nothing, by its policy or by   *)
(* an earlier reject_always, is not allowed (session.py:462), provided the *)
(* process still knows the session.                                        *)
Denies(o) ==
  remembered[o] = "deny" \/ (remembered[o] = None /\ policy[o].mode = "deny")

DenyHolds ==
  [][\A r \in Requests :
       task[r].at = "idle" /\ task'[r].at # "idle" /\ Known /\ Denies(made)
         => task'[r].answer \in Kind("deny") \cup {"cancelled"}]_vars

(* "The profile's permission_policy decides the answer"                    *)
(* (acp-migration-spec.md:220).  Not for a session that was ended while    *)
(* the agent was at its turn: the process has no policy for it any more    *)
(* (acp.py:157).                                                           *)
PolicyDecides ==
  [][\A r \in Requests :
       task[r].at = "idle" /\ task'[r].at # "idle" /\ Denies(made)
         => task'[r].answer \notin Kind("allow")]_vars

(* `attention` in a status reply is "one notification payload per session  *)
(* currently awaiting its owner" (acp-migration-spec.md:469).              *)
OutstandingAwaits ==
  outstanding # None => present /\ (owner[made] = NoConn \/ \E c \in Conns : attaching[c] = made)
=============================================================================
