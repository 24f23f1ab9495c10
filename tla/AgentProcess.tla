---------------------------- MODULE AgentProcess ----------------------------
(***************************************************************************)
(* The sessions of one agent on their shared ACP process: how the process  *)
(* is started, crashes, is found dead and replaced, how sessions are       *)
(* loaded onto it, and the life of their turns, from the prompt to the     *)
(* frame that closes them, when owners cancel, leave, come back and close. *)
(*                                                                         *)
(* Sources: backends/acp.py (AcpAgentProcess, AcpSessionHandle), the       *)
(* handlers of daemon.py that drive them (open, prompt, cancel, detach,    *)
(* close, the end of a connection), and session.py (detach_soft, remove,   *)
(* the reaper and the soft-kill of on_event).                              *)
(*                                                                         *)
(* A step is the code between two awaits that really suspend: the start of *)
(* the process, session/load, the agent's answer, the notification of a    *)
(* cancel, the exit of the process; and a turn is prompted by a task that  *)
(* runs later than the handler that made it.  Frames go out at once        *)
(* (Connection has the full queue), and of all frames only those that      *)
(* close a turn are counted.  A teardown that waits for the turns it       *)
(* cancels is one step with their end.  The sessions here are in the       *)
(* registry with a native id, so every open resumes one, and the agent can *)
(* load them: first opens (session/new) and view-only sessions are left    *)
(* out.                                                                    *)
(***************************************************************************)
EXTENDS Naturals, Sequences, FiniteSets

CONSTANTS
  Sessions,    (* sessions of this agent                                   *)
  Conns,       (* client connections                                       *)
  NoConn,      (* no connection                                            *)
  MaxTurns,    (* bound: turns started                                     *)
  MaxStarts,   (* bound: processes started                                 *)
  MaxLoads     (* bound: session/load requests                             *)

ASSUME ConnsAssumption == NoConn \notin Conns
ASSUME BoundsAssumption == MaxTurns \in Nat /\ MaxStarts \in Nat /\ MaxLoads \in Nat

VARIABLES
  proc,       (* "down"; "up"; "exited": dead, and _watch_exit yet to run  *)
  starts,     (* processes started so far: the number of the newest one    *)
  object,     (* number of the AcpAgentProcess the supervisor has          *)
  known,      (* known[s]: number of its _SessionState in `sessions`, or 0 *)
  made,       (* _SessionState objects made so far                         *)
  turns,      (* the turns so far, as records of what their task is at     *)
  table,      (* the sessions in the SessionTable                          *)
  handle,     (* handle[s]: process object of Session.backend, 0 for None  *)
  owner,      (* Session.connection_id                                     *)
  parked,     (* sessions whose detached_at is set                         *)
  owned,      (* owned[c]: Connection._owned_sessions                      *)
  finishing,  (* Session._finishing                                        *)
  softKill,   (* sessions with a scheduled backend-soft-kill task          *)
  doing       (* doing[c]: the handler connection c is suspended in        *)

process == <<proc, starts, object, known, made>>
session == <<table, handle, owner, parked, owned, finishing, softKill>>
vars    == <<process, turns, session, doing>>

Free == [op |-> "none"]
Idle(c) == doing[c] = Free

(* AcpSessionHandle.running: the process is, and it was given a native id. *)
Running(s) == handle[s] # 0 /\ handle[s] = object /\ proc = "up"

(* The _SessionState a session's handle gets at.                           *)
StateOf(s) == IF handle[s] # 0 /\ handle[s] = object THEN known[s] ELSE 0

(* A turn is live until its task is done; one that was cancelled before it *)
(* ran (unbegun) has no task, and yet its state stays busy with it.        *)
Live(t) == turns[t].phase # "done"
HasTask(t) == turns[t].phase \notin {"unbegun", "done"}

(* The turn whose task is the state's turn_task, if it is live, and        *)
(* turn_active: unless the turn is stranded.                               *)
On(t, g) == Live(t) /\ turns[t].state = g /\ g # 0
TurnOn(g) == CHOOSE t \in DOMAIN turns : On(t, g)
ActiveOn(g) == \E t \in DOMAIN turns : On(t, g) /\ ~turns[t].stranded
Active(s) == ActiveOn(StateOf(s))

(* Task.cancel: a CancelledError at the turn's next step; a task that has  *)
(* yet to run never does.  History: a turn is stray if nobody asked to     *)
(* cancel it.                                                              *)
Thrown(r) ==
  IF r.phase = "created" THEN [r EXCEPT !.phase = "unbegun", !.stray = TRUE]
  ELSE IF r.phase = "unbegun" THEN r
  ELSE [r EXCEPT !.phase = "thrown", !.stray = ~r.cancelled]

(* History: what is left of the turns when session/load replaces or drops  *)
(* the state of s, with the turn that is on it.                            *)
Stranded(s) ==
  [t \in DOMAIN turns |->
     IF Live(t) /\ turns[t].state = known[s]
       THEN [turns[t] EXCEPT !.stranded = TRUE] ELSE turns[t]]

(* A turn ends, with n frames that close it; what nobody will look at      *)
(* again is cleared.                                                       *)
Over(r, n) ==
  [r EXCEPT !.phase = "done", !.frames = @ + n, !.state = 0, !.process = 0, !.reads = 0,
            !.notified = FALSE, !.gone = FALSE, !.stranded = FALSE]

(* ... which makes the state it read inactive (finally), be it another's.  *)
Ended(t, n) ==
  [u \in DOMAIN turns |->
     IF u = t THEN Over(turns[t], n)
     ELSE IF On(u, turns[t].reads) THEN [turns[u] EXCEPT !.stranded = TRUE]
     ELSE turns[u]]

(* Its task finds no state at its first step, and returns.                 *)
Missed(r) == [Over(r, 0) EXCEPT !.missed = TRUE]

(* The turns on the states G are cancelled and waited for.  A user's       *)
(* cancel is reported, if there is a task to report it.                    *)
Torn(G) == {t \in DOMAIN turns : \E g \in G : On(t, g)}
Reports(r) == r.cancelled /\ r.phase \notin {"created", "unbegun"}
TornDown(G) ==
  [t \in DOMAIN turns |->
     IF t \in Torn(G)
       THEN [Over(turns[t], IF Reports(turns[t]) THEN 1 ELSE 0) EXCEPT !.torn = TRUE]
       ELSE turns[t]]

(* What on_event does with a session.result in the sessions S, k being the *)
(* soft-kills scheduled before.                                            *)
AfterResult(S, k) ==
  /\ softKill' = k \cup {s \in S : finishing[s] /\ handle[s] # 0}
  /\ finishing' = [s \in Sessions |-> finishing[s] /\ s \notin S]

(* The sessions that a result of turn t reaches.                           *)
Reached(t) == IF turns[t].gone THEN {} ELSE {turns[t].session}

-----------------------------------------------------------------------------
Init ==
  /\ proc = "down" /\ starts = 0 /\ object = 1
  /\ known = [s \in Sessions |-> 0] /\ made = 0
  /\ turns = <<>>
  /\ table = {}
  /\ handle = [s \in Sessions |-> 0]
  /\ owner = [s \in Sessions |-> NoConn]
  /\ parked = {}
  /\ owned = [c \in Conns |-> {}]
  /\ finishing = [s \in Sessions |-> FALSE]
  /\ softKill = {}
  /\ doing = [c \in Conns |-> Free]

(***************************************************************************)
(* Spawning a backend: ensure_started, then session/load, which makes the  *)
(* session known before the agent has answered.                            *)
(***************************************************************************)
Starting(c) == doing[c].op \in {"open", "prompt"} /\ doing[c].at = "start"
Loading(c)  == doing[c].op \in {"open", "prompt"} /\ doing[c].at = "load"
Lost(c)     == Loading(c) /\ (proc # "up" \/ doing[c].process # starts)

(* The handler op of connection c asks the running process to load s, gone *)
(* saying whether its Session object has left the table.                   *)
Load(c, op, s, gone) ==
  /\ made < MaxLoads
  /\ made' = made + 1
  /\ known' = [known EXCEPT ![s] = made + 1]
  /\ doing' = [doing EXCEPT ![c] =
                 [op |-> op, s |-> s, at |-> "load", process |-> starts, gone |-> gone]]
  /\ turns' = Stranded(s)

(* Whether ensure_started has to start the process, or to wait for others. *)
Waiting == proc # "up" \/ \E d \in Conns : Starting(d)

Spawn(c, op, s) ==
  \/ ~Waiting /\ Load(c, op, s, FALSE)
  \/ /\ Waiting
     /\ doing' = [doing EXCEPT ![c] =
                    [op |-> op, s |-> s, at |-> "start", process |-> 0, gone |-> FALSE]]
     /\ UNCHANGED <<known, made, turns>>

(* The handler of c starts the process, which drops the sessions of the    *)
(* one before, and goes on to load.  A turn's task that has yet to run     *)
(* runs while the process starts, and finds no state.                      *)
StartProcess(c) ==
  /\ Starting(c) /\ proc # "up"
  /\ starts < MaxStarts /\ made < MaxLoads
  /\ proc' = "up"
  /\ starts' = starts + 1
  /\ made' = made + 1
  /\ known' = [s \in Sessions |-> IF s = doing[c].s THEN made + 1 ELSE 0]
  /\ doing' = [doing EXCEPT ![c] = [@ EXCEPT !.at = "load", !.process = starts + 1]]
  /\ turns' = [t \in DOMAIN turns |->
                 IF turns[t].phase = "created" THEN Missed(turns[t]) ELSE turns[t]]
  /\ UNCHANGED <<object, session>>

(* A handler that waited for the start lock finds the process running.     *)
Started(c) ==
  /\ Starting(c) /\ proc = "up"
  /\ Load(c, doing[c].op, doing[c].s, doing[c].gone)
  /\ UNCHANGED <<proc, starts, object, session>>

(* Opening, and taking over: the previous owner is told and loses the      *)
(* session, and the handler suspends if the backend must be spawned.       *)
TakenFrom(s, c) ==
  [d \in Conns |-> IF d # c /\ owner[s] = d THEN owned[d] \ {s} ELSE owned[d]]

TakeOver(c, s) ==
  /\ owner' = [owner EXCEPT ![s] = c]
  /\ parked' = parked \ {s}
  /\ owned' = [TakenFrom(s, c) EXCEPT ![c] = @ \cup {s}]

Open(c, s) ==
  /\ Idle(c)
  /\ table' = table \cup {s}
  /\ \/ Running(s) /\ TakeOver(c, s) /\ UNCHANGED <<known, made, turns, doing>>
     \/ /\ ~Running(s)
        /\ Spawn(c, "open", s)
        /\ owned' = TakenFrom(s, c)
        /\ UNCHANGED <<owner, parked>>
  /\ UNCHANGED <<proc, starts, object, handle, finishing, softKill>>

(* session.attach as owner takes a live session, and spawns nothing.       *)
Attach(c, s) ==
  /\ Idle(c) /\ s \in table
  /\ TakeOver(c, s)
  /\ UNCHANGED <<process, turns, table, handle, finishing, softKill, doing>>

(* A turn on the state g of session s: its task is made, and g's turn_task *)
(* is no longer the one of the turn before, should that still run.         *)
NewTurn(s, g, gone) ==
  /\ Len(turns) < MaxTurns
  /\ turns' = Append([t \in DOMAIN turns |->
                        IF On(t, g) THEN [turns[t] EXCEPT !.state = 0] ELSE turns[t]],
                     [session |-> s, state |-> g, process |-> starts, phase |-> "created",
                      reads |-> 0, cancelled |-> FALSE, notified |-> FALSE, torn |-> FALSE,
                      gone |-> gone, stray |-> FALSE, missed |-> FALSE, stranded |-> FALSE,
                      frames |-> 0])

(* Mutant: no check for a turn in flight.                                  *)
SubmitBusy(s, gone) ==
  \/ known[s] # 0 /\ NewTurn(s, known[s], gone)
  \/ known[s] = 0 /\ UNCHANGED turns

(* AcpAgentProcess.prompt: refused if the session is unknown or busy.      *)
Submit(s, gone) ==
  \/ known[s] # 0 /\ ~ActiveOn(known[s]) /\ NewTurn(s, known[s], gone)
  \/ (known[s] = 0 \/ ActiveOn(known[s])) /\ UNCHANGED turns

(* session/load is answered: an open attaches its connection, a prompt     *)
(* goes on to submit its turn.  Who waited for the lock runs before this.  *)
Loaded(c) ==
  /\ Loading(c) /\ ~Lost(c)
  /\ \A d \in Conns : ~Starting(d)
  /\ LET s == doing[c].s IN
       /\ handle' = [handle EXCEPT ![s] = IF doing[c].gone THEN @ ELSE object]
       /\ \/ /\ doing[c].op = "open"
             /\ owned' = [owned EXCEPT ![c] = @ \cup {s}]
             /\ owner' = [owner EXCEPT ![s] = IF doing[c].gone THEN @ ELSE c]
             /\ parked' = IF doing[c].gone THEN parked ELSE parked \ {s}
             /\ UNCHANGED turns
          \/ /\ doing[c].op = "prompt"
             /\ Submit(s, doing[c].gone)
             /\ UNCHANGED <<owned, owner, parked>>
  /\ doing' = [doing EXCEPT ![c] = Free]
  /\ UNCHANGED <<process, table, finishing, softKill>>

(* SessionTable.remove: the session is dropped, its backend closed with    *)
(* the turn on it.  K are the sessions the process knows at that moment,   *)
(* and T the turns.                                                        *)
Remove(s, K, T) ==
  LET closed == IF handle[s] # 0 /\ handle[s] = object THEN {K[s]} ELSE {}
  IN /\ table' = table \ {s}
     /\ handle' = [handle EXCEPT ![s] = 0]
     /\ owner' = [owner EXCEPT ![s] = NoConn]
     /\ parked' = parked \ {s}
     /\ finishing' = [finishing EXCEPT ![s] = FALSE]
     /\ softKill' = softKill \ {s}
     /\ known' = IF closed = {} THEN K ELSE [K EXCEPT ![s] = 0]
     /\ turns' = [t \in DOMAIN turns |->
                    IF turns[t].session = s /\ Live(t) /\ t \notin Torn(closed)
                      THEN [T[t] EXCEPT !.gone = TRUE] ELSE TornDown(closed)[t]]

(* The handlers still at work on a Session object that is removed.         *)
Orphaned(D, s) ==
  [c \in Conns |-> IF D[c].op \in {"open", "prompt"} /\ D[c].s = s
                     THEN [D[c] EXCEPT !.gone = TRUE] ELSE D[c]]

(* The process cannot be started, or the agent refuses to load: an open is *)
(* undone, whoever else uses the session, a prompt answered with an error. *)
SpawnFails(c) ==
  /\ \/ Starting(c) /\ proc # "up"
     \/ Loading(c) /\ ~Lost(c)
  /\ LET s == doing[c].s
         K == IF Starting(c) THEN [r \in Sessions |-> 0] ELSE [known EXCEPT ![s] = 0]
         T == IF Starting(c) THEN turns ELSE Stranded(s)
         D == [doing EXCEPT ![c] = Free]
     IN \/ /\ doing[c].op = "open" /\ s \in table
           /\ Remove(s, K, T)
           /\ doing' = Orphaned(D, s)
        \/ /\ doing[c].op = "prompt" \/ s \notin table
           /\ known' = K /\ turns' = T /\ doing' = D
           /\ UNCHANGED <<table, handle, owner, parked, finishing, softKill>>
  /\ UNCHANGED <<proc, starts, object, made, owned>>

(* The connection to the agent is lost while it is asked to load: no error *)
(* that _handle_open catches, so it leaves its session in the table.       *)
SpawnBreaks(c) ==
  /\ Lost(c)
  /\ doing' = [doing EXCEPT ![c] = Free]
  /\ UNCHANGED <<process, turns, session>>

(***************************************************************************)
(* Turns                                                                   *)
(***************************************************************************)
(* _handle_prompt: respawn if the handle says the backend does not run.    *)
Prompt(c, s) ==
  /\ Idle(c) /\ s \in owned[c] /\ s \in table
  /\ \/ ~Running(s) /\ Spawn(c, "prompt", s)
     \/ Running(s) /\ Submit(s, FALSE) /\ UNCHANGED <<known, made, doing>>
  /\ UNCHANGED <<proc, starts, object, session>>

(* Its task runs with the state g, which is another's.                     *)
Astray(r, g, gone) ==
  [r EXCEPT !.phase = "prompting", !.missed = TRUE, !.reads = g, !.gone = gone]

(* The first step of a turn's task.  The state it was made for may be gone *)
(* (a sibling's ensure_started cleared them), or be another, of a load in  *)
(* between: then it prompts on that one.                                   *)
TurnRuns(t) ==
  /\ turns[t].phase = "created"
  /\ LET g == known[turns[t].session] IN
       \/ g = 0 /\ turns' = [turns EXCEPT ![t] = Missed(turns[t])]
       \/ /\ g = turns[t].state
          /\ turns' = [turns EXCEPT ![t].phase = "prompting"]
       \/ /\ g \notin {0, turns[t].state}
          /\ \E gone \in BOOLEAN :
               turns' = [turns EXCEPT ![t] = Astray(turns[t], g, gone)]
  /\ UNCHANGED <<process, session, doing>>

(* The agent answers session/prompt, and the updates before it are handled *)
(* first (_drain_notifications).                                           *)
AgentAnswers(t) ==
  /\ turns[t].phase = "prompting"
  /\ proc = "up" /\ turns[t].process = starts
  /\ turns' = [turns EXCEPT ![t].phase = "draining"]
  /\ UNCHANGED <<process, session, doing>>

Drained(t) ==
  /\ turns[t].phase = "draining"
  /\ turns' = Ended(t, 1)
  /\ AfterResult(Reached(t), softKill)
  /\ UNCHANGED <<process, table, handle, owner, parked, owned, doing>>

LostTurn(t) == proc # "up" \/ turns[t].process # starts

(* session/prompt raises: the agent's error, or the connection is lost     *)
(* with its process.  Reported unless the crash already was; which, if the *)
(* state is another's, it may have been for that one.                      *)
PromptRaises(t) ==
  /\ turns[t].phase = "prompting"
  /\ \/ turns' = Ended(t, IF turns[t].notified THEN 0 ELSE 1)
     \/ turns[t].reads # 0 /\ turns' = Ended(t, 0)
  /\ UNCHANGED <<process, session, doing>>

(* Mutant: a cancelled turn ends without a frame.                          *)
CancelledSilently(t) ==
  /\ turns[t].phase = "thrown"
  /\ turns' = Ended(t, 0)
  /\ UNCHANGED <<process, session, doing>>

(* Mutant: the task reports and does not return.                           *)
CancelledGoesOn(t) ==
  /\ turns[t].phase = "thrown"
  /\ turns' = [turns EXCEPT ![t].frames = @ + 1]
  /\ AfterResult(Reached(t), softKill)
  /\ UNCHANGED <<process, table, handle, owner, parked, owned, doing>>

(* CancelledError: a user's cancel is reported as a result; whether there  *)
(* was one is the state's to say, and that may be another's.               *)
CancelledErrorRaised(t) ==
  /\ turns[t].phase = "thrown"
  /\ \E asked \in IF turns[t].reads = 0 THEN {turns[t].cancelled} ELSE BOOLEAN :
       /\ turns' = Ended(t, IF asked THEN 1 ELSE 0)
       /\ AfterResult(IF asked THEN Reached(t) ELSE {}, softKill)
  /\ UNCHANGED <<process, table, handle, owner, parked, owned, doing>>

(* _handle_cancel up to the notification it sends to the agent.            *)
Cancel(c, s) ==
  /\ Idle(c) /\ s \in owned[c] /\ s \in table
  /\ Active(s)
  /\ turns' = [turns EXCEPT ![TurnOn(known[s])].cancelled = TRUE]
  /\ doing' = [doing EXCEPT ![c] =
                 [op |-> "cancel", state |-> known[s], turn |-> TurnOn(known[s])]]
  /\ UNCHANGED <<process, session>>

(* Mutant: the agent is told, and trusted to end the turn.                 *)
CancelOnlyNotifies(c) ==
  /\ doing[c].op = "cancel"
  /\ doing' = [doing EXCEPT ![c] = Free]
  /\ UNCHANGED <<process, session, turns>>

(* ... and from there: the task that the state now has is cancelled.  The  *)
(* notification is written by a task of its own, made after the turn's     *)
(* that was to be cancelled, which has therefore run.                      *)
CancelSent(c) ==
  /\ doing[c].op = "cancel"
  /\ turns[doing[c].turn].phase # "created"
  /\ turns' = [t \in DOMAIN turns |->
                 IF On(t, doing[c].state) THEN Thrown(turns[t]) ELSE turns[t]]
  /\ doing' = [doing EXCEPT ![c] = Free]
  /\ UNCHANGED <<process, session>>

(***************************************************************************)
(* Crash                                                                   *)
(***************************************************************************)
Crash ==
  /\ proc = "up"
  /\ proc' = "exited"
  /\ UNCHANGED <<starts, object, known, made, turns, session, doing>>

CrashedTurns == Torn({known[s] : s \in Sessions})

(* Mutant: the turns of the dead process are told of, and not cancelled.   *)
WatchExitLeavesTurns ==
  /\ proc = "exited"
  /\ proc' = "down"
  /\ known' = [s \in Sessions |-> 0]
  /\ turns' = [t \in DOMAIN turns |->
                 IF t \in CrashedTurns
                   THEN [turns[t] EXCEPT !.notified = TRUE, !.frames = @ + 1] ELSE turns[t]]
  /\ UNCHANGED <<starts, object, made, session, doing>>

(* _watch_exit: every session is told, and its turn cancelled, which is    *)
(* the end of one that has yet to run.                                     *)
Crashed(r) ==
  IF r.phase \in {"created", "unbegun"} THEN Over(r, 1)
  ELSE [r EXCEPT !.phase = "thrown", !.notified = TRUE,
                 !.frames = IF r.notified THEN @ ELSE @ + 1]

WatchExit ==
  /\ proc = "exited"
  /\ proc' = "down"
  /\ known' = [s \in Sessions |-> 0]
  /\ turns' = [t \in DOMAIN turns |->
                 IF t \in CrashedTurns THEN Crashed(turns[t]) ELSE turns[t]]
  /\ UNCHANGED <<starts, object, made, session, doing>>

(***************************************************************************)
(* Leaving and closing                                                     *)
(***************************************************************************)
Held(c) == {s \in Sessions : owner[s] = c}
Kept(c) == {s \in Held(c) : Running(s) /\ Active(s)}
Let(c)  == Held(c) \ Kept(c)

(* The connection ends (detach_all_for_connection): a session with a turn  *)
(* in flight is left to finish it, the backend of any other is closed.     *)
Disconnect(c) ==
  /\ Idle(c)
  /\ owned' = [owned EXCEPT ![c] = {}]
  /\ owner' = [s \in Sessions |-> IF s \in Held(c) THEN NoConn ELSE owner[s]]
  /\ parked' = parked \cup Held(c)
  /\ finishing' = [s \in Sessions |-> finishing[s] \/ s \in Kept(c)]
  /\ handle' = [s \in Sessions |-> IF s \in Let(c) THEN 0 ELSE handle[s]]
  /\ known' = [s \in Sessions |-> IF s \in Let(c) /\ Running(s) THEN 0 ELSE known[s]]
  /\ UNCHANGED <<proc, starts, object, made, turns, table, softKill, doing>>

(* session.detach leaves the backend as it is.                             *)
Detach(c, s) ==
  /\ Idle(c) /\ s \in owned[c]
  /\ owned' = [owned EXCEPT ![c] = @ \ {s}]
  /\ owner' = [owner EXCEPT ![s] = IF @ = c THEN NoConn ELSE @]
  /\ parked' = IF owner[s] = c THEN parked \cup {s} ELSE parked
  /\ UNCHANGED <<process, turns, table, handle, finishing, softKill, doing>>

(* The task that on_event scheduled: the handle is closed, and stays.      *)
SoftKill(s) ==
  /\ s \in softKill
  /\ known' = [known EXCEPT ![s] = IF StateOf(s) # 0 THEN 0 ELSE @]
  /\ turns' = TornDown({StateOf(s)})
  /\ AfterResult({turns[t].session : t \in {u \in Torn({StateOf(s)}) : Reports(turns[u])}},
                 softKill \ {s})
  /\ UNCHANGED <<proc, starts, object, made, table, handle, owner, parked, owned, doing>>

Close(c, s) ==
  /\ Idle(c) /\ s \in owned[c] /\ s \in table
  /\ Remove(s, known, turns)
  /\ doing' = Orphaned(doing, s)
  /\ owned' = [owned EXCEPT ![c] = @ \ {s}]
  /\ UNCHANGED <<proc, starts, object, made>>

(* The reaper takes a session that has been detached for long enough.      *)
Reap(s) ==
  /\ s \in table /\ owner[s] = NoConn /\ s \in parked
  /\ Remove(s, known, turns)
  /\ doing' = Orphaned(doing, s)
  /\ UNCHANGED <<proc, starts, object, made, owned>>

(* profile.stop: the process object leaves the supervisor and is closed,   *)
(* with the turns on it.  Bounds: once, and not while it is being started. *)
StopProfile ==
  /\ object = 1
  /\ \A c \in Conns : ~Starting(c)
  /\ object' = object + 1
  /\ proc' = "down"
  /\ known' = [s \in Sessions |-> 0]
  /\ turns' = TornDown({known[s] : s \in Sessions})
  /\ AfterResult({turns[t].session : t \in {u \in Torn({known[s] : s \in Sessions}) :
                                              Reports(turns[u]) /\ ~turns[u].gone}}, softKill)
  /\ UNCHANGED <<starts, made, table, handle, owner, parked, owned, doing>>

Next ==
  \/ \E c \in Conns : StartProcess(c)
  \/ \E c \in Conns : Started(c)
  \/ \E c \in Conns : Loaded(c)
  \/ \E c \in Conns : SpawnFails(c)
  \/ \E c \in Conns : SpawnBreaks(c)
  \/ \E c \in Conns, s \in Sessions : Open(c, s)
  \/ \E c \in Conns, s \in Sessions : Attach(c, s)
  \/ \E c \in Conns, s \in Sessions : Prompt(c, s)
  \/ \E t \in DOMAIN turns : TurnRuns(t)
  \/ \E t \in DOMAIN turns : AgentAnswers(t)
  \/ \E t \in DOMAIN turns : Drained(t)
  \/ \E t \in DOMAIN turns : PromptRaises(t)
  \/ \E t \in DOMAIN turns : CancelledErrorRaised(t)
  \/ \E c \in Conns, s \in Sessions : Cancel(c, s)
  \/ \E c \in Conns : CancelSent(c)
  \/ Crash
  \/ WatchExit
  \/ \E c \in Conns : Disconnect(c)
  \/ \E c \in Conns, s \in Sessions : Detach(c, s)
  \/ \E s \in Sessions : SoftKill(s)
  \/ \E c \in Conns, s \in Sessions : Close(c, s)
  \/ \E s \in Sessions : Reap(s)
  \/ StopProfile

(* The event loop runs what is ready: a turn's task once it was made or    *)
(* cancelled, has its answer or has lost its process, the handler of a     *)
(* cancel, and the exit watcher.  The agent need not answer.               *)
Fairness ==
  /\ WF_vars(WatchExit)
  /\ \A c \in Conns : WF_vars(CancelSent(c))
  /\ \A t \in 1..MaxTurns :
       /\ WF_vars(t \in DOMAIN turns /\ TurnRuns(t))
       /\ WF_vars(t \in DOMAIN turns /\ CancelledErrorRaised(t))
       /\ WF_vars(t \in DOMAIN turns /\ Drained(t))
       /\ WF_vars(t \in DOMAIN turns /\ LostTurn(t) /\ PromptRaises(t))

Spec == Init /\ [][Next]_vars /\ Fairness

-----------------------------------------------------------------------------
(* Every variable has its type; no turn gets more than two closing frames. *)
TypeOK ==
  /\ proc \in {"down", "up", "exited"}
  /\ starts \in 0..MaxStarts /\ object \in {1, 2} /\ made \in 0..MaxLoads
  /\ known \in [Sessions -> 0..made]
  /\ turns \in Seq([session : Sessions, state : 0..made, process : 0..starts,
                    phase : {"created", "unbegun", "prompting", "draining", "thrown", "done"},
                    reads : 0..made, cancelled : BOOLEAN, notified : BOOLEAN, torn : BOOLEAN,
                    gone : BOOLEAN, stray : BOOLEAN, missed : BOOLEAN, stranded : BOOLEAN,
                    frames : 0..2])
  /\ Len(turns) <= MaxTurns
  /\ table \subseteq Sessions
  /\ handle \in [Sessions -> 0..object]
  /\ owner \in [Sessions -> Conns \cup {NoConn}]
  /\ parked \subseteq Sessions /\ softKill \subseteq Sessions
  /\ owned \in [Conns -> SUBSET Sessions]
  /\ finishing \in [Sessions -> BOOLEAN]
  /\ \A c \in Conns :
       \/ Idle(c)
       \/ doing[c] \in [op : {"cancel"}, state : 1..made, turn : 1..MaxTurns]
       \/ doing[c] \in [op : {"open", "prompt"}, s : Sessions, at : {"start", "load"},
                        process : 0..starts, gone : BOOLEAN]

(* A turn is closed by one frame: its result, its error, or the report of  *)
(* the crash, which not both the exit watcher and the turn's own task send *)
(* (_run_turn and _watch_exit, acp.py:409-443 and 286-300).  Only a cancel *)
(* adds a second.  Without one ends what is torn down; a stray turn: it is *)
(* not its own cancel that hit it, but one of the turn before it, that was *)
(* suspended in its notification (acp.py:447-457); and a turn whose task   *)
(* first ran when its state was gone from `sessions` (acp.py:225, 410) or  *)
(* replaced there by a load.                                               *)
TurnsClose ==
  \A t \in DOMAIN turns :
    /\ turns[t].frames <= 1 \/ turns[t].cancelled
    /\ ~HasTask(t) /\ ~turns[t].torn /\ ~turns[t].stray /\ ~turns[t].missed
         => turns[t].frames >= 1

(* One turn at a time on a session, as long as its process lives: what     *)
(* turn_active is for (acp.py:400), across respawns, closes and takeovers. *)
(* Not so when a load has replaced the session's state under its turn, or  *)
(* a load that was refused has dropped it (acp.py:343), or a turn that ran *)
(* on the state of that load has cleared its turn_active (acp.py:443):     *)
(* then the next turn is prompted beside the one that is stranded.         *)
OneTurn ==
  \A t, u \in DOMAIN turns :
    /\ t # u /\ turns[t].session = turns[u].session /\ Live(t) /\ Live(u)
    /\ ~turns[t].stranded /\ ~turns[u].stranded
    => LostTurn(t) \/ LostTurn(u)

(* The task of a turn that is cancelled, or loses its process, ends, even  *)
(* if the agent never answers (acp.py:445-457 and 273-300); unless its     *)
(* state got another turn before the cancel went on.                       *)
TurnsEnd ==
  \A t \in 1..MaxTurns :
    (t \in DOMAIN turns /\ (turns[t].cancelled \/ LostTurn(t)))
      ~> (t \in DOMAIN turns /\ (~HasTask(t) \/ turns[t].state = 0))

(* A session whose handle says it runs can be prompted: the process knows  *)
(* it, and so _handle_prompt need not respawn.  Not so (see README).       *)
RunningMeansKnown == \A s \in Sessions : Running(s) => known[s] # 0

(* A backend is killed after its turn only when the client has left: not   *)
(* when one has come back before the end of the turn.  Not so (README).    *)
KillsAbandoned ==
  [][\A s \in Sessions : s \in softKill' /\ s \notin softKill => owner[s] = NoConn]_vars

(***************************************************************************)
(* The turns as a client sees them                                         *)
(***************************************************************************)
Outcome(t) ==
  IF Live(t) THEN "running"
  ELSE IF turns[t].torn THEN "torn"
  ELSE IF turns[t].frames > 0 THEN "closed"
  ELSE "unclosed"

(* Its session holds it: no load has stranded it, and its process lives.   *)
Holds(t) == Live(t) /\ ~turns[t].stranded /\ ~LostTurn(t)

(* The agent was asked, by a task that found the state it was made for.    *)
Begun(t) == turns[t].phase \notin {"created", "unbegun"} /\ ~turns[t].missed

TurnsSeen ==
  [t \in DOMAIN turns |->
     [session |-> turns[t].session, outcome |-> Outcome(t), asked |-> turns[t].cancelled,
      held |-> Holds(t), begun |-> Begun(t), frames |-> turns[t].frames]]

Promised == INSTANCE Turns WITH turns <- TurnsSeen

(* Whatever owners, processes and loads do, the turns are those of Turns:  *)
(* none begins beside one that its session holds, nothing happens to one   *)
(* that has ended, and it ends unclosed only by the cancel of one before,  *)
(* or because its session let go of it before the agent was asked.         *)
ImplementsTurns == Promised!Spec
=============================================================================
