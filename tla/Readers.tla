------------------------------ MODULE Readers -------------------------------
(***************************************************************************)
(* Who reads one session while queues are full: the owner and the viewers  *)
(* an event is handed to one after the other, takeovers and opens that     *)
(* suspend between telling the previous owner and taking its place, the    *)
(* close that tells the viewers, and what the task of a turn does when its *)
(* closing frame cannot be handed to everybody.                            *)
(*                                                                         *)
(* Sources: session.py (on_event, attach, add_watcher, detach_writer,      *)
(* broadcast_to_watchers, detach_all_for_connection), daemon.py            *)
(* (_handle_open, _handle_attach, _handle_detach, _handle_close,           *)
(* notify_session_taken, _emit_frame), and acp.py (_run_turn).             *)
(*                                                                         *)
(* A put suspends only when the queue is full, so everything up to a full  *)
(* queue is one step.  Queues are full or not: other traffic of the        *)
(* connection fills and empties them.  EventStream has what a queue holds, *)
(* and a ring that rolls; here the ring has all events, and a replay waits *)
(* for a queue with room for all of it.                                    *)
(*                                                                         *)
(* The viewers are a dict that is iterated with a put in the loop's body:  *)
(* the loop goes on with the viewers of the moment, except that it raises  *)
(* RuntimeError when their number is another than before the put.          *)
(***************************************************************************)
EXTENDS Naturals, FiniteSets

CONSTANTS
  Owners,  (* connections that open the session, or attach as its owner    *)
  Viewers, (* connections that attach as a viewer, some of Owners or not   *)
  NoConn,  (* no connection                                                *)
  Tasks,   (* calls into on_event by the agent's tasks                     *)
  MaxSeq,  (* bound: events                                                *)
  MaxFull  (* bound: queues that are full at the same time                 *)

(* The Connection objects, each served once.                               *)
Conns == Owners \cup Viewers

ASSUME ConnsAssumption == NoConn \notin Conns
ASSUME FiniteAssumption == IsFiniteSet(Owners) /\ IsFiniteSet(Viewers)
ASSUME BoundAssumption == MaxSeq \in Nat /\ MaxFull \in Nat

VARIABLES
  present,   (* the session is in the SessionTable                         *)
  seq,       (* Session.seq                                                *)
  owner,     (* Session.connection_id and _writer                          *)
  watchers,  (* Session._watchers                                          *)
  owned,     (* connections with the session in _owned_sessions            *)
  conn,      (* conn[c]: "up"; "closing": _alive is False; "down": ended   *)
  full,      (* connections whose queue is full                            *)
  doing,     (* doing[c]: where the handler of c's request is suspended    *)
  task,      (* task[e]: where on_event is, and the frame it hands         *)
  due,       (* pairs of a connection and an event that is after those it  *)
             (* said it has when it subscribed, and not in its queue yet   *)
  cut        (* history: events whose handing was broken off               *)

agents == <<seq, task, cut>>
vars   == <<present, owner, watchers, owned, conn, full, doing, due, agents>>

(* A suspended loop over the viewers: in whose put, whom it served before, *)
(* and how many viewers there were.                                        *)
NoLoop == [wait |-> NoConn, past |-> {}, size |-> 0]

Quiet == [at |-> "idle", kind |-> "none", frame |-> 0, loop |-> NoLoop]
Free  == [at |-> "free", seen |-> 0, upto |-> 0, loop |-> NoLoop]

(* What is due to those of S.                                              *)
Of(S) == {p \in due : p[1] \in S}

(* _emit_frame suspends: it discards what a dead connection is given, and  *)
(* waits for a place in the queue of another.                              *)
Blocked(c) == c # NoConn /\ conn[c] = "up" /\ c \in full

Reads(c) == owner = c \/ c \in watchers

(* Whom a loop over the connections of S reaches, in whatever order, and   *)
(* in whose put it suspends: NoConn if it comes to its end.                *)
Reaches(S) ==
  {o \in (SUBSET S) \X (S \cup {NoConn}) :
     /\ \A c \in o[1] : ~Blocked(c)
     /\ IF o[2] = NoConn THEN o[1] = S ELSE Blocked(o[2])}

(* next() of the suspended loop raises.                                    *)
Resized(loop) == Cardinality(watchers) # loop.size

(* The viewers that a suspended loop has still to visit.                   *)
ToVisit(loop) == watchers \ (loop.past \cup {loop.wait})

(* A loop that has served S before suspends in the put of w.               *)
Suspends(S, w) == [wait |-> w, past |-> S, size |-> Cardinality(watchers)]

Served(loop) == loop.past \cup {loop.wait}

-----------------------------------------------------------------------------
Init ==
  /\ present = TRUE /\ seq = 0
  /\ owner = NoConn /\ watchers = {} /\ owned = {}
  /\ conn = [c \in Conns |-> "up"]
  /\ full = {}
  /\ doing = [c \in Conns |-> Free]
  /\ task = [e \in Tasks |-> Quiet]
  /\ due = {}
  /\ cut = {}

(***************************************************************************)
(* Session.on_event                                                        *)
(***************************************************************************)
Done(e) == [task EXCEPT ![e] = [Quiet EXCEPT !.at = "done"]]

(* The loop has served `past`, and goes on with S.                         *)
ToViewers(e, t, owed, past, S) ==
  \E o \in Reaches(S) :
    /\ due' = owed \ (o[1] \X {t.frame})
    /\ IF o[2] = NoConn THEN task' = Done(e)
       ELSE task' = [task EXCEPT ![e] =
                       [t EXCEPT !.at = "viewers", !.loop = Suspends(past \cup o[1], o[2])]]

(* An event of this kind is numbered, recorded, and handed to the owner of *)
(* the moment.                                                             *)
OnEvent(e, kind, owed) ==
  LET n == seq + 1
      t == [Quiet EXCEPT !.kind = kind, !.frame = n]
      all == owed \cup ({c \in Conns : Reads(c) /\ conn[c] = "up"} \X {n})
  IN
  /\ n <= MaxSeq
  /\ seq' = n
  /\ IF Blocked(owner)
       THEN /\ due' = all
            /\ task' = [task EXCEPT ![e] = [t EXCEPT !.at = "owner", !.loop.wait = owner]]
       ELSE ToViewers(e, t, all \ {<<owner, n>>}, {}, watchers)

InTurn(e) == task[e].kind # "update" /\ task[e].at \in {"owner", "viewers"}

(* An update, or the result of a turn, when the turn before has ended.     *)
Emit(e, kind) ==
  /\ present /\ task[e].at = "idle"
  /\ kind = "result" => \A f \in Tasks : ~InTurn(f)
  /\ OnEvent(e, kind, due)
  /\ UNCHANGED <<present, owner, watchers, owned, conn, full, doing, cut>>

(* The put into the owner's queue returns.                                 *)
OwnerTakes(e) ==
  LET t == task[e] IN
  /\ t.at = "owner" /\ ~Blocked(t.loop.wait)
  /\ ToViewers(e, t, due \ {<<t.loop.wait, t.frame>>}, {}, watchers)
  /\ UNCHANGED <<present, seq, owner, watchers, owned, conn, full, doing, cut>>

(* The put into a viewer's queue returns, and the loop goes on...          *)
ViewerTakes(e) ==
  LET t == task[e] IN
  /\ t.at = "viewers" /\ ~Blocked(t.loop.wait) /\ ~Resized(t.loop)
  /\ ToViewers(e, t, due \ {<<t.loop.wait, t.frame>>}, Served(t.loop), ToVisit(t.loop))
  /\ UNCHANGED <<present, seq, owner, watchers, owned, conn, full, doing, cut>>

(* ... or raises.  The turn's task takes that for a failure of the agent.  *)
LoopRaises(e) ==
  LET t    == task[e]
      owed == due \ {<<t.loop.wait, t.frame>>}
  IN
  /\ t.at = "viewers" /\ ~Blocked(t.loop.wait) /\ Resized(t.loop)
  /\ cut' = cut \cup {t.frame}
  /\ IF t.kind = "result"
       THEN OnEvent(e, "again", owed)
       ELSE due' = owed /\ task' = Done(e) /\ UNCHANGED seq
  /\ UNCHANGED <<present, owner, watchers, owned, conn, full, doing>>

(* The turn's task is cancelled while it hands its frame: by a cancel of   *)
(* the user, which has it report a cancelled turn, or by a teardown.       *)
TurnCancelled(e, byUser) ==
  /\ InTurn(e)
  /\ cut' = cut \cup {task[e].frame}
  /\ IF byUser /\ task[e].kind = "result"
       THEN OnEvent(e, "again", due)
       ELSE task' = Done(e) /\ UNCHANGED <<seq, due>>
  /\ UNCHANGED <<present, owner, watchers, owned, conn, full, doing>>

(***************************************************************************)
(* Taking ownership: session.attach, and session.open that resumes         *)
(***************************************************************************)
Handles(c, phase) == doing' = [doing EXCEPT ![c] = phase]
Phase(at, seen)   == [Free EXCEPT !.at = at, !.seen = seen]

Idles(c) == doing[c].at = "free" /\ conn[c] = "up"

(* The events after `seen` are replayed, now or when the queue has room:   *)
(* c has got them, or they are due to it.  Who does not read any more is   *)
(* owed nothing.                                                           *)
After(c, seen) == {c} \X (IF conn[c] = "up" THEN (seen + 1)..seq ELSE {})

Replays(c, seen, others) ==
  \/ due' = Of(others) /\ Handles(c, Free) /\ UNCHANGED full
  \/ /\ After(c, seen) # {}
     /\ due' = Of(others) \cup After(c, seen)
     /\ full' = full \cup {c} /\ Cardinality(full') <= MaxFull
     /\ Handles(c, [Phase("replaying", seen) EXCEPT !.upto = seq])

(* Mutant: what was recorded last is left to the live stream.              *)
HookSkipping(c, seen) ==
  /\ owner' = c
  /\ due' = Of(watchers \ {c}) \cup (After(c, seen) \cap {<<c, seq>>})
  /\ Handles(c, Free)
  /\ UNCHANGED full

(* Session.attach: the writer is hooked, then the events are replayed.     *)
Hook(c, seen) ==
  /\ owner' = c
  /\ Replays(c, seen, watchers \ {c})

(* The reply is sent before the attach, and may have to wait itself.       *)
Acknowledge(c, seen, others) ==
  /\ owned' = others \cup {c}
  /\ IF Blocked(c)
       THEN Handles(c, Phase("acking", seen)) /\ UNCHANGED <<owner, due, full>>
       ELSE Hook(c, seen)

(* An open may have to spawn the backend first.                            *)
Proceeds(c, seen, others) ==
  \/ Acknowledge(c, seen, others)
  \/ /\ Handles(c, Phase("spawning", seen))
     /\ owned' = others
     /\ UNCHANGED <<owner, due, full>>

(* The previous owner, if another connection that is still served, drops   *)
(* the session and is told, which may have to wait.                        *)
TakeOver(c, seen) ==
  /\ Idles(c) /\ present
  /\ LET prev == IF owner \in Conns \ {c} /\ conn[owner] # "down" THEN owner ELSE NoConn IN
     IF Blocked(prev)
       THEN /\ owned' = owned \ {prev}
            /\ Handles(c, [Phase("telling", seen) EXCEPT !.loop.wait = prev])
            /\ UNCHANGED <<owner, due, full>>
       ELSE Proceeds(c, seen, owned \ {prev})
  /\ UNCHANGED <<present, watchers, conn, agents>>

Told(c) ==
  /\ doing[c].at = "telling" /\ ~Blocked(doing[c].loop.wait)
  /\ Proceeds(c, doing[c].seen, owned)
  /\ UNCHANGED <<present, watchers, conn, agents>>

Spawned(c) ==
  /\ doing[c].at = "spawning"
  /\ Acknowledge(c, doing[c].seen, owned)
  /\ UNCHANGED <<present, watchers, conn, agents>>

(* The spawn fails, and the session is removed.                            *)
SpawnFails(c) ==
  /\ doing[c].at = "spawning"
  /\ present' = FALSE
  /\ Handles(c, Free)
  /\ UNCHANGED <<owner, watchers, owned, conn, full, due, agents>>

Acked(c) ==
  /\ doing[c].at = "acking" /\ ~Blocked(c)
  /\ Hook(c, doing[c].seen)
  /\ UNCHANGED <<present, watchers, owned, conn, agents>>

(* The events that were to be replayed, and no later ones, are put.        *)
Replayed(c) ==
  /\ doing[c].at = "replaying" /\ ~Blocked(c)
  /\ due' = due \ ({c} \X ((doing[c].seen + 1)..doing[c].upto))
  /\ Handles(c, Free)
  /\ UNCHANGED <<present, owner, watchers, owned, conn, full, agents>>

(* session.attach as viewer: with a replay, or live only.                  *)
Watch(c, seen) ==
  /\ Idles(c) /\ present
  /\ watchers' = watchers \cup {c}
  /\ Replays(c, seen, Conns \ {c})
  /\ UNCHANGED <<present, owner, owned, conn, agents>>

(***************************************************************************)
(* Leaving                                                                 *)
(***************************************************************************)
Detach(c) ==
  /\ Idles(c)
  /\ \/ /\ c \in owned
        /\ owned' = owned \ {c}
        /\ owner' = IF present /\ owner = c THEN NoConn ELSE owner
        /\ UNCHANGED watchers
     \/ /\ c \notin owned /\ present
        /\ watchers' = watchers \ {c}
        /\ UNCHANGED <<owned, owner>>
  /\ due' = {p \in due : p[1] = c => owner' = c \/ c \in watchers'}
  /\ UNCHANGED <<present, conn, full, doing, agents>>

(* broadcast_to_watchers, and, if it comes to its end, SessionTable.remove.*)
Broadcast(c, past, S) ==
  \E o \in Reaches(S) :
    IF o[2] = NoConn
      THEN present' = FALSE /\ Handles(c, [Free EXCEPT !.loop.past = past \cup o[1]])
      ELSE /\ Handles(c, [Free EXCEPT !.at = "closing", !.loop = Suspends(past \cup o[1], o[2])])
           /\ UNCHANGED present

Close(c) ==
  /\ Idles(c) /\ c \in owned /\ present
  /\ owned' = owned \ {c}
  /\ Broadcast(c, {}, watchers)
  /\ UNCHANGED <<owner, watchers, conn, full, due, agents>>

ViewerNoticed(c) ==
  LET loop == doing[c].loop IN
  /\ doing[c].at = "closing" /\ ~Blocked(loop.wait) /\ ~Resized(loop)
  /\ Broadcast(c, Served(loop), ToVisit(loop))
  /\ UNCHANGED <<owner, watchers, owned, conn, full, due, agents>>

(* The loop raises: the client gets an internal error, and the session     *)
(* stays.                                                                  *)
CloseFails(c) ==
  /\ doing[c].at = "closing" /\ ~Blocked(doing[c].loop.wait) /\ Resized(doing[c].loop)
  /\ Handles(c, Free)
  /\ UNCHANGED <<present, owner, watchers, owned, conn, full, due, agents>>

(* The reaper takes a session without an owner.                            *)
Reap ==
  /\ present /\ owner = NoConn
  /\ present' = FALSE
  /\ UNCHANGED <<owner, watchers, owned, conn, full, doing, due, agents>>

(* A connection fails: what it is given is discarded, and who waits for a  *)
(* place in its queue may go on, or not.                                   *)
Fails(c) ==
  /\ conn[c] = "up"
  /\ conn' = [conn EXCEPT ![c] = "closing"]
  /\ due' = Of(Conns \ {c})
  /\ full' = full \ {c}
  /\ UNCHANGED <<present, owner, watchers, owned, doing, agents>>

(* Mutant: the sessions it leaves are those that it thinks it owns.        *)
EndsByOwned(c) ==
  /\ conn[c] = "closing" /\ doing[c].at = "free"
  /\ conn' = [conn EXCEPT ![c] = "down"]
  /\ owner' = IF present /\ owner = c /\ c \in owned THEN NoConn ELSE owner
  /\ watchers' = IF present THEN watchers \ {c} ELSE watchers
  /\ owned' = owned \ {c}
  /\ UNCHANGED <<present, full, doing, due, agents>>

(* When serve() has no handler any more, the connection leaves its         *)
(* sessions, and is gone with what it owned.                               *)
Ends(c) ==
  /\ conn[c] = "closing" /\ doing[c].at = "free"
  /\ conn' = [conn EXCEPT ![c] = "down"]
  /\ owner' = IF present /\ owner = c THEN NoConn ELSE owner
  /\ watchers' = IF present THEN watchers \ {c} ELSE watchers
  /\ owned' = owned \ {c}
  /\ UNCHANGED <<present, full, doing, due, agents>>

(* The connection's other traffic.                                         *)
Traffic(c) ==
  /\ conn[c] = "up"
  /\ full' = IF c \in full THEN full \ {c} ELSE full \cup {c}
  /\ Cardinality(full') <= MaxFull
  /\ UNCHANGED <<present, owner, watchers, owned, conn, doing, due, agents>>

Next ==
  \/ \E e \in Tasks, kind \in {"update", "result"} : Emit(e, kind)
  \/ \E e \in Tasks : OwnerTakes(e)
  \/ \E e \in Tasks : ViewerTakes(e)
  \/ \E e \in Tasks : LoopRaises(e)
  \/ \E e \in Tasks, byUser \in BOOLEAN : TurnCancelled(e, byUser)
  \/ \E c \in Owners : \E seen \in 0..seq : TakeOver(c, seen)
  \/ \E c \in Conns : Told(c)
  \/ \E c \in Conns : Spawned(c)
  \/ \E c \in Conns : SpawnFails(c)
  \/ \E c \in Conns : Acked(c)
  \/ \E c \in Conns : Replayed(c)
  \/ \E c \in Viewers : \E seen \in 0..seq : Watch(c, seen)
  \/ \E c \in Conns : Detach(c)
  \/ \E c \in Conns : Close(c)
  \/ \E c \in Conns : ViewerNoticed(c)
  \/ \E c \in Conns : CloseFails(c)
  \/ Reap
  \/ \E c \in Conns : Fails(c)
  \/ \E c \in Conns : Ends(c)
  \/ \E c \in Conns : Traffic(c)

Spec == Init /\ [][Next]_vars

-----------------------------------------------------------------------------
(* Every variable has its type.                                            *)
Loop == [wait : Conns \cup {NoConn}, past : SUBSET Conns, size : 0..Cardinality(Conns)]

TypeOK ==
  /\ present \in BOOLEAN /\ seq \in 0..MaxSeq
  /\ owner \in Conns \cup {NoConn}
  /\ watchers \subseteq Conns /\ owned \subseteq Conns /\ full \subseteq Conns
  /\ conn \in [Conns -> {"up", "closing", "down"}]
  /\ doing \in [Conns ->
       [at : {"free", "telling", "spawning", "acking", "replaying", "closing"},
        seen : 0..MaxSeq, upto : 0..MaxSeq, loop : Loop]]
  /\ task \in [Tasks ->
       [at : {"idle", "owner", "viewers", "done"}, frame : 0..MaxSeq, loop : Loop,
        kind : {"none", "update", "result", "again"}]]
  /\ due \subseteq Conns \X (1..MaxSeq)
  /\ cut \subseteq 1..MaxSeq

(* Event n is on its way to c: on_event will come to c, or the replay.     *)
UnderWay(c, n) ==
  \/ \E e \in Tasks :
       /\ task[e].frame = n
       /\ \/ task[e].at = "owner" /\ (task[e].loop.wait = c \/ c \in watchers)
          \/ task[e].at = "viewers" /\ (task[e].loop.wait = c \/ c \in ToVisit(task[e].loop))
  \/ doing[c].at = "replaying" /\ n \in (doing[c].seen + 1)..doing[c].upto

(* The owner and every viewer get each event after the ones they said they *)
(* have, whoever comes and goes while queues are full, unless its handing  *)
(* was broken off (session.py:178-195).                                   *)
NothingMissed ==
  \A p \in due : Reads(p[1]) /\ p[2] \notin cut => UnderWay(p[1], p[2])

(* Nobody reads a session whose connection has ended: not a previous owner *)
(* that was told, and has left before the next one was hooked, nor a viewer*)
(* (session.py:778).                                                       *)
NoGhosts ==
  present => \A c \in Conns : conn[c] = "down" => ~Reads(c)

(* A close that removes the session has told every viewer, those too that  *)
(* came while it waited for a full queue (session.py:352).                 *)
CloseTells ==
  [][\A c \in Conns :
       /\ present /\ ~present'
       /\ doing[c].at = "closing" \/ c \in owned \ owned'
       /\ doing'[c].at = "free"
       => \A v \in watchers : conn[v] = "up" => v \in doing'[c].loop.past]_vars

(* The frame session.taken: "Events stop flowing here immediately"         *)
(* (daemon.py:1095).  They flow until the next owner's attach, which comes *)
(* after a spawn or two full queues.                                       *)
TakenStops ==
  [][\A e \in Tasks, c \in Conns :
       /\ task[e].at = "idle" /\ task'[e].at = "owner" /\ task'[e].loop.wait = c
       /\ \E d \in Conns : doing[d].at \in {"spawning", "acking"}
       => c \in owned]_vars

(* agent.result is "Always the last frame for a turn" (spec.md:605).  The  *)
(* task of a turn that is cancelled, or raises, while the result waits for *)
(* a full queue sends another.                                             *)
ResultIsLast ==
  [][\A e \in Tasks : task[e].kind = "result" => task'[e].kind # "again"]_vars

(* "the prior owner gets session.taken and drops to detached"              *)
(* (acp-migration-spec.md:352): who may drive the session is its owner.    *)
(* Not after takeovers that overlap.                                       *)
DriverIsOwner ==
  present => \A c \in owned : conn[c] = "up" /\ doing[c].at = "free" => owner = c

(* "When the owner explicitly closes the session, every watcher receives"  *)
(* the notice (spec.md:900), and the session is gone.  Not when a viewer   *)
(* comes or goes meanwhile.                                                *)
CloseCloses ==
  [][\A c \in Conns : doing[c].at = "closing" /\ doing'[c].at = "free" => ~present']_vars
=============================================================================
