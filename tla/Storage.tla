------------------------------ MODULE Storage ------------------------------
(***************************************************************************)
(* What the daemon keeps on disk of its sessions, and what it finds there: *)
(* the log of a session's events, the usage sidecar with its turn counter, *)
(* and the registry, while sessions are opened, resumed, taken over, left, *)
(* reaped, closed and deleted, agents die, and the daemon dies and starts. *)
(*                                                                         *)
(* Sources: registry.py; in session.py the durable log and the sidecar of  *)
(* Session, and SessionTable; in event_log.py DurableEventLog; in          *)
(* daemon.py the handlers of open, prompt, detach and close, the end of a  *)
(* connection, and both reapers.                                           *)
(*                                                                         *)
(* A log is the number of turns whose session.result is in it.  A registry *)
(* record has the agent's session id and the turns; the sidecar likewise.  *)
(* The files are written without fault, but the daemon may die between two *)
(* of them.  The numbers of events, and what is replayed, are EventStream. *)
(* The processes of the agents are AgentProcess and Supervisor.            *)
(***************************************************************************)
EXTENDS Naturals, Sequences, FiniteSets

CONSTANTS
  Ids,            (* session ids                                           *)
  Handlers,       (* client connections                                    *)
  Nobody,         (* no connection                                         *)
  Absent,         (* no file, no record                                    *)
  MaxObjects,     (* bound: Session objects made between two starts        *)
  Natives,        (* the agents' own session ids                           *)
  NoNative,       (* none of them                                          *)
  MaxTurns,       (* bound: turns of a session                             *)
  MaxDeaths       (* bound: deaths of the daemon                           *)

ASSUME AbsenceAssumption ==
  /\ Nobody \notin Handlers /\ Absent \notin Nat \cup Ids /\ NoNative \notin Natives
  /\ Absent \notin [turns : Nat, native : Natives \cup {NoNative}]
ASSUME BoundsAssumption == {MaxObjects, MaxTurns, MaxDeaths} \subseteq Nat

VARIABLES
  sess,     (* the Session objects made since the daemon started           *)
  table,    (* table[i]: the object that SessionTable has, or 0            *)
  owned,    (* owned[h]: Connection._owned_sessions                        *)
  doing,    (* doing[h]: what the handler is suspended in                  *)
  reaper,   (* the ids reap_idle has yet to remove, and the one it removes *)
  fanout,   (* objects that _watch_exit has yet to tell of the crash       *)
  log,      (* log[i]: results in the log file, or Absent                  *)
  side,     (* side[i]: the sidecar, or Absent                             *)
  reg,      (* Registry._records                                           *)
  disk,     (* registry.json                                               *)
  deaths,   (* times the daemon died                                       *)
  cut,      (* history: results logged when the daemon died, per id        *)
  stray,    (* history: ids whose files or record an object wrote that had *)
            (* left the table, or whose removal a death cut short          *)
  deleted   (* history: ids deleted, and not opened since                  *)

memory   == <<sess, table, owned, doing, reaper, fanout, reg>>
files    == <<log, side, disk>>
counters == <<deaths, cut>>
vars     == <<memory, files, counters, stray, deleted>>

Rest == [op |-> "none", at |-> "none", id |-> Absent, object |-> 0, load |-> NoNative, delete |-> FALSE]
Asleep == [todo |-> {}, object |-> 0]

Idle(h) == doing[h] = Rest
Known(i) == table[i] # 0
TheSession(i) == sess[table[i]]
Live(o) == table[sess[o].id] = o
Newer(o) == {p \in o + 1..Len(sess) : sess[p].id = sess[o].id}

Init ==
  /\ sess = <<>> /\ table = [i \in Ids |-> 0]
  /\ owned = [h \in Handlers |-> {}] /\ doing = [h \in Handlers |-> Rest]
  /\ reaper = Asleep /\ fanout = {}
  /\ log = [i \in Ids |-> Absent] /\ side = [i \in Ids |-> Absent]
  /\ reg = [i \in Ids |-> Absent] /\ disk = [i \in Ids |-> Absent]
  /\ deaths = 0 /\ cut = [i \in Ids |-> 0]
  /\ stray = {} /\ deleted = {}

(***************************************************************************)
(* Opening                                                                 *)
(***************************************************************************)
(* A handler waits for a backend to start, which loads an agent session or *)
(* makes one.                                                              *)
Spawning(h, op, i, o, load) ==
  doing' = [doing EXCEPT ![h] = [Rest EXCEPT !.op = op, !.at = "spawn", !.id = i,
                                             !.object = o, !.load = load]]

(* new_session: the log is opened, which makes the file, and the sidecar   *)
(* is read.                                                                *)
Logged(i) == [log EXCEPT ![i] = IF @ = Absent THEN 0 ELSE @]

(* Mutants: the counter is not read, and read as the number of the turn to *)
(* come.                                                                   *)
FreshForgetful(i) ==
  [id |-> i, own |-> Nobody, parked |-> FALSE, up |-> FALSE, late |-> FALSE, fh |-> "file",
   turns |-> 0, native |-> IF side[i] = Absent THEN NoNative ELSE side[i].native]

FreshAhead(i) ==
  [id |-> i, own |-> Nobody, parked |-> FALSE, up |-> FALSE, late |-> FALSE, fh |-> "file",
   turns |-> IF side[i] = Absent THEN 0 ELSE side[i].turns + 1,
   native |-> IF side[i] = Absent THEN NoNative ELSE side[i].native]

Fresh(i) ==
  [id |-> i, own |-> Nobody, parked |-> FALSE, up |-> FALSE, late |-> FALSE, fh |-> "file",
   turns |-> IF side[i] = Absent THEN 0 ELSE side[i].turns,
   native |-> IF side[i] = Absent THEN NoNative ELSE side[i].native]

(* The agent session that a resume loads.                                  *)
ToLoad(i, native) ==
  IF native # NoNative \/ reg[i] = Absent THEN native ELSE reg[i].native

(* session.open of a session that is not in the table.                     *)
OpenCold(h, i, resume) ==
  /\ Idle(h) /\ ~Known(i) /\ Len(sess) < MaxObjects
  /\ sess' = Append(sess, Fresh(i))
  /\ table' = [table EXCEPT ![i] = Len(sess')]
  /\ log' = Logged(i)
  /\ Spawning(h, "open", i, Len(sess'), IF resume THEN ToLoad(i, Fresh(i).native) ELSE NoNative)
  /\ deleted' = deleted \ {i}
  /\ UNCHANGED <<owned, reaper, fanout, reg, side, disk, counters, stray>>

(* The table may be full, of sessions that are not in this model.  The     *)
(* session object, and its log, were made by then.                         *)
OpenRefused(h, i) ==
  /\ Idle(h) /\ ~Known(i)
  /\ log' = Logged(i)
  /\ deleted' = deleted \ {i}
  /\ UNCHANGED <<memory, side, disk, counters, stray>>

(* Mutant: the record is not saved.                                        *)
AckedUnsaved(h, i, o, S) ==
  /\ sess' = [S EXCEPT ![o].own = h, ![o].parked = FALSE]
  /\ owned' = [owned EXCEPT ![h] = @ \cup {i}]
  /\ reg' = [reg EXCEPT ![i] =
               [native |-> ToLoad(i, S[o].native),
                turns |-> IF @ = Absent THEN 0 ELSE @.turns]]
  /\ disk' = disk
  /\ stray' = IF Live(o) THEN stray ELSE stray \cup {i}
  /\ deleted' = deleted \ {i}

(* Session.attach, and before it the registry's record.                    *)
Acked(h, i, o, S) ==
  /\ sess' = [S EXCEPT ![o].own = h, ![o].parked = FALSE]
  /\ owned' = [owned EXCEPT ![h] = @ \cup {i}]
  /\ reg' = [reg EXCEPT ![i] =
               [native |-> ToLoad(i, S[o].native),
                turns |-> IF @ = Absent THEN 0 ELSE @.turns]]
  /\ disk' = reg'
  /\ stray' = IF Live(o) THEN stray ELSE stray \cup {i}
  /\ deleted' = deleted \ {i}

(* What an open does with the session object it found, or has waited with. *)
Proceeds(h, i, o) ==
  IF sess[o].up
    THEN /\ Acked(h, i, o, sess)
         /\ doing' = [doing EXCEPT ![h] = Rest]
    ELSE /\ Spawning(h, "open", i, o, ToLoad(i, sess[o].native))
         /\ UNCHANGED <<sess, owned, reg, disk, stray, deleted>>

(* session.open{resume} of a session in the table.  A previous owner is    *)
(* told first, and the open waits for that.                                *)
OpenLive(h, i) ==
  /\ Idle(h) /\ Known(i) /\ TheSession(i).own \in {h, Nobody}
  /\ Proceeds(h, i, table[i])
  /\ UNCHANGED <<table, reaper, fanout, log, side, counters>>

TakeOver(h, i) ==
  /\ Idle(h) /\ Known(i) /\ TheSession(i).own \notin {h, Nobody}
  /\ owned' = [owned EXCEPT ![TheSession(i).own] = @ \ {i}]
  /\ doing' = [doing EXCEPT ![h] = [Rest EXCEPT !.op = "open", !.at = "taken", !.id = i,
                                                !.object = table[i]]]
  /\ UNCHANGED <<sess, table, reaper, fanout, reg, files, counters, stray, deleted>>

Told(h) ==
  /\ doing[h].at = "taken"
  /\ Proceeds(h, doing[h].id, doing[h].object)
  /\ UNCHANGED <<table, reaper, fanout, log, side, counters>>

(* session.prompt of a session whose backend is gone.                      *)
Respawn(h, i) ==
  /\ Idle(h) /\ i \in owned[h] /\ Known(i) /\ ~TheSession(i).up
  /\ Spawning(h, "prompt", i, table[i], TheSession(i).native)
  /\ UNCHANGED <<sess, table, owned, reaper, fanout, reg, files, counters, stray, deleted>>

(* The backend is there: S are the objects with it.                        *)
Backed(h, S) ==
  /\ IF doing[h].op = "open"
       THEN Acked(h, doing[h].id, doing[h].object, S)
       ELSE sess' = S /\ UNCHANGED <<owned, reg, disk, stray, deleted>>
  /\ doing' = [doing EXCEPT ![h] = Rest]
  /\ UNCHANGED <<table, reaper, fanout, log, side, counters>>

Started(o, native) == [sess EXCEPT ![o] = [@ EXCEPT !.up = TRUE, !.native = native]]

SpawnedNew(h) ==
  /\ doing[h].at = "spawn" /\ doing[h].load = NoNative
  /\ \E n \in Natives : Backed(h, Started(doing[h].object, n))

SpawnedLoaded(h) ==
  /\ doing[h].at = "spawn" /\ doing[h].load # NoNative
  /\ Backed(h, Started(doing[h].object, doing[h].load))

(* An agent that cannot load: the session is view-only.                    *)
SpawnedViewOnly(h) ==
  /\ doing[h].at = "spawn" /\ doing[h].load # NoNative
  /\ Backed(h, sess)

(***************************************************************************)
(* Removing                                                                *)
(***************************************************************************)
(* The object of id i has left the table, and its log is closed.  Others   *)
(* that still have the file of a log that is unlinked have one that nobody *)
(* finds.                                                                  *)
LogClosed(o) == [sess EXCEPT ![o] = [@ EXCEPT !.up = FALSE, !.late = FALSE, !.fh = "none"]]

Unlinked(o) ==
  [p \in DOMAIN sess |->
     IF p # o /\ sess[p].id = sess[o].id /\ sess[p].fh = "file"
       THEN [sess[p] EXCEPT !.fh = "gone"] ELSE LogClosed(o)[p]]

ClosesLog(o) ==
  /\ sess' = LogClosed(o)
  /\ UNCHANGED <<reg, files, cut, stray, deleted>>

(* Mutants: the sidecar stays, and the record.                             *)
KeepsSidecar(o) ==
  LET i == sess[o].id IN
  /\ sess' = Unlinked(o)
  /\ log' = [log EXCEPT ![i] = Absent] /\ side' = side
  /\ reg' = [reg EXCEPT ![i] = Absent] /\ disk' = reg'
  /\ cut' = [cut EXCEPT ![i] = 0]
  /\ stray' = IF \E p \in Newer(o) : sess[p].fh = "file" THEN stray \cup {i} ELSE stray
  /\ deleted' = deleted \cup {i}

KeepsRecord(o) ==
  LET i == sess[o].id IN
  /\ sess' = Unlinked(o)
  /\ log' = [log EXCEPT ![i] = Absent] /\ side' = [side EXCEPT ![i] = Absent]
  /\ UNCHANGED <<reg, disk>>
  /\ cut' = [cut EXCEPT ![i] = 0]
  /\ stray' = IF \E p \in Newer(o) : sess[p].fh = "file" THEN stray \cup {i} ELSE stray
  /\ deleted' = deleted \cup {i}

(* With delete, the log goes, then the sidecar, then the record.           *)
Deletes(o) ==
  LET i == sess[o].id IN
  /\ sess' = Unlinked(o)
  /\ log' = [log EXCEPT ![i] = Absent] /\ side' = [side EXCEPT ![i] = Absent]
  /\ reg' = [reg EXCEPT ![i] = Absent] /\ disk' = reg'
  /\ cut' = [cut EXCEPT ![i] = 0]
  /\ stray' = IF \E p \in Newer(o) : sess[p].fh = "file" THEN stray \cup {i} ELSE stray
  /\ deleted' = deleted \cup {i}

Ends(o, delete) == IF delete THEN Deletes(o) ELSE ClosesLog(o)

(* The end of a backend is waited for while it has a turn.                 *)
Waiting(o) == [sess EXCEPT ![o] = [@ EXCEPT !.up = FALSE, !.late = TRUE]]

(* SessionTable.remove, for handler h: the id leaves the table, whichever  *)
(* object it has by then.                                                  *)
Removes(h, i, delete) ==
  LET o == table[i] IN
  /\ table' = [table EXCEPT ![i] = 0]
  /\ \/ /\ Ends(o, delete)
        /\ doing' = [doing EXCEPT ![h] = Rest]
     \/ /\ sess[o].up
        /\ sess' = Waiting(o)
        /\ doing' = [doing EXCEPT ![h] = [Rest EXCEPT !.op = "close", !.at = "closing", !.id = i,
                                                     !.object = o, !.delete = delete]]
        /\ UNCHANGED <<reg, files, cut, stray, deleted>>

Removed(h) ==
  /\ doing[h].at = "closing"
  /\ Ends(doing[h].object, doing[h].delete)
  /\ doing' = [doing EXCEPT ![h] = Rest]
  /\ UNCHANGED <<table, owned, reaper, fanout, deaths>>

(* An open whose backend does not start removes the session; a prompt only *)
(* says so.                                                                *)
SpawnFails(h) ==
  /\ doing[h].at = "spawn"
  /\ IF doing[h].op = "open" /\ Known(doing[h].id)
       THEN Removes(h, doing[h].id, FALSE)
       ELSE /\ doing' = [doing EXCEPT ![h] = Rest]
            /\ UNCHANGED <<sess, table, reg, files, cut, stray, deleted>>
  /\ UNCHANGED <<owned, reaper, fanout, deaths>>

Close(h, i, delete) ==
  /\ Idle(h) /\ i \in owned[h] /\ Known(i)
  /\ owned' = [owned EXCEPT ![h] = @ \ {i}]
  /\ Removes(h, i, delete)
  /\ UNCHANGED <<reaper, fanout, deaths>>

(* session.close of a session that has left the table since: with delete,  *)
(* its record goes, and its files stay.                                    *)
CloseUnknown(h, i, delete) ==
  /\ Idle(h) /\ i \in owned[h] /\ ~Known(i)
  /\ owned' = [owned EXCEPT ![h] = @ \ {i}]
  /\ reg' = IF delete THEN [reg EXCEPT ![i] = Absent] ELSE reg
  /\ disk' = IF delete THEN reg' ELSE disk
  /\ UNCHANGED <<sess, table, doing, reaper, fanout, log, side, counters, stray, deleted>>

(***************************************************************************)
(* Leaving, and the two reapers                                            *)
(***************************************************************************)
Parked(s) == [s EXCEPT !.own = Nobody, !.parked = TRUE]

Detach(h, i) ==
  /\ Idle(h) /\ i \in owned[h]
  /\ owned' = [owned EXCEPT ![h] = @ \ {i}]
  /\ sess' = IF Known(i) /\ TheSession(i).own = h
             THEN [sess EXCEPT ![table[i]] = Parked(@)] ELSE sess
  /\ UNCHANGED <<table, doing, reaper, fanout, reg, files, counters, stray, deleted>>

(* The end of a connection: its sessions are parked, and those without a   *)
(* turn lose their backend.                                                *)
Leave(h) ==
  LET mine == {table[i] : i \in {j \in Ids : Known(j) /\ TheSession(j).own = h}} IN
  /\ Idle(h) /\ mine # {}
  /\ \E busy \in SUBSET {o \in mine : sess[o].up} :
       sess' = [o \in DOMAIN sess |->
                  IF o \in mine THEN [Parked(sess[o]) EXCEPT !.up = o \in busy] ELSE sess[o]]
  /\ owned' = [owned EXCEPT ![h] = {}]
  /\ UNCHANGED <<table, doing, reaper, fanout, reg, files, counters, stray, deleted>>

(* reap_idle lists the sessions to remove, and removes them one by one: it *)
(* goes on until it has to wait for the end of one's backend.  O are the   *)
(* objects so far.                                                         *)
Sweeps(todo, O) ==
  \E now \in SUBSET todo :
    LET done == {table[i] : i \in now} IN
      \/ /\ now = todo
         /\ reaper' = Asleep
         /\ sess' = [o \in DOMAIN sess |-> IF o \in done THEN LogClosed(o)[o] ELSE O[o]]
         /\ table' = [i \in Ids |-> IF i \in now THEN 0 ELSE table[i]]
      \/ \E i \in todo \ now :
           /\ Known(i) /\ TheSession(i).up
           /\ reaper' = [todo |-> todo \ (now \cup {i}), object |-> table[i]]
           /\ sess' = [o \in DOMAIN sess |-> IF o \in done THEN LogClosed(o)[o]
                                              ELSE IF o = table[i] THEN Waiting(o)[o] ELSE O[o]]
           /\ table' = [j \in Ids |-> IF j \in now \cup {i} THEN 0 ELSE table[j]]

Reap ==
  LET due == {i \in Ids : Known(i) /\ TheSession(i).parked} IN
  /\ reaper = Asleep /\ due # {}
  /\ Sweeps(due, sess)
  /\ UNCHANGED <<owned, doing, fanout, reg, files, counters, stray, deleted>>

Reaped ==
  /\ reaper.object # 0
  /\ Sweeps(reaper.todo, LogClosed(reaper.object))
  /\ UNCHANGED <<owned, doing, fanout, reg, files, counters, stray, deleted>>

(* _reap_idle_processes saves the counters of the sessions that live.      *)
Touched(i) == IF Known(i) /\ reg[i] # Absent
              THEN [reg[i] EXCEPT !.turns = TheSession(i).turns] ELSE reg[i]

Touch ==
  /\ reg' = [i \in Ids |-> Touched(i)]
  /\ reg' # reg
  /\ disk' = reg'
  /\ UNCHANGED <<sess, table, owned, doing, reaper, fanout, log, side, counters, stray, deleted>>

(***************************************************************************)
(* Events, and deaths                                                      *)
(***************************************************************************)
(* DurableEventLog.append, of n results: a closed log is opened again.     *)
Written(o, n) ==
  CASE sess[o].fh = "file" -> [log EXCEPT ![sess[o].id] = @ + n]
    [] sess[o].fh = "gone" -> log
    [] sess[o].fh = "none" -> [Logged(sess[o].id) EXCEPT ![sess[o].id] = @ + n]

Reopened(o) == IF sess[o].fh = "none" THEN "file" ELSE sess[o].fh

(* An event of o touches files that are not its own any more.              *)
Strays(o) == sess[o].fh = "none" \/ Newer(o) # {}

Marked(o) == IF Strays(o) THEN stray \cup {sess[o].id} ELSE stray

Counts(o) == sess[o].turns < MaxTurns /\ log[sess[o].id] \notin MaxTurns..MaxTurns + MaxDeaths

(* on_event with a session.result: the log, then the sidecar.  A session   *)
(* nobody owns may lose its backend after that.                            *)
Results(o) ==
  /\ Counts(o)
  /\ log' = Written(o, 1)
  /\ \E up \in {sess[o].up} \cup (IF sess[o].parked THEN {FALSE} ELSE {}) :
       sess' = [sess EXCEPT ![o] = [@ EXCEPT !.turns = sess[o].turns + 1, !.fh = Reopened(o),
                                             !.up = up, !.late = FALSE]]
  /\ side' = [side EXCEPT ![sess[o].id] = [turns |-> sess'[o].turns, native |-> sess[o].native]]
  /\ stray' = Marked(o)
  /\ UNCHANGED <<table, owned, doing, reaper, fanout, reg, disk, counters, deleted>>

TurnEnds(o) == sess[o].up /\ Results(o)

(* A turn that its owner was cancelling when somebody else removed the     *)
(* session ends in a result, while the backend is closed.                  *)
CancelledTurnEnds(o) == sess[o].late /\ Results(o)

(* The agent dies: its sessions are told one by one, and by then they may  *)
(* have been removed.                                                      *)
AgentDies ==
  /\ fanout = {} /\ fanout' = {o \in DOMAIN sess : sess[o].up} /\ fanout' # {}
  /\ sess' = [o \in DOMAIN sess |-> [sess[o] EXCEPT !.up = FALSE]]
  /\ UNCHANGED <<table, owned, doing, reaper, reg, files, counters, stray, deleted>>

Tell(o) ==
  /\ o \in fanout /\ fanout' = fanout \ {o}
  /\ log' = Written(o, 0)
  /\ sess' = [sess EXCEPT ![o].fh = Reopened(o)]
  /\ stray' = Marked(o)
  /\ UNCHANGED <<table, owned, doing, reaper, reg, side, disk, counters, deleted>>

(* The daemon dies, and another starts, which loads the registry.          *)
Forgets ==
  /\ deaths < MaxDeaths /\ deaths' = deaths + 1
  /\ sess' = <<>> /\ table' = [i \in Ids |-> 0]
  /\ owned' = [h \in Handlers |-> {}] /\ doing' = [h \in Handlers |-> Rest]
  /\ reaper' = Asleep /\ fanout' = {}
  /\ reg' = disk

Dies ==
  /\ Forgets
  /\ UNCHANGED <<files, cut, stray, deleted>>

(* Between the log of a result and the sidecar.                            *)
DiesCounting(o) ==
  /\ sess[o].up /\ sess[o].fh = "file" /\ Counts(o)
  /\ log' = Written(o, 1)
  /\ cut' = [cut EXCEPT ![sess[o].id] = @ + 1]
  /\ stray' = Marked(o)
  /\ Forgets
  /\ UNCHANGED <<side, disk, deleted>>

(* Between the log and the sidecar of a deleted session, or the record.    *)
DiesDeleting(h) ==
  /\ doing[h].at = "closing" /\ doing[h].delete
  /\ log' = [log EXCEPT ![doing[h].id] = Absent]
  /\ \E gone \in BOOLEAN : side' = IF gone THEN [side EXCEPT ![doing[h].id] = Absent] ELSE side
  /\ stray' = stray \cup {doing[h].id}
  /\ Forgets
  /\ UNCHANGED <<disk, cut, deleted>>

Next ==
  \/ \E h \in Handlers, i \in Ids, resume \in BOOLEAN : OpenCold(h, i, resume)
  \/ \E h \in Handlers, i \in Ids : OpenRefused(h, i)
  \/ \E h \in Handlers, i \in Ids : OpenLive(h, i)
  \/ \E h \in Handlers, i \in Ids : TakeOver(h, i)
  \/ \E h \in Handlers : Told(h)
  \/ \E h \in Handlers, i \in Ids : Respawn(h, i)
  \/ \E h \in Handlers : SpawnedNew(h)
  \/ \E h \in Handlers : SpawnedLoaded(h)
  \/ \E h \in Handlers : SpawnedViewOnly(h)
  \/ \E h \in Handlers : SpawnFails(h)
  \/ \E h \in Handlers, i \in Ids, delete \in BOOLEAN : Close(h, i, delete)
  \/ \E h \in Handlers, i \in Ids, delete \in BOOLEAN : CloseUnknown(h, i, delete)
  \/ \E h \in Handlers : Removed(h)
  \/ \E h \in Handlers, i \in Ids : Detach(h, i)
  \/ \E h \in Handlers : Leave(h)
  \/ Reap
  \/ Reaped
  \/ Touch
  \/ \E o \in DOMAIN sess : TurnEnds(o)
  \/ \E o \in DOMAIN sess : CancelledTurnEnds(o)
  \/ AgentDies
  \/ \E o \in DOMAIN sess : Tell(o)
  \/ Dies
  \/ \E o \in DOMAIN sess : DiesCounting(o)
  \/ \E h \in Handlers : DiesDeleting(h)

Spec == Init /\ [][Next]_vars

-----------------------------------------------------------------------------
(* Every variable has its type.                                            *)
Kept == [turns : 0..MaxTurns, native : Natives \cup {NoNative}]

TypeOK ==
  /\ Len(sess) <= MaxObjects
  /\ sess \in Seq([id : Ids, own : Handlers \cup {Nobody}, parked : BOOLEAN, up : BOOLEAN,
                   late : BOOLEAN, fh : {"file", "gone", "none"}, turns : 0..MaxTurns, native : Natives \cup {NoNative}])
  /\ table \in [Ids -> 0..Len(sess)]
  /\ \A i \in Ids : Known(i) => TheSession(i).id = i
  /\ owned \in [Handlers -> SUBSET Ids]
  /\ \A h \in Handlers :
       Idle(h) \/ doing[h] \in [op : {"open", "prompt", "close"}, at : {"taken", "spawn", "closing"},
                                id : Ids, object : DOMAIN sess, load : Natives \cup {NoNative},
                                delete : BOOLEAN]
  /\ reaper \in [todo : SUBSET Ids, object : 0..Len(sess)]
  /\ fanout \subseteq DOMAIN sess
  /\ \A i \in Ids : /\ log[i] = Absent \/ log[i] \in 0..MaxTurns
                    /\ \A kept \in {side[i], reg[i], disk[i]} : kept = Absent \/ kept \in Kept
  /\ stray \subseteq Ids /\ deleted \subseteq Ids

LoggedTurns(i) == IF log[i] = Absent THEN 0 ELSE log[i]
CountedTurns(i) == IF side[i] = Absent THEN 0 ELSE side[i].turns

(* However a session is closed, reaped, taken over, resumed and restarted, *)
(* the turn counter in its sidecar counts the results in its log, but for  *)
(* the one the daemon wrote when it died, and the live session has that    *)
(* counter and writes that log.  Not so once an object that had left the   *)
(* table wrote there (session.py:166-176, 586-590).                        *)
FilesAgree ==
  \A i \in Ids \ stray :
    /\ LoggedTurns(i) = CountedTurns(i) + cut[i]
    /\ Known(i) => TheSession(i).turns = CountedTurns(i) /\ TheSession(i).fh = "file"

(* A session that a client deleted has nothing on disk until it is opened  *)
(* again, and is in no session.list (daemon.py:714-717).                   *)
DeletedIsGone ==
  \A i \in deleted \ stray : log[i] = Absent /\ side[i] = Absent /\ disk[i] = Absent

(* A session that has been opened is in the registry on disk, so that a    *)
(* restart still lists it (daemon.py:497-508): also when a close that      *)
(* deletes it, an open that fails and one that succeeds overlap.           *)
LiveIsRegistered ==
  \A i \in Ids \ stray :
    Known(i) /\ (TheSession(i).own # Nobody \/ TheSession(i).parked) => disk[i] # Absent

(* The turns that the registry has of a session are never ahead of its     *)
(* sidecar: session.list of a session that is not live may say too few     *)
(* turns, never too many (daemon.py:1245-1247).                            *)
RegistryIsBehind ==
  \A i \in Ids \ stray : disk[i] # Absent => disk[i].turns <= CountedTurns(i)

(* "The prior agent session id comes from the live session or, across a    *)
(* restart, the persistent registry" (daemon.py:417-418).  The sidecar's   *)
(* goes first, and it may be of an earlier agent session.                  *)
ResumeLoadsRegistered ==
  [][\A h \in Handlers :
       LET i == doing'[h].id IN
         doing[h].at # "spawn" /\ doing'[h].op = "open" /\ doing'[h].at = "spawn"
           /\ doing'[h].load # NoNative /\ ~Known(i) /\ reg[i] # Absent
         => doing'[h].load = reg[i].native]_vars

(* "Unattached sessions reaped after IDLE_TIMEOUT" (docs/spec.md:258): no  *)
(* session is reaped that a connection owns.  The list of the reaper is    *)
(* older than what it removes.                                             *)
ReapsUnattached ==
  [][\A i \in Ids : reaper' # reaper /\ deaths' = deaths /\ Known(i) /\ table'[i] = 0
       => TheSession(i).own = Nobody]_vars
=============================================================================
