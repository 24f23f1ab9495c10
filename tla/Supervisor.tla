----------------------------- MODULE Supervisor -----------------------------
(***************************************************************************)
(* The profiles and their agent processes: sessions that are opened on     *)
(* them and closed, profile.start, stop, create, update and delete, the    *)
(* reaper of idle processes, and what the registry keeps of the profiles.  *)
(*                                                                         *)
(* Sources: supervisor.py, the profile handlers of daemon.py and what      *)
(* _handle_open and SessionTable.remove do with a profile, and in acp.py   *)
(* AcpAgentProcess.ensure_started, _watch_exit, close and new_session.     *)
(*                                                                         *)
(* Module AgentProcess has the turns and the owners of the sessions of one *)
(* agent, whose start and whose profile.stop are steps there.  Here they   *)
(* are taken apart at every await, and sessions are opened, left and       *)
(* closed, with no turn on them.  A profile has one agent.  A spec is a    *)
(* version number, and 0 means no profile.  Each handler stands for a      *)
(* client and for the one session it opens; sessions are told apart by     *)
(* their handler.                                                          *)
(***************************************************************************)
EXTENDS Naturals, Sequences

CONSTANTS
  Names,       (* profile names                                            *)
  Static,      (* those that the configuration defines                     *)
  Handlers,    (* connections' handlers, each with one session             *)
  Nobody,      (* no handler                                               *)
  MaxVersion,  (* bound: versions of a profile's spec                      *)
  MaxObjects   (* bound: AcpAgentProcess objects made                      *)

ASSUME NamesAssumption == Static \subseteq Names
ASSUME NobodyAssumption == Nobody \notin Handlers
ASSUME BoundsAssumption == MaxVersion \in Nat \ {0} /\ MaxObjects \in Nat

NoName == "none"

ASSUME NoNameAssumption == NoName \notin Names

VARIABLES
  profiles,  (* Supervisor._profiles: the spec of each name, or 0          *)
  stored,    (* the registry's profile records, on disk                    *)
  slot,      (* Supervisor._processes: number of the object, or 0          *)
  idle,      (* names in _idle_since                                       *)
  object,    (* the AcpAgentProcess objects made so far                    *)
  table,     (* table[h]: profile_name of h's session in the table         *)
  handle,    (* handle[h]: object of its Session.backend, 0 for None       *)
  viewOnly,  (* those whose backend has no native id: it cannot be loaded  *)
  doing,     (* doing[h]: what the handler is suspended in                 *)
  reaper,    (* what reap_idle is suspended in                             *)
  excused    (* history: objects last used by profile.start, or by an open *)
             (* that failed or made no session                             *)

processes == <<slot, idle, object>>
sessions  == <<table, handle, viewOnly>>
specs     == <<profiles, stored>>
vars      == <<specs, processes, sessions, doing, reaper, excused>>

Rest == [op |-> "none", name |-> NoName, at |-> "none", object |-> 0, spec |-> 0]
Idle(h) == doing[h] = Rest

Asleep == [at |-> "asleep", todo |-> {}, name |-> NoName, object |-> 0]

(* AcpAgentProcess.running.                                                *)
Running(o) == object[o].children > 0

(* AcpSessionHandle.running: the process is, and it was given a native id. *)
HandleRuns(h) == handle[h] # 0 /\ Running(handle[h]) /\ h \notin viewOnly

(* _conn is gone: whoever waits for an answer on it gets an error.         *)
Broken(o, D) ==
  [h \in Handlers |-> IF D[h].at = "new" /\ D[h].object = o
                      THEN [D[h] EXCEPT !.at = "broken"] ELSE D[h]]

Goes(h, phase) == doing' = [doing EXCEPT ![h].at = phase]

-----------------------------------------------------------------------------
Init ==
  /\ profiles = [n \in Names |-> IF n \in Static THEN 1 ELSE 0]
  /\ stored = [n \in Names |-> 0]
  /\ slot = [n \in Names |-> 0]
  /\ idle = {}
  /\ object = <<>>
  /\ table = [h \in Handlers |-> NoName]
  /\ handle = [h \in Handlers |-> 0] /\ viewOnly = {}
  /\ doing = [h \in Handlers |-> Rest]
  /\ reaper = Asleep
  /\ excused = {}

(***************************************************************************)
(* Opening a session, and profile.start                                    *)
(***************************************************************************)
Fresh(n) == [name |-> n, children |-> 0, closing |-> FALSE, conn |-> FALSE,
             lock |-> Nobody, on |-> {}]

(* _process_for, for the handler h, which then wants it started.           *)
Obtain(h, op, n) ==
  LET o == IF slot[n] # 0 THEN slot[n] ELSE Len(object) + 1
  IN /\ slot[n] = 0 => Len(object) < MaxObjects
     /\ object' = IF slot[n] # 0 THEN object ELSE Append(object, Fresh(n))
     /\ slot' = [slot EXCEPT ![n] = o]
     /\ doing' = [doing EXCEPT ![h] = [op |-> op, name |-> n, at |-> "lock", object |-> o,
                                       spec |-> 0]]

(* session.open of a new session, or of one whose backend is not running.  *)
Open(h, n) ==
  /\ Idle(h) /\ profiles[n] # 0
  /\ table[h] = NoName \/ ~HandleRuns(h)
  /\ table' = [table EXCEPT ![h] = n]
  /\ Obtain(h, "open", n)
  /\ idle' = idle \ {n}
  /\ UNCHANGED <<specs, handle, viewOnly, reaper, excused>>

(* session.open that resumes a session with a running backend: it gets the *)
(* profile that this open names, the backend stays where it is.            *)
Resume(h, n) ==
  /\ Idle(h) /\ profiles[n] # 0
  /\ table[h] \notin {NoName, n} /\ HandleRuns(h)
  /\ table' = [table EXCEPT ![h] = n]
  /\ UNCHANGED <<specs, processes, handle, viewOnly, doing, reaper, excused>>

StartProfile(h, n) ==
  /\ Idle(h) /\ profiles[n] # 0
  /\ Obtain(h, "start", n)
  /\ UNCHANGED <<specs, idle, sessions, reaper, excused>>

At(h, phase) == doing[h].at = phase
Mine(h) == object[doing[h].object]

(* The object is left as it is, in use or not.                             *)
Spent(o) == IF object[o].on = {} THEN excused \cup {o} ELSE excused

(* Once the process runs, profile.start is done, and an open asks for a    *)
(* session, which fails at once on a connection that close() has dropped;  *)
(* or it resumes one that this agent cannot load, and is done: to be       *)
(* viewed, the session needs none there.                                   *)
Started(h) ==
  \/ /\ doing[h].op = "start"
     /\ doing' = [doing EXCEPT ![h] = Rest]
     /\ excused' = Spent(doing[h].object)
     /\ UNCHANGED <<handle, viewOnly>>
  \/ /\ doing[h].op = "open"
     /\ Goes(h, IF Mine(h).conn THEN "new" ELSE "broken")
     /\ UNCHANGED <<handle, viewOnly, excused>>
  \/ /\ doing[h].op = "open"
     /\ handle' = [handle EXCEPT ![h] = doing[h].object]
     /\ viewOnly' = viewOnly \cup {h}
     /\ doing' = [doing EXCEPT ![h] = Rest]
     /\ excused' = Spent(doing[h].object)

(* Mutant: the lock is asked only of a process that runs.                  *)
TakesNoLock(h) ==
  /\ At(h, "lock") /\ ~Running(doing[h].object)
  /\ object' = [object EXCEPT ![doing[h].object] =
                  [@ EXCEPT !.lock = h, !.closing = FALSE, !.on = {}]]
  /\ Goes(h, "exec")
  /\ UNCHANGED <<specs, slot, idle, sessions, reaper, excused>>

(* ensure_started takes the lock: the process runs, or it is started,      *)
(* which first drops the sessions of the one before.                       *)
FindsRunning(h) ==
  /\ At(h, "lock") /\ Mine(h).lock = Nobody /\ Running(doing[h].object)
  /\ Started(h)
  /\ UNCHANGED <<specs, processes, table, reaper>>

TakesLock(h) ==
  /\ At(h, "lock") /\ Mine(h).lock = Nobody /\ ~Running(doing[h].object)
  /\ object' = [object EXCEPT ![doing[h].object] =
                  [@ EXCEPT !.lock = h, !.closing = FALSE, !.on = {}]]
  /\ Goes(h, "exec")
  /\ UNCHANGED <<specs, slot, idle, sessions, reaper, excused>>

(* The child is there, and asked to initialize.                            *)
Execs(h) ==
  /\ At(h, "exec")
  /\ object' = [object EXCEPT ![doing[h].object] =
                  [Mine(h) EXCEPT !.children = Mine(h).children + 1, !.conn = TRUE]]
  /\ Goes(h, "init")
  /\ UNCHANGED <<specs, slot, idle, sessions, reaper, excused>>

Initialized(h) ==
  /\ At(h, "init") /\ Mine(h).conn
  /\ object' = [object EXCEPT ![doing[h].object].lock = Nobody]
  /\ Started(h)
  /\ UNCHANGED <<specs, slot, idle, table, reaper>>

(* Mutant: the clock is started by the last session of the name.           *)
ClosesByName(h, O) ==
  LET o == handle[h]
      last == o # 0 /\ O[o].on \ {h} = {}
  IN /\ object' = IF o = 0 THEN O ELSE [O EXCEPT ![o].on = @ \ {h}]
     /\ idle' = IF last /\ \A g \in Handlers \ {h} : table[g] # object[o].name
                  THEN idle \cup {object[o].name} ELSE idle
     /\ excused' = (IF doing[h].object # 0 /\ O[doing[h].object].on = {}
                      THEN excused \cup {doing[h].object} ELSE excused)
                   \ (IF last THEN {o} ELSE {})
     /\ handle' = [handle EXCEPT ![h] = 0]
     /\ viewOnly' = viewOnly \ {h}

(* AcpSessionHandle.close: the session leaves the process, and the idle    *)
(* clock of the process starts if it was the last, whoever is about to     *)
(* open one.  O are the objects before that.                               *)
HandleCloses(h, O) ==
  LET o == handle[h]
      last == o # 0 /\ O[o].on \ {h} = {}
  IN /\ object' = IF o = 0 THEN O ELSE [O EXCEPT ![o].on = @ \ {h}]
     /\ idle' = IF last THEN idle \cup {object[o].name} ELSE idle
     /\ excused' = (IF doing[h].object # 0 /\ O[doing[h].object].on = {}
                      THEN excused \cup {doing[h].object} ELSE excused)
                   \ (IF last THEN {o} ELSE {})
     /\ handle' = [handle EXCEPT ![h] = 0]
     /\ viewOnly' = viewOnly \ {h}

(* SpawnFailedError: an open removes its session.  profile.start reports.  *)
SpawnFailed(h, O) ==
  /\ IF doing[h].op = "open"
       THEN HandleCloses(h, O) /\ table' = [table EXCEPT ![h] = NoName]
       ELSE object' = O /\ UNCHANGED <<idle, excused, sessions>>
  /\ doing' = [Broken(doing[h].object, doing) EXCEPT ![h] = Rest]
  /\ UNCHANGED <<specs, slot, reaper>>

(* Mutant: the lock is not given back.                                     *)
ExecFailsLocked(h) ==
  /\ At(h, "exec")
  /\ SpawnFailed(h, object)

(* The child cannot be executed.                                           *)
ExecFails(h) ==
  /\ At(h, "exec")
  /\ SpawnFailed(h, [object EXCEPT ![doing[h].object].lock = Nobody])

(* Mutant: close() ends a child without asking whether it has ended.       *)
KillAlways(o) == [object EXCEPT ![o].children = @ - 1]

(* close(), in its two steps: the sessions and the connection are dropped, *)
(* and then the child, the newest if there are several, is killed.         *)
Dropped(o) == [object EXCEPT ![o] = [@ EXCEPT !.closing = TRUE, !.on = {}, !.conn = FALSE]]
Kill(o) == [object EXCEPT ![o].children = IF @ = 0 THEN 0 ELSE @ - 1]

(* The agent refuses to initialize, dies, or its connection is dropped:    *)
(* ensure_started closes the process before it gives the lock back.        *)
InitFails(h) ==
  /\ At(h, "init")
  /\ LET o == doing[h].object IN
       SpawnFailed(h, [Dropped(o) EXCEPT ![o] = [@ EXCEPT !.lock = Nobody, !.children = 0]])

(* session/new or session/load is answered.                                *)
Opened(h) ==
  /\ At(h, "new")
  /\ object' = [object EXCEPT ![doing[h].object].on = @ \cup {h}]
  /\ handle' = [handle EXCEPT ![h] = doing[h].object]
  /\ viewOnly' = viewOnly \ {h}
  /\ excused' = excused \ {doing[h].object}
  /\ doing' = [doing EXCEPT ![h] = Rest]
  /\ UNCHANGED <<specs, slot, idle, table, reaper>>

Refused(h) ==
  /\ At(h, "new")
  /\ SpawnFailed(h, object)

(* An error that _handle_open does not catch: the session stays.           *)
Raises(h) ==
  /\ At(h, "broken")
  /\ excused' = Spent(doing[h].object)
  /\ doing' = [doing EXCEPT ![h] = Rest]
  /\ UNCHANGED <<specs, processes, sessions, reaper>>

(* SessionTable.remove, for session.close and the idle session.            *)
CloseSession(h) ==
  /\ Idle(h) /\ table[h] # NoName
  /\ table' = [table EXCEPT ![h] = NoName]
  /\ HandleCloses(h, object)
  /\ UNCHANGED <<specs, slot, doing, reaper>>

(* detach_soft, when the connection ends: a backend that does not run is   *)
(* only forgotten.                                                         *)
Leaves(h) ==
  /\ Idle(h) /\ table[h] # NoName
  /\ \/ HandleRuns(h) /\ HandleCloses(h, object)
     \/ /\ ~HandleRuns(h)
        /\ handle' = [handle EXCEPT ![h] = 0]
        /\ viewOnly' = viewOnly \ {h}
        /\ UNCHANGED <<object, idle, excused>>
  /\ UNCHANGED <<specs, slot, table, doing, reaper>>

(***************************************************************************)
(* Stopping, updating, deleting and creating a profile                     *)
(***************************************************************************)
(* Mutant: a profile that is gone by then is not written.                  *)
AppliedIfThere(op, n, spec) ==
  IF op = "stop" THEN UNCHANGED specs
  ELSE /\ profiles' = [profiles EXCEPT ![n] = spec]
       /\ stored' = IF profiles[n] = 0 THEN stored ELSE [stored EXCEPT ![n] = spec]

(* What update and delete do in the end.                                   *)
Applied(op, n, spec) ==
  IF op = "stop" THEN UNCHANGED specs
  ELSE /\ profiles' = [profiles EXCEPT ![n] = spec]
       /\ stored' = [stored EXCEPT ![n] = spec]

(* stop: the object leaves the table first, and is closed after.           *)
Stop(h, op, n, spec) ==
  /\ Idle(h) /\ profiles[n] # 0
  /\ slot' = [slot EXCEPT ![n] = 0]
  /\ idle' = idle \ {n}
  /\ LET o == slot[n] IN
       \/ /\ o = 0
          /\ Applied(op, n, spec)
          /\ UNCHANGED <<object, doing>>
       \/ /\ o # 0
          /\ object' = Dropped(o)
          /\ doing' = [Broken(o, doing) EXCEPT
                         ![h] = [op |-> op, name |-> n, at |-> "close", object |-> o,
                                 spec |-> spec]]
          /\ UNCHANGED specs
  /\ UNCHANGED <<sessions, reaper, excused>>

StopProfile(h, n) == Stop(h, "stop", n, 0)

(* The handlers of update and delete refuse a profile in use, and one that *)
(* the configuration defines.                                              *)
InUse(n) == \E h \in Handlers : table[h] = n

UpdateProfile(h, n, spec) ==
  ~InUse(n) /\ n \notin Static /\ Stop(h, "update", n, spec)

DeleteProfile(h, n) ==
  ~InUse(n) /\ n \notin Static /\ Stop(h, "delete", n, 0)

(* close() has waited for the child's end.                                 *)
Killed(h) ==
  /\ At(h, "close")
  /\ object' = Kill(doing[h].object)
  /\ Goes(h, "closed")
  /\ UNCHANGED <<specs, slot, idle, sessions, reaper, excused>>

(* ... and stop is done, the profile replaced, or gone.                    *)
Finishes(h) ==
  /\ At(h, "closed")
  /\ Applied(doing[h].op, doing[h].name, doing[h].spec)
  /\ doing' = [doing EXCEPT ![h] = Rest]
  /\ UNCHANGED <<processes, sessions, reaper, excused>>

CreateProfile(h, n, spec) ==
  /\ Idle(h) /\ profiles[n] = 0
  /\ profiles' = [profiles EXCEPT ![n] = spec]
  /\ stored' = [stored EXCEPT ![n] = spec]
  /\ UNCHANGED <<processes, sessions, doing, reaper, excused>>

(***************************************************************************)
(* The idle reaper, crashes and restarts                                   *)
(***************************************************************************)
(* reap_idle looks at the names that had an idle clock when it began.      *)
Wakes ==
  /\ reaper = Asleep /\ idle # {}
  /\ reaper' = [reaper EXCEPT !.at = "scan", !.todo = idle]
  /\ UNCHANGED <<specs, processes, sessions, doing, excused>>

Scanned(n) == IF reaper.todo = {n} THEN Asleep
              ELSE [Asleep EXCEPT !.at = "scan", !.todo = reaper.todo \ {n}]

(* Nothing to reap there, or not yet.                                      *)
Spares(n) ==
  /\ reaper.at = "scan" /\ n \in reaper.todo
  /\ idle' = IF slot[n] = 0 THEN idle \ {n} ELSE idle
  /\ reaper' = Scanned(n)
  /\ UNCHANGED <<specs, slot, object, sessions, doing, excused>>

Reaps(n) ==
  /\ reaper.at = "scan" /\ n \in reaper.todo
  /\ slot[n] # 0 /\ object[slot[n]].on = {}
  /\ object' = Dropped(slot[n])
  /\ doing' = Broken(slot[n], doing)
  /\ reaper' = [reaper EXCEPT !.at = "close", !.name = n, !.object = slot[n]]
  /\ UNCHANGED <<specs, slot, idle, sessions, excused>>

ReapKills ==
  /\ reaper.at = "close"
  /\ object' = Kill(reaper.object)
  /\ reaper' = [reaper EXCEPT !.at = "closed"]
  /\ UNCHANGED <<specs, slot, idle, sessions, doing, excused>>

(* Whatever has that name's slot by now leaves it.                         *)
ReapForgets ==
  /\ reaper.at = "closed"
  /\ slot' = [slot EXCEPT ![reaper.name] = 0]
  /\ idle' = idle \ {reaper.name}
  /\ reaper' = Scanned(reaper.name)
  /\ UNCHANGED <<specs, object, sessions, doing, excused>>

(* The child dies.  The exit watcher drops its sessions and tells them,    *)
(* unless the object was marked as closing.                                *)
Crash(o) ==
  /\ Running(o)
  /\ object' = [object EXCEPT ![o] =
                  [object[o] EXCEPT
                     !.children = object[o].children - 1, !.conn = FALSE,
                     !.on = IF object[o].closing THEN object[o].on ELSE {}]]
  /\ doing' = Broken(o, doing)
  /\ UNCHANGED <<specs, slot, idle, sessions, reaper, excused>>

(* load_persisted: the configuration wins over what was stored.            *)
Loaded == [n \in Names |-> IF n \in Static THEN 1 ELSE stored[n]]

(* The daemon dies and is started again.                                   *)
Restart ==
  /\ profiles' = Loaded
  /\ slot' = [n \in Names |-> 0]
  /\ idle' = {} /\ object' = <<>>
  /\ table' = [h \in Handlers |-> NoName]
  /\ handle' = [h \in Handlers |-> 0] /\ viewOnly' = {}
  /\ doing' = [h \in Handlers |-> Rest]
  /\ reaper' = Asleep /\ excused' = {}
  /\ UNCHANGED stored

Next ==
  \/ \E h \in Handlers, n \in Names : Open(h, n)
  \/ \E h \in Handlers, n \in Names : Resume(h, n)
  \/ \E h \in Handlers, n \in Names : StartProfile(h, n)
  \/ \E h \in Handlers : FindsRunning(h)
  \/ \E h \in Handlers : TakesLock(h)
  \/ \E h \in Handlers : Execs(h)
  \/ \E h \in Handlers : Initialized(h)
  \/ \E h \in Handlers : ExecFails(h)
  \/ \E h \in Handlers : InitFails(h)
  \/ \E h \in Handlers : Opened(h)
  \/ \E h \in Handlers : Refused(h)
  \/ \E h \in Handlers : Raises(h)
  \/ \E h \in Handlers : CloseSession(h)
  \/ \E h \in Handlers : Leaves(h)
  \/ \E h \in Handlers, n \in Names : StopProfile(h, n)
  \/ \E h \in Handlers, n \in Names, v \in 1..MaxVersion : UpdateProfile(h, n, v)
  \/ \E h \in Handlers, n \in Names : DeleteProfile(h, n)
  \/ \E h \in Handlers, n \in Names, v \in 1..MaxVersion : CreateProfile(h, n, v)
  \/ \E h \in Handlers : Killed(h)
  \/ \E h \in Handlers : Finishes(h)
  \/ Wakes
  \/ \E n \in Names : Spares(n)
  \/ \E n \in Names : Reaps(n)
  \/ ReapKills
  \/ ReapForgets
  \/ \E o \in DOMAIN object : Crash(o)
  \/ Restart

(* Fairness: a process starts or fails to, an agent answers what it is     *)
(* asked, every handler runs when it can, and the lock is given in turn.   *)
Fairness ==
  \A h \in Handlers :
    /\ SF_vars(FindsRunning(h) \/ TakesLock(h))
    /\ WF_vars(Execs(h) \/ ExecFails(h))
    /\ WF_vars(Initialized(h) \/ InitFails(h))
    /\ WF_vars(Opened(h) \/ Refused(h)) /\ WF_vars(Raises(h))

Spec == Init /\ [][Next]_vars /\ Fairness

-----------------------------------------------------------------------------
(* Every variable has its type.                                            *)
TypeOK ==
  /\ profiles \in [Names -> 0..MaxVersion] /\ stored \in [Names -> 0..MaxVersion]
  /\ Len(object) <= MaxObjects
  /\ object \in Seq([name : Names, children : Nat, closing : BOOLEAN,
                     conn : BOOLEAN, lock : Handlers \cup {Nobody}, on : SUBSET Handlers])
  /\ slot \in [Names -> 0..Len(object)] /\ idle \subseteq Names
  /\ table \in [Handlers -> Names \cup {NoName}]
  /\ handle \in [Handlers -> 0..Len(object)] /\ viewOnly \subseteq Handlers
  /\ doing \in [Handlers -> {Rest} \cup
                  [op : {"open", "start", "stop", "update", "delete"}, name : Names,
                   at : {"lock", "exec", "init", "new", "broken", "close", "closed"},
                   object : DOMAIN object, spec : 0..MaxVersion]]
  /\ reaper \in [at : {"asleep", "scan", "close", "closed"}, todo : SUBSET Names,
                 name : Names \cup {NoName}, object : 0..Len(object)]
  /\ excused \subseteq DOMAIN object

(* However opens, starts, stops and reaps interleave, an AcpAgentProcess   *)
(* has one child at a time: the one that is its _proc, which is the only   *)
(* one that its close() ends (acp.py:219-222, 486).                        *)
OneChild == \A o \in DOMAIN object : object[o].children <= 1

(* The profiles that were made over the wire are those on disk, with the   *)
(* same spec: a restart brings back what was there (supervisor.py:193),    *)
(* also when an update and a delete wait for the same process.             *)
PersistedMatches == \A n \in Names \ Static : profiles[n] = stored[n]

(* "When an agent's last session closes, its process is reaped after the   *)
(* idle timeout" (acp-migration-spec.md:130): a running process of the     *)
(* supervisor that has no session, and nobody at work on it, has its idle  *)
(* clock running.  Not so after a profile.start, or an open that failed,   *)
(* or that found that the agent cannot load its session: make_handle has   *)
(* stopped the clock (supervisor.py:304), and detach_soft forgets such a   *)
(* backend without close() (session.py:769).                               *)
IdleHasClock ==
  \A n \in Names :
    LET o == slot[n] IN
      o # 0 /\ Running(o) /\ object[o].on = {} /\ o \notin excused
        /\ reaper.object # o /\ (\A h \in Handlers : doing[h].object # o)
      => n \in idle

(* An update or a delete is refused while the profile has live sessions,   *)
(* since it "would cancel in-flight turns with no terminal frame and       *)
(* orphan detached sessions" (daemon.py:920): so it closes no process that *)
(* has one.  A session that was resumed under another profile's name is    *)
(* not seen.                                                               *)
InUseIsRefused ==
  [][\A h \in Handlers :
       doing'[h].op \in {"update", "delete"} /\ Idle(h)
         => object[doing'[h].object].on = {}]_vars

(* A session.open, and a profile.start, come to an end, whoever closes,    *)
(* crashes or restarts the process in between (acp.py:220, 250).           *)
OpensEnd ==
  \A h \in Handlers : (doing[h].op \in {"open", "start"}) ~> Idle(h)
=============================================================================
