# TLA+ models of blemees-agent

`blemees-agentd` is a daemon that runs ACP agents (coding agents spoken to over
stdio) for any number of local clients. Clients connect to a Unix socket, open
sessions, drive turns, watch each other's sessions, go away and come back; the
daemon keeps the sessions, buffers and logs their events, and supervises the
agent processes. It is one asyncio event loop, so everything between two
awaits is atomic and everything that goes wrong goes wrong at an await.

All source paths are below `src/blemees_agent/`, all documents below `src/docs/`.

## The system

| Component | State | Operations | Interacts with |
|---|---|---|---|
| Event stream of a session (`session.py`, `event_log.py`, `client.py`) | `seq`, ring, log, owner's writer, watchers; the client's `last_seq` | `on_event`, `attach`, `add_watcher`, `detach_writer`, `enable_durable_log` | agent events come in, connections' queues go out; recovery reads the log |
| Connection (`daemon.py`, `Connection`) | bounded queue, `_alive`, writer's progress, owned and watched sessions | `serve`, read loop and dispatch, writer loop, watchdog, `broadcast_shutdown` | four kinds of tasks share the queue |
| Agent process and turns (`backends/acp.py`) | process, `sessions`, per session the turn's task and flags | `ensure_started`, `new_session`/`resume_session`, `prompt`, `cancel`, `end_session`, `close`, exit watcher | driven by handlers of all connections through `AcpSessionHandle`; reports by `on_event` |
| Ownership (`daemon.py` handlers, `SessionTable`) | table, `connection_id`, `detached_at`, `_finishing`, `_owned_sessions` | open, attach, detach, close, disconnect, takeover, reaper, soft-kill | all of the above |
| Attention and permissions (`session.py:364-490`) | `needs_attention`, reason, pending permissions, remembered decision | enter, clear, decide, resolve, cancel | agent's permission requests wait for the owner's answer; notifications |
| Notifications (`notify.py`) | outstanding set, dispatch tasks | `fire`, `clear`, `test` | webhook |
| Supervisor (`supervisor.py`) | processes by (profile, agent), idle times, dynamic profiles | `make_handle`, `start`, `stop`, `create`, `update`, `delete`, `reap_idle` | processes |
| Registry (`registry.py`), usage sidecar | JSON files | `upsert`, `touch`, `remove`, `save`, `load` | read by open after a restart |
| Daemon lifecycle (`daemon.py`, `Daemon`) | connections, shutdown event, the socket's path | `start`, `_shutdown`, the two reapers | everything; a second daemon on the same path |
| Client library (`client.py`) | `_pending`, `_sessions`, per session `last_seq` | `open_session`, `list_sessions`, `close`, reader loop | the daemon's frames |
| Protocol, configuration, logging, command line, benchmark | none to speak of | conversions and I/O | |

What is hard in it: a handler that suspends in a spawn while another
connection, the reaper or the exit watcher changes the session it is about;
turns that are ended by three parties; full queues that suspend the agents'
tasks; frames lost with a connection, and sequence numbers that must survive a
restart; state that is looked up again by id after an await, when the id means
something else. `PROJECT.json` lists each hazard with its line.

What makes each part correct:

- stream: nothing below a client's bookmark is missing without a notice; a
  number is given out once; the ring holds the newest events;
- connection: the queue drains, the end of the client or a stall leads to the
  end of `serve()`, and no frame that was there before is cut off;
- turns: one at a time per session, closed by one frame, ended if cancelled or
  orphaned; a session on the process is one somebody can close;
- ownership: one owner, and who lost a session gets nothing of it any more;
- attention: set only while the owner is absent, and then notified; a request
  that waits can be answered, and what was denied stays denied;
- supervisor: a process object never has two children, an unused process is
  reaped, an open ends, and memory and registry have the same profiles;
- recovery: registry, log and sidecar agree on what a restart shows, a deleted
  session is gone and a live one is listed;
- lifecycle: a daemon that answers is not displaced, a turn has its grace, and a
  shutdown ends;
- client: a session hears every event, and no request outlives the connection.

## Modules

| Module | What |
|---|---|
| `EventDelivery` | abstract: what a stream owes its subscribers |
| `EventStream` | the stream of one session, recovery included; `Delivery` is its refinement mapping |
| `EventStream_proofs` | theorems of `EventStream` |
| `Connection` | the tasks of one connection around its queue |
| `Turns` | abstract: what a client may count on of the turns of its sessions |
| `AgentProcess` | the sessions of one agent, their turns, and their owners; `Promised` is its refinement mapping |
| `AgentProcess_proofs` | theorems of `AgentProcess` |
| `Attention` | one session that may need its absent owner: attention, permission requests, notifications |
| `Attention_proofs` | theorems of `Attention` |
| `Readers` | owners and viewers of one session while queues are full: fan-out, takeovers, replays, closes |
| `Readers_proofs` | theorems of `Readers` |
| `Supervisor` | profiles, their processes, the start lock, the process reaper |
| `Supervisor_proofs` | theorems of `Supervisor` |
| `Storage` | log, sidecar and registry of the sessions, and the table they describe |
| `Storage_proofs` | theorems of `Storage` |
| `Lifecycle` | daemons on one socket path: start, serve, shut down, die |
| `Daemon_proofs` | theorems of `Lifecycle` and of `Connection` |
| `Client` | the reference client's requests and sessions |
| `Client_proofs` | theorems of `Client` |
| `MCEventStream`, `MCConnection`, `MCAgentProcess`, `MCReaders`, `MCAttention`, `MCSupervisor`, `MCStorage`, `MCLifecycle`, `MCClient` | instances for TLC |

The modules cut the daemon by concern. Each has the handlers that change its
state, and abstracts what another module has: `Attention` knows only whether the
process knows the session, `Supervisor` has sessions without turns, `Storage`
has turns as a count in a file, `Lifecycle` has connections as told or not.

Definitions whose comment begins with "Mutant:" are plausible bugs of the
definition after them. No specification uses them: they show that a property
would notice.

### EventStream

`seq`, `ring`, `log`, `owner`, `watchers` are the fields of `Session`; `chan[c]`
is a client's connection queue and socket together, and `lastSeq[c]` the
client's `Session.last_seq`. A frame is its number and the set of event numbers
it accounts for: itself, or the gap it announces. `OnEvent`, `Attach`, `Watch`,
`Detach` are the methods of those names; `Break` and `Unserve` the loss of a
connection and the `finally` of `serve()`; `Reopen` and `Restart` build a new
`Session` from the log's tail, without and with the loss of all connections.
`told`, `lostNotice`, `emitted` and `recoveries` are history variables.

An append to the log may fail silently, as in the code (`DiskMayFail`). A
rebuild reads the last 256 KiB of the log, which may hold any number of whole
frames. `forgot` records that there was none in a log that has some, because its
last line is longer than that (`event_log.py:92-100`): the ring is then empty, and
the numbers start over.

Queues never fill here, so that a frame goes to all its readers, and an attach
replays what it replays, in one step. The code suspends at each frame of a
replay when the queue is full, and what other tasks do in between is in `Readers`.

The abstract specification has no rings, queues or notices: a subscriber is
owed all events after its own bookmark, and a debt ends by telling or with the
connection. `owed` is mapped to what the frames under way cover, `bookmark` to
`lastSeq`. So that an attach leaves nothing out, and an event reaches owner and
viewers alike, is one property:
`ImplementsDelivery`.

### Connection

One action per piece of code between two suspensions of `serve()` (handshake,
read loop, answers, clean-up), of the writer loop, of the watchdog, and of the
agents' tasks (`SendEvent`, `SenderResumes`). `peer` is how the client treats
its socket. `stale` is the watchdog's 30 s; time passes only when the writer
loop has nothing it could do. `CleanUp` drops its sentinel when the queue is
full, like the code. What is left of `serve()` after
that is cut at its awaits: the writer loop has ended (`Cancels`), the watchdog
has (`Detaches`), the sessions are detached, which may wait for an agent
(`Detached`). What is put after the clean-up has begun is told apart from what
was there before (`Put`). Its specification has names of its own (`ConnSpec`,
`ConnTypeOK`), as one module proves theorems about it and about `Lifecycle`.

### AgentProcess

`proc`, `known` (the process's `sessions`, each with the number of its
`_SessionState`), `turns` (a record per turn: where its task is, `cancelled`,
`notified_crash`, and how many closing frames it has emitted), the session
table with `handle` (`Session.backend`), `owner`, `parked` (`detached_at` set),
`finishing`, and per connection its owned sessions and the handler it is
suspended in. A prompt makes a task that runs later (`TurnRuns`), with whatever
state its session has by then: the one it was made for, none (it returns without
a frame), or another (`Astray`: a load came in between, and the task prompts, and
ends, on that one). A cancel in between ends it before it has run, and leaves the
state busy for good (phase `unbegun`). A spawn is three steps: waiting for the start lock or the
process, `session/load` (which makes the session known before it is answered),
and the answer. `gone` marks handlers and turns whose `Session` object has been
removed from the table: what they do later does not reach a new session of the
same id. A teardown waits for the turns it cancels, and is one step with their
end. `torn`, `stray`, `missed` and `stranded` are history: a turn that was torn down
with its session, one that was cancelled though nobody asked for that, one that
did not find the state it was made for, and one whose state on the process a load
has replaced or dropped, or another turn has made inactive.

The abstract specification, `Turns`, has no process, states, tasks or owners. A
session that holds a turn begins no other; a turn that runs may be asked to
cancel, may reach the agent, may be let go of by its session, and ends once:
closed by a frame, torn down, or unclosed, which takes a cancel of an earlier
turn of its session, or that the session let go of it before the agent was
asked; when it has ended nothing happens to it. The mapping is `TurnsSeen`: a turn is held
until it ends, a load strands it, or its process is lost (`Holds`).
`ImplementsTurns` is the refinement, with many turns in one step, as a crash or
a `profile.stop` befalls them together.

Assumed: the sessions are in the registry and the agent can load them. Left
out: updates, mode and model selection. `session/new`, and `profile.stop` while
the process is being started or a second time, are in `Supervisor`; sessions
that are not in the registry, and view-only ones, in `Storage`. A turn hands over
its closing frame at once here: what a full queue does to it is in `Readers`.

### Readers

A put suspends only when the queue is full, so everything up to a full queue is
one step, and a queue is only full or not (`Traffic`). `task[e]` is a call into
`on_event`: at the owner, or in the loop over the viewers, with whom it has
served. That loop is over a dict: it goes on with the viewers of the moment, and
raises when their number has changed in a put (`Resized`). The task of a turn
takes that for a failure of the agent, and a cancel for its own end: either way
it sends another frame (`LoopRaises`, `TurnCancelled`). `doing[c]` is where a
handler of connection `c` is suspended: in `session.taken` to the previous owner,
in a spawn, in its reply, in a replay, or in the notices of a close. A connection
handles one request at a time, and leaves its sessions when that is over
(`Ends`). `due` is what each reader is still to get, and `cut` the events whose
handing was broken off; both are history. Left out: the replies that come last
in a handler, gap notices and rings that roll (`EventStream`), the backend's end.

### Attention

A session's objects are numbered: a session that is removed and opened again is
a new `Session`, and handlers of the old one go on with it. `task[t]` is where
the handler of a permission request, or of an error or result, is: `on_event`
suspends its caller when a queue is full, so `enter_attention` sets the flag in
one step (`Reported`, `AskStalled`) and notifies in the next (`EventFires`,
`RequestFires`). `future[r]` is the asyncio future in `pending_permissions`.
`backend` tells whether the process knows the session, which decides whether a
request gets the session's policy or the process's fallback. `outstanding` is by
session id, shared by all its objects. Options are known by their kind.

### Supervisor

`slot` and `idle` are `_processes` and `_idle_since`, `profiles` and `stored` the
profiles in memory and in the registry, `object` the `AcpAgentProcess` objects:
children, `_closing`, `_conn`, `_start_lock` and the sessions on it. `doing[h]`
is where a handler is suspended: waiting for the lock, for the exec, for
`initialize`, for `session/new`, or for a process to close. An open that resumes a
session which the agent cannot load makes none there (`Started`, `viewOnly`), and
the end of its connection forgets that backend without closing it (`Leaves`). `reaper` is
`reap_idle` with its snapshot. A profile has one agent, since every operation
goes through a profile's agents one after the other.

### Storage

`log`, `side`, `disk` are the files and `reg` the registry in memory; `sess` the
`Session` objects with what they have of the files (`fh`: the log's handle).
`OpenCold`, `OpenLive`, `TakeOver`, `SpawnFails`, `Close`, `Reap`, `Touch` are the
handlers and reapers, each cut at its awaits; `AgentDies` and `Tell` are the exit
watcher's fan-out. `Dies`, `DiesCounting`, `DiesDeleting` are a daemon that dies
between two steps, between the log and the sidecar of a result, and between the
files of a deleted session; the next one starts with what is on disk. `stray` is
a history variable: ids whose files were written by an object that had left the
table, which the code does in the cases listed below.

### Lifecycle

`Probes`, `Clears`, `Binds`, `StartsServing` are `_prepare_socket_path` and
`start` with one system call each, as daemons are processes; `StopsListening` to
`Unlinks` are `_shutdown`, cut at its awaits. A client may stop reading
(`Stalls`), which suspends the drain in `broadcast_shutdown`. A connection looks
at the shutdown event only at the head of its loop (`AtLoopHead`), so one that
waits for a line still handles the line that comes, told or not (`Reads`), and a
handler that waits for its agent's respawn (`spawning`, `Spawned`) goes on
whatever the shutdown has done meanwhile.

### Client

`pending`, `future`, `registered` are `_pending`, its futures and `_sessions`;
`Reads`, `Overruns`, `ReaderEnds`, `Close` are the ways of the reader loop. A
frame over the stream reader's limit raises `LimitOverrunError`, which the loop
does not catch (`Overruns`). At the end of `open_session`'s block the
frame is sent and the `Session` unregistered in one step (`Leaves`): an open of the
id in between would be of an id that has a `Session`, of which nothing is claimed.
The daemon is external: it answers in order and
replays without gaps, as `EventStream` covers what it does not.

## Runs

Times are for two workers; each run says in `PROJECT.json` what it shows. A run
is `tlc -workers 2 -config <cfg> <module>`.

| Run | Instance | Result |
|---|---|---|
| `stream` | 2 clients, ring of 2, 4 numbers, 3 frames per queue, no recovery; symmetry | 4 properties hold, 240 000 states |
| `recovery` | 1 client, ring of 2, 4 numbers, 2 recoveries, failing disk | 2 properties hold, 418 000 states |
| `connection` | 2 senders, queue of 3 | 5 properties hold, 10 700 states |
| `turns` | 2 sessions, 1 connection, 2 turns, 2 starts, 2 loads; symmetry | 2 properties hold, 1 079 000 states |
| `takeover` | 1 session, 2 connections, 2 turns, 1 start, 2 loads | 3 properties hold, 1 045 000 states |
| `readers` | 2 owners, 2 viewers, one of them both, 1 event, 1 full queue at a time | 2 properties hold, 3 515 000 states |
| `attention` | 2 connections, 2 requests, 1 error, 2 policies, 1 object; symmetry | 5 properties hold, 1 253 000 states |
| `supervisor` | 1 profile, 2 clients, 2 process objects; symmetry | 3 properties hold, 2 610 000 states |
| `opens_end` | a static and a dynamic profile, 2 clients, 2 specs, 1 process object | 2 properties hold, 505 000 states |
| `storage` | 1 id, 2 connections, 2 objects per start, 2 turns, 2 deaths; symmetry | 5 properties hold, 866 000 states |
| `lifecycle` | 2 daemons, 2 starts, 2 connections, 1 turn | 4 properties hold, 359 000 states |
| `client` | 2 tasks, 1 id, 3 requests, 2 events | 3 properties hold, 894 000 states |

Bounds. A ring of 2 with 4 numbers overflows twice, and leaves rings that start
before, at, one and two past a bookmark; a gap notice needs one number more
than the events. One client is enough for recovery, which drops all readers; states after a
rebuild that read no whole frame are not explored further (`NotForgotten`), for
nothing is claimed of them.
A queue of 3 is empty, partly full, full, and full with the sentinel in it; two
senders overtake each other and the read loop for a free place. Two turns are a
turn and the one after it, the shortest history in which a late cancel, a late
report or a soft-kill can hit the wrong one; two starts are a process and its
replacement. Two sessions share the process in `turns`; two connections
contend for a session in `takeover`, where a cancel can come late for the turn
it was meant for, and a load can strand a turn. `readers` has an owner, one that takes its
place, and two viewers, so that one may come or go while the loop waits for the
other. More owners, viewers
and events than that are left to the theorems, which are about any number of
them, and about `CloseTells` too. What a handler does with a session that
was removed meanwhile is not explored there (`InTable`); `AgentProcess` and
`Storage` have it. `attention` has two requests, as one clears
the attention of another, an error next to them, and a new owner next to the
old; one object suffices, since the properties are about a session that is not
closed and opened again, or hold only for that. `supervisor` has two process
objects, the one in the slot and the one that was stopped or reaped, with
handlers waiting at both; `opens_end` has two profiles, so that a session can be
resumed under another name and an update can wait for a process of its own.
`storage` has one id, as files are by id, with two objects of it (an old one that
still writes, and a new one) and two deaths (the second in what the first left);
states where an old object has written to the only id are not explored further
(`NotAllAstray`), for nothing is claimed of them. `lifecycle` has a daemon and
the one that is started beside it or after it; two connections, one stuck.
`client` has two tasks on one id, so that opens of the same id meet.

Every model but `Connection` stops at its bounds, and `Connection` when it is
closed, hence `CHECK_DEADLOCK FALSE`. Symmetry is not used where a liveness
property is checked.

Fairness. `Connection`: weak fairness of every task of the daemon that has
something to do, and of time, as the event loop runs what is ready; none of the
client, the agents, or the order in which waiting senders get a place.
`AgentProcess`: weak fairness of the exit watcher, of the rest of a cancel, and
of a turn's task that was cancelled, was answered, or has lost its process; none
of the agent's answers. `Supervisor`: an exec ends, an agent answers `initialize`
and `session/new` or its connection breaks, and strong fairness of taking the
start lock, since `asyncio.Lock` is given in turn. `Lifecycle`: a daemon that
starts or stops goes on and its timers fire; a frame to a client that reads now
and then is taken, which is strong fairness since the client may pause.
`Client`: the reader, the tasks and the daemon run. `EventStream`, `Readers`,
`Attention` and `Storage` state no fairness.

## What the runs show

Hold: the stream delivers what it owes (`ImplementsDelivery`), and a client
knows of every event below its bookmark but for notices that died on their way
(`AccountedFor`); ring and log stay in order over recoveries; the queue of a
client that reads drains; a slow consumer is noticed; the clean-up of a
connection cuts no frame off that was put before it, and `serve()` gets through
it whenever the queue was never full of frames; the turns of a session
are those of `Turns`: one at a time, closed by one frame, and ended when
cancelled. Whatever waits for a full queue while owners
and viewers change, each of them gets every event after the one it said it has,
and who has ended neither owns nor watches. A session with an owner is calm once its
attach is over, attention is notified, a denial holds for a session the process
knows. A process object has one child whatever meets at its start lock, and
opens and starts end. The files agree over deaths and deletions. A daemon that
serves is not displaced, and turns get their grace. A client's session hears
everything from its bookmark on.

The exceptions are in the properties themselves, and each is reached:

- `NothingMissed`: not for events whose handing was broken off, by a cancel of
  the turn or because the viewers changed in number (`session.py:189`): who comes
  later in the loop, or the viewers when the owner's queue was the full one,
  never gets them.
- `RingIsNewest`, `LogInOrder`, `ImplementsDelivery`: not once a rebuild has read
  no whole frame of a log that has some (`forgot`): the numbers start over under
  the events that are in the log.
- `NothingCutOff`: not if the client's socket is closed before the queue is
  written. Frames that are put behind the sentinel are not written either.
- `TurnsClose`: not for a turn that is `stray`: `cancel()` suspends in its
  notification, its turn ends, the session may be taken over, and the turn of the
  next prompt is the one it cancels, without a frame (`acp.py:447-457`). Nor for one that is `missed`: its
  task was made, and before it ran a sibling's `ensure_started` cleared the
  sessions (`acp.py:225`), so that it returns at once (`acp.py:410-412`); or a load
  replaced the state, and the turn runs on the new one. And a
  closing frame is handed over at once here; when it waits for a full queue a
  second one may follow, see `ResultIsLast` below.
- `OneTurn`: not for a turn that is `stranded`: of two loads of a session the
  second replaces the state that the first one's turn is on, and a load that is
  refused drops it (`acp.py:343`); or a turn that ran on the state of a load has
  made that one inactive when it ended (`acp.py:443`).
- `TurnsEnd`: not if the state got another turn before the cancel went on.
- `AttentionIsNotified`: a task cancelled in `on_event` sets the flag and never
  fires; nothing of the same reason does later (`session.py:376`). For a session
  that was closed and opened again, what is left of the old object can clear the
  new one's entry.
- `WaitingIsPending`: a request whose session is removed while it is entering
  attention registers its future afterwards, and waits for ever.
- `IdleHasClock`: no clock runs after `profile.start`, after an open that
  failed, or after one that was view-only (`acp.py:579-584`, `session.py:769-771`),
  so that such a process stays.
- `TurnsGetGrace`: not for a turn whose prompt waited for the respawn of its agent
  (`daemon.py:546`) until the connections' five seconds were over: the shutdown
  has chosen by then whom it waits for (`daemon.py:1292-1293`).
- `FilesAgree`, `DeletedIsGone`, `LiveIsRegistered`, `RegistryIsBehind`: not for ids
  in `stray`: the crash fan-out appends to a closed log, which opens and recreates
  it (`event_log.py:79`); close-and-delete unlinks by path and removes by id, also
  when the id has been opened again meanwhile; a death between unlink and save
  leaves a deleted session listed.
- `ServesAlone`: not for daemons that start while another starts or stops: both
  can serve, and save one `registry.json`; the old one unlinks the new one's
  socket at its end.
- `SessionsHear`: not for an id opened while it has another `Session`: the second
  open's error removes the first's registration, and frames under way for the
  old one go to the new.
- `RequestsEnd`: not when the reader failed on a frame over 64 KiB, or after
  `close()`, which fails no pending request.

### Counterexamples

Properties that a document, a comment or the code's own reasoning states, and
that the code does not have. These configurations are kept beside the runs; TLC finds each property violated
with `tlc -workers 2 -config <cfg> <module>`.

| Configuration (of module) | Property | What happens, and what is said of it |
|---|---|---|
| `MCEventStreamLostNotice` (`MCEventStream`) | `NoSilentLoss` | The gap notice comes after the replayed frames (`session.py:250`), and a break in between hides the gap for good. `spec.md:821-823`: it "is emitted before the replay so the client can detect the loss". |
| `MCEventStreamBookmark` (`MCEventStream`) | `BookmarkCovered` | The notice takes a number that is not logged (`session.py:258`); after a rebuild it is given to an event the client's bookmark covers. `acp-migration-spec.md:322-323`: every frame with a `seq` "is appended to the session log". |
| `MCConnectionLeaveDetaches` (`MCConnection`) | `LeaveDetaches` | With a full queue the sentinel is dropped (`daemon.py:188`) and `serve()` waits for a writer loop that waits for it. `spec.md:704-718`: on connection close "The writer attached to each session is unhooked immediately". |
| `MCConnectionSlowConsumerClosed` (`MCConnection`) | `SlowConsumerClosed` | The watchdog marks the connection dead (`daemon.py:998`) and nobody closes it. `spec.md:1593-1595`: "emit `error{code:"slow_consumer"}` and close the connection". |
| `MCAgentProcessKillsAbandoned` (`MCAgentProcess`) | `KillsAbandoned` | `attach` leaves `_finishing` set: a client that comes back during its turn has its backend killed at the end of it; a crash leaves the mark for a later turn. `session.py:204`: "Soft-kill after a completed turn when the client has left". |
| `MCReadersTakenStops` (`MCReaders`) | `TakenStops` | The previous owner's writer is hooked until the next one's attach, which comes after a spawn or two full queues. `daemon.py:1095`: "Events stop flowing here immediately". |
| `MCReadersDriverIsOwner` (`MCReaders`) | `DriverIsOwner` | An attach while an open of the session is in its spawn: the open does not tell it, and both may prompt. `acp-migration-spec.md:352`: "the prior owner gets `session.taken {by_peer_pid?}` and drops to detached". |
| `MCReadersResultIsLast` (`MCReaders`) | `ResultIsLast` | A turn that is cancelled while its result waits for a full queue sends a second result; one whose loop over the viewers raises, an `agent_crashed`. `spec.md:605`: `agent.result` is "Always the last frame for a turn". |
| `MCReadersCloseCloses` (`MCReaders`) | `CloseCloses` | A viewer that comes or goes while the notices wait breaks off the close: the session stays, with an owner that does not count it as owned. `spec.md:900`: "every watcher receives" the notice, and then the session is gone. |
| `MCAgentProcessRunningMeansKnown` (`MCAgentProcess`) | `RunningMeansKnown` | A handle looks alive (`acp.py:557`) after a refused load, a sibling's respawn or a soft-kill, and prompts are refused. `acp.py:276-279`: "The daemon respawns this process on the next ``session.prompt``". |
| `MCAttentionPolicyDecides` (`MCAttention`) | `PolicyDecides` | A session ended on the process while the agent was at its turn gets the fallback, which allows (`acp.py:163-165`). `acp-migration-spec.md:220`: the profile's policy decides. |
| `MCAttentionOutstandingAwaits` (`MCAttention`) | `OutstandingAwaits` | A session removed while it needs attention stays in `status`. `acp-migration-spec.md:469-471`: "one notification payload per session currently awaiting its owner". |
| `MCSupervisorInUseIsRefused` (`MCSupervisor`) | `InUseIsRefused` | A session resumed under another profile's name (`daemon.py:399`) is not seen, and its process is closed. `daemon.py:928-934`: "Refuse to update a profile that still has live sessions". |
| `MCStorageResumeLoads` (`MCStorage`) | `ResumeLoadsRegistered` | The sidecar's agent session id goes before the registry's, and may be older. `daemon.py:417-418`: "from the live session or, across a restart, the persistent registry". |
| `MCStorageReapsUnattached` (`MCStorage`) | `ReapsUnattached` | The reaper's list is older than what it removes. `spec.md:258`: "Unattached sessions reaped". |
| `MCLifecycleStuckCannotPrevent` (`MCLifecycle`) | `StuckCannotPrevent` | `broadcast_shutdown` drains without a limit. `daemon.py:1283-1284`: "so a stuck connection can't prevent the rest of the shutdown sequence from running". |
| `MCLifecycleOneServes` (`MCLifecycle`) | `OneServes` | A second daemon finds the first's socket before it listens, or while it stops, and takes it for stale. `daemon.py:1344`: a socket that connects means "another daemon is live". |
| `MCClientRequestsAlwaysEnd` (`MCClient`) | `RequestsAlwaysEnd` | A request waits on after `close()`, or after the reader failed. |

## What is proved

Every safety property that a run checks is a theorem for every value of the
constants, with the assumptions the module names on them. Each
proof has one invariant, `Inv` or `IInv`, that is stronger than the properties;
a lemma proves it one action at a time, and the theorems follow from it.

**`EventStream_proofs`**, for every set of clients, ring capacity, flag and bound,
and any number of frames that a rebuild reads:

- `TypeCorrect`, `RingNewest`, `LogOrdered`: `[](~forgot => TypeOK)`,
  `[]RingIsNewest`, `[]LogInOrder`, the last two with the exception they name. `RingIsNewest` alone is not inductive: a recovery reads the
  ring from the log, so the invariant also relates log and ring to the counter
  and to the events on record, and bounds the numbers of the frames under way.
- `NoEventUnaccounted`: `[]AccountedFor`. Here the argument is that what a
  client's bookmark covers, together with the frames still in its queue, leaves
  no number out: frames of a queue need not be in order, so the invariant speaks
  of every prefix of what a client is still to get.
- `StreamDelivers`: `Spec => ImplementsDelivery`, the refinement. Until a rebuild
  forgets the log, each action of
  `EventStream` is a step of `EventDelivery` under the mapping, or a stutter. It
  needs `DownIsGone`: a connection that is down neither owns nor watches, so
  that an event puts nobody in debt who cannot be told.

**`AgentProcess_proofs`**, for every set of sessions and connections, and every
number of turns, starts and loads:

- `TypeCorrect`, `EveryTurnIsClosed` (`TurnsClose`), `OneTurnAtATime` (`OneTurn`):
  all three invariants of the runs `turns` and `takeover`.
- `TurnsAsPromised`: `Spec => ImplementsTurns`, the refinement. Each of the 23
  actions is a step of `Turns` under the mapping, or a stutter.
- How a turn is closed is a matter of each turn by itself (`Sound`): what its
  task has reported so far is what its phase says. In the same way `Moves` and
  `Goes` say once what any step may make of one turn, and each action is shown
  to make no more of any.
- That there is one turn is a chain from the session to it: a session is known
  by one state (`OneKnows`), a state has one turn (`OwnState`) and is the turn's
  own session's (`ItsSession`), and a turn with its process and its state is the
  one that the session's next prompt finds (`Backed`). Hence a turn whose task does
  not find its state is one that its session let go of (`MissedLetGo`), and what it
  reads instead is another's, while its own state is known of no session
  (`ElsewhereIfAstray`).
- That a stray cancel was meant for an earlier turn of the same session
  (`StrayFollows`) needs a fact about the handlers that are suspended:
  the state that a cancel will look at belongs to the session of a turn that was
  cancelled, and has no turn older than it (`CancelFollows`). And a turn that
  was told of a crash is not held any more (`ToldAreLost`).

**`Attention_proofs`**, for every set of connections, requests, events, policies,
armings and offers, and every number of objects:

- `TypeCorrect`, `AttendedCalm`, `RequestsPending`, `AttentionNotified`,
  `DenialHolds`: all five properties of the run `attention`. The invariant adds
  three facts that none of them says. `Decided`: a request that is answered has
  a future that was set, so that what the agent gets, and what is remembered,
  has its type. `Backed`: the process knows the session only while it is in the
  table, so that a relayed request belongs to the newest object. `Placed`: each
  handler and attach is of an object that was made, has a reason when it fires,
  and a request that enters attention has stalled; without it a handler could
  clear, or notify for, an object that is only made later.

**`Readers_proofs`**, for any finite sets of owners and viewers, and any tasks,
events and full queues. `FiniteAssumption` is needed because the loop over
the viewers notices a change by their number (`session.py:189`):

- `TypeCorrect`, `EventsArrive` (`NothingMissed`), `GoneReadNothing` (`NoGhosts`),
  and `CloseTellsAll` (`CloseTells`): a close that removes the session has told
  every viewer it has then. No run checks `TypeOK` and `CloseTells`.
- The invariant needs more about the owner than the property says
  (`OwnerServed`): it is served by the task's own put, not by being a viewer too,
  since it could be detached as a viewer and stay owner.
  `Numbered`, `Waiting`, `Current`, `Resting`: an event that is handed has a
  number that was given out, a suspended loop waits for a connection, what is due
  is due to a connection that is served, and no handler is suspended where the
  connection has ended.
- The theorems hold without the constraint `InTable` of the run: the removed
  session is included.

**`Supervisor_proofs`**, for every set of profiles and clients and every number of
process objects:

- `TypeCorrect`, `OneChildEach`, `IdleClocked`: all three properties of the run
  `supervisor`, and `ProfilesPersist`, the invariant of the run `opens_end`.
  `TypeOK` says only that `children` is a natural number; that it is at most one
  is `OneChild`. It needs that who starts a child holds the lock of its object,
  and that there is none when it starts one (`Holds`).
- An unused running process that nobody works on is `Exposed`, and the invariant
  is that it is in `idle`, unless it was last used by a `profile.start`, or an open that made
  no session. Handlers that wait are what makes it hard: who closes
  an object for a stop, an update or a delete has taken it out of its slot
  (`Removed`), a slot has a process of its own name (`Placed`), and the reaper
  knows whose process it closes (`ReaperKnows`), so that no clock is stopped for
  another's process. Each action is a `Step`: all but the handlers it is of keep
  their locks, and hear at most that a connection is gone.

**`Storage_proofs`**, for every set of ids and connections, and every number of
objects, turns and deaths:

- `TypeCorrect`, `CounterAndLogAgree` (`FilesAgree`), `DeletesHold`
  (`DeletedIsGone`), `OpenedAreListed` (`LiveIsRegistered`), `RegistryFollows`
  (`RegistryIsBehind`): all five properties of the run `storage`.
- Files are by id and objects are not, so the invariant (`Files`) speaks per id
  of its newest object, whether the table has it or not. An object that was
  removed still matters: a turn that ends late writes with it. Unless the id is
  `stray`, its newest object has the counter of the sidecar and its log is the
  one on disk, or it is closed (`LastIsCurrent`); the results in the log are
  counted (`Counted`), the registry has the session (`Registered`) and is behind
  (`Behind`), and a deleted id has nothing on disk (`Erased`).
- `Suspensions` and `Others` are what makes that inductive: a handler or a reaper
  that waits in a close has taken its object out of the table first
  (`session.py:799`), so that no open can get an object that is being closed.
  `Papers`: what is on disk of the registry is what is in memory, at each await.

**`Daemon_proofs`**, for every number of senders and every capacity:

- `ConnTypeCorrect` (the queue never exceeds its capacity, also when suspended
  senders wake) and `NothingIsCutOff` (`NothingCutOff`), from `Sentinel`: nothing
  is in the queue behind the sentinel but what came too late, and a writer loop
  that is done with a client that is there has found it, so that it has written
  all that was before;

and for every set of daemons, connections and turns:

- `TypeCorrect`, with `ToldAreOpen`: the connections that a shutdown is yet to tell
  are its own, and served.
- `OneDaemonServes` (`ServesAlone`), from `Orderly`: while no start has overlapped
  with another start or a stop, no two daemons are starting or stopping, beside
  one that serves there is none but one that has only begun and will find it,
  and who listens or serves has the socket.
- `GraceIsGiven` (`TurnsGetGrace`, an action property): the turns a shutdown does
  not wait for, and may end before its grace is over, are those whose prompt was
  in a respawn when it chose (`Disjoint`, `Graced`). That no other turn starts
  then is `Served`: a loop that still reads is of a daemon that serves, or is yet
  to be told; who has been told reads at most until the connections' time is
  over.

**`Client_proofs`**, for every set of tasks and ids, and every number of requests
and events:

- `TypeCorrect`, and `RequestsMatch` (`Consistent`), without which it is not
  inductive: no two tasks share a request, only an open is answered as one, and
  the `Session` under an id, and what is asked and said of an open of it, go back
  to an open of that id.
- `EverySessionHears` (`SessionsHear`). The invariant (`Tidy`) is about an id that
  is not `mixed`: who holds its `Session` is the one registered (`HolderListens`),
  one open of it is under way at most (`OneAsk`), and begins with nothing under
  way for the id (`OpensFresh`), so that the frames of the id that the reader has
  to come, behind those the session has, are the events from its bookmark on,
  without a gap (`Follows`). An id becomes `mixed` by an open of an id that has a
  `Session` or frames under way. There the property fails in the code: the second
  open's error removes the first's registration, and old frames reach the new
  `Session`.

Only model-checked:

- liveness, which is beyond the proof system: `Drains`, `SlowConsumerNoticed`,
  `ClosesUncrowded` (`Connection`), `TurnsEnd` (`AgentProcess`), `OpensEnd`
  (`Supervisor`), `StopsWhenRead` (`Lifecycle`), `RequestsEnd`
  (`Client`).

## Not modelled

- Protocol parsing, errors and schemas: stateless conversions of one message,
  whose data the models abstract.
- The backend interface: a protocol class without state.
- Configuration, logging, the command line, the benchmark and the scripts: read
  once at start, or I/O around the client library.
- `notify.test` and the webhook's rendering and transport; mode and model
  selection and the content of the agent's updates: data that is passed on.

## What is left

1. `Turns` with liveness (a turn that is asked to cancel, or let go of, ends), of
   which `TurnsEnd` is the part that is checked on one session.
2. Turns that hand over their closing frame in steps, as `Readers` has them, in
   `AgentProcess` too, where handlers may cancel them in between.
