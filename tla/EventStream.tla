----------------------------- MODULE EventStream -----------------------------
(***************************************************************************)
(* The event stream of one session: the sequence numbers, the in-memory    *)
(* ring and the durable log behind them, the owner's and the viewers'      *)
(* writers, replay on attach with its gap notice, and the bookmark a       *)
(* client keeps to catch up after its connection broke or the daemon was   *)
(* restarted.                                                              *)
(*                                                                         *)
(* Sources: session.py (Session.on_event, attach, add_watcher,             *)
(* detach_writer, enable_durable_log), event_log.py, the parts of          *)
(* daemon.py that call them, and client.py's bookmark.                     *)
(*                                                                         *)
(* A frame is what the daemon sends for the session with a `seq`: an event *)
(* (recorded in the ring and the log) or a replay_gap notice (not          *)
(* recorded).  Its contents are abstracted to the sequence numbers it lets *)
(* its reader account for.                                                 *)
(*                                                                         *)
(* Queues stay below MaxQueue here, so a send never waits and one frame    *)
(* goes to all its readers in one step; module Connection has the full     *)
(* queue.  Frames that the session emits about itself (needs_attention,    *)
(* attention_cleared, request_permission) are events like any other.       *)
(***************************************************************************)
EXTENDS Integers, Sequences, FiniteSets

CONSTANTS
  Clients,       (* client programs, each with at most one live connection *)
  NoOwner,       (* no connection drives the session                       *)
  LiveOnly,      (* the viewer's request without last_seen_seq             *)
  RingCapacity,  (* ring_buffer_size                                       *)
  Durable,       (* whether an event log directory is configured           *)
  DiskMayFail,   (* whether an append to the log may raise OSError         *)
  MaxSeq,        (* bound: sequence numbers                                *)
  MaxQueue,      (* bound: frames under way on one connection              *)
  MaxRecoveries  (* bound: times the session is rebuilt from its log       *)

ASSUME ClientsAssumption == NoOwner \notin Clients
ASSUME LiveOnlyAssumption == LiveOnly \notin Nat
ASSUME CapacityAssumption == RingCapacity \in Nat \ {0}
ASSUME FlagsAssumption == Durable \in BOOLEAN /\ DiskMayFail \in BOOLEAN
ASSUME BoundsAssumption ==
  MaxSeq \in Nat /\ MaxQueue \in Nat /\ MaxRecoveries \in Nat

VARIABLES
  seq,         (* Session.seq: the last number given out                   *)
  ring,        (* Session.ring: numbers of the buffered events             *)
  log,         (* the lines of <session_id>.jsonl                          *)
  owner,       (* Session.connection_id and _writer, which move together   *)
  watchers,    (* Session._watchers                                        *)
  conn,        (* "up"; "closing": the peer is gone and serve() is about   *)
               (* to detach it (its _alive is False); "down": none         *)
  chan,        (* frames on their way to the client: queue and socket      *)
  lastSeq,     (* the client's Session.last_seq                            *)
  told,        (* history: numbers a client has been shown or told of      *)
  lostNotice,  (* history: numbers whose notice died with a connection     *)
  emitted,     (* history: the events this Session object has on record    *)
  recoveries,  (* history: times the session was rebuilt                   *)
  forgot       (* history: a rebuild found no whole frame in what it read  *)
               (* of a log that has some                                   *)

session == <<seq, ring, log, owner, watchers, emitted, recoveries, forgot>>
client  == <<conn, chan, lastSeq, told, lostNotice>>
vars    == <<session, client>>

Items(s) == {s[i] : i \in DOMAIN s}

(***************************************************************************)
(* Frames                                                                  *)
(***************************************************************************)
Event(n) == [kind |-> "event", seq |-> n, covers |-> {n}]

(* replay_gap: everything between since_seq and first_available_seq is     *)
(* gone.                                                                   *)
Gap(n, since, first) ==
  [kind |-> "replay_gap", seq |-> n, covers |-> (since + 1)..(first - 1)]

Frame ==
  [kind : {"event", "replay_gap"}, seq : 1..MaxSeq, covers : SUBSET Nat]

(* The numbers announced as gone by the notices of a queue.                *)
Announced(q) ==
  UNION {f.covers : f \in {g \in Items(q) : g.kind = "replay_gap"}}

(***************************************************************************)
(* RingBuffer and DurableEventLog                                          *)
(***************************************************************************)
(* Mutant: the oldest n lines.                                             *)
FirstN(s, n) == IF Len(s) <= n THEN s ELSE SubSeq(s, 1, n)

(* DurableEventLog.tail: the newest n lines.                               *)
LastN(s, n) == IF Len(s) <= n THEN s ELSE SubSeq(s, Len(s) - n + 1, Len(s))

(* Mutant: a full ring grows.                                              *)
RingAppendUnbounded(r, n) == Append(r, n)

(* Mutant: a full ring keeps what it has.                                  *)
RingAppendKeepOld(r, n) == IF Len(r) < RingCapacity THEN Append(r, n) ELSE r

(* RingBuffer.append: the deque drops its oldest element when it is full.  *)
RingAppend(r, n) ==
  IF Len(r) < RingCapacity THEN Append(r, n) ELSE Append(Tail(r), n)

Increasing(s) == \A i, j \in DOMAIN s : i < j => s[i] < s[j]

(* RingBuffer.since: the frames with a higher number.  In a ring that is   *)
(* in order they are the ones after the frames that are not higher.        *)
Since(r, seen) ==
  IF Increasing(r)
    THEN SubSeq(r, Cardinality({i \in 1..Len(r) : r[i] <= seen}) + 1, Len(r))
  ELSE SelectSeq(r, LAMBDA n : n > seen)

(* Mutant: a single missing frame is overlooked.                           *)
RolledPastByTwo(r, seen) == Len(r) > 0 /\ Head(r) > seen + 2

(* Whether frames older than the ring's first were dropped after `seen`.   *)
RolledPast(r, seen) == Len(r) > 0 /\ Head(r) > seen + 1

(***************************************************************************)
(* Sending                                                                 *)
(***************************************************************************)
Up(c) == conn[c] = "up"

(* The frames an event becomes on c's connection: one as owner and one as  *)
(* viewer.  A connection that is not alive discards what it is given.      *)
Copies(c, n) ==
  IF ~Up(c) THEN <<>>
  ELSE (IF owner = c THEN <<Event(n)>> ELSE <<>>)
       \o (IF c \in watchers THEN <<Event(n)>> ELSE <<>>)

QueuesBounded == \A c \in Clients : Len(chan'[c]) <= MaxQueue

-----------------------------------------------------------------------------
Init ==
  /\ seq = 0
  /\ ring = <<>>
  /\ log = <<>>
  /\ owner = NoOwner
  /\ watchers = {}
  /\ conn = [c \in Clients |-> "down"]
  /\ chan = [c \in Clients |-> <<>>]
  /\ lastSeq = [c \in Clients |-> 0]
  /\ told = [c \in Clients |-> {}]
  /\ lostNotice = [c \in Clients |-> {}]
  /\ emitted = {}
  /\ recoveries = 0
  /\ forgot = FALSE

(***************************************************************************)
(* Session.on_event: number the frame, record it, hand it to the owner and *)
(* to every viewer.  An append that raises OSError is swallowed.           *)
(***************************************************************************)
OnEvent ==
  /\ seq + 1 <= MaxSeq
  /\ seq' = seq + 1
  /\ ring' = RingAppend(ring, seq + 1)
  /\ \/ Durable /\ log' = Append(log, seq + 1)
     \/ (Durable => DiskMayFail) /\ log' = log
  /\ chan' = [c \in Clients |-> chan[c] \o Copies(c, seq + 1)]
  /\ QueuesBounded
  /\ emitted' = emitted \cup {seq + 1}
  /\ UNCHANGED <<owner, watchers, recoveries, forgot, conn, lastSeq, told, lostNotice>>

(* Mutant: a notice only when there is nothing to replay.                  *)
NoticeIfNothing(seen) ==
  IF Since(ring, seen) = <<>> /\ seq > seen
    THEN <<Gap(seq + 1, seen, seq + 2)>>
  ELSE <<>>

(***************************************************************************)
(* Session.attach: become the owner, get the buffered frames, then a       *)
(* notice of what the ring no longer has.  The notice takes a number but   *)
(* is not recorded.  (attention_cleared, which attach sends last, is an    *)
(* OnEvent.)  A client names its bookmark; without one the daemon reads 0. *)
(***************************************************************************)
Notice(seen) ==
  IF RolledPast(ring, seen)
    THEN <<Gap(seq + 1, seen, Head(ring))>>
  ELSE IF Since(ring, seen) = <<>> /\ seq > seen
    THEN <<Gap(seq + 1, seen, seq + 2)>>
  ELSE <<>>

Replay(seen) == [i \in 1..Len(Since(ring, seen)) |-> Event(Since(ring, seen)[i])]

Attach(c, seen) ==
  /\ Up(c)
  /\ seq + 1 <= MaxSeq
  /\ owner' = c
  /\ seq' = seq + Len(Notice(seen))
  /\ chan' = [chan EXCEPT ![c] = @ \o Replay(seen) \o Notice(seen)]
  /\ QueuesBounded
  /\ UNCHANGED <<ring, log, watchers, emitted, recoveries, forgot,
                 conn, lastSeq, told, lostNotice>>

(***************************************************************************)
(* Session.add_watcher: the same for a viewer, without the second kind of  *)
(* notice, and with no replay at all when it names no bookmark: it then    *)
(* chooses not to be told of the past.                                     *)
(***************************************************************************)
WatchNotice(seen) ==
  IF RolledPast(ring, seen) THEN <<Gap(seq + 1, seen, Head(ring))>> ELSE <<>>

Watch(c, seen) ==
  /\ Up(c)
  /\ watchers' = watchers \cup {c}
  /\ \/ /\ seen = LiveOnly
        /\ told' = [told EXCEPT ![c] = @ \cup 1..seq]
        /\ UNCHANGED <<seq, chan>>
     \/ /\ seen # LiveOnly
        /\ seq + 1 <= MaxSeq
        /\ seq' = seq + Len(WatchNotice(seen))
        /\ chan' = [chan EXCEPT ![c] = @ \o Replay(seen) \o WatchNotice(seen)]
        /\ UNCHANGED told
  /\ QueuesBounded
  /\ UNCHANGED <<ring, log, owner, emitted, recoveries, forgot, conn, lastSeq, lostNotice>>

(* session.detach: the owner's writer is unhooked, or else the viewer's.   *)
Detach(c) ==
  /\ Up(c)
  /\ \/ owner = c /\ owner' = NoOwner /\ UNCHANGED watchers
     \/ owner # c /\ c \in watchers /\ watchers' = watchers \ {c} /\ UNCHANGED owner
  /\ UNCHANGED <<seq, ring, log, emitted, recoveries, forgot, client>>

(***************************************************************************)
(* Connections and clients                                                 *)
(***************************************************************************)
Connect(c) ==
  /\ conn[c] = "down"
  /\ conn' = [conn EXCEPT ![c] = "up"]
  /\ UNCHANGED <<session, chan, lastSeq, told, lostNotice>>

(* The client takes the next frame and moves its bookmark forward.         *)
Deliver(c) ==
  /\ chan[c] # <<>>
  /\ LET f == Head(chan[c]) IN
       /\ lastSeq' = [lastSeq EXCEPT ![c] = IF f.seq > @ THEN f.seq ELSE @]
       /\ told' = [told EXCEPT ![c] = @ \cup f.covers]
  /\ chan' = [chan EXCEPT ![c] = Tail(@)]
  /\ UNCHANGED <<session, conn, lostNotice>>

(* The connection breaks: what was under way is gone, and serve() has yet  *)
(* to detach the session.                                                  *)
Break(c) ==
  /\ Up(c)
  /\ conn' = [conn EXCEPT ![c] = "closing"]
  /\ lostNotice' = [lostNotice EXCEPT ![c] = @ \cup Announced(chan[c])]
  /\ chan' = [chan EXCEPT ![c] = <<>>]
  /\ UNCHANGED <<session, lastSeq, told>>

(* serve()'s finally clause: detach what this connection still owns and    *)
(* drop its subscriptions.                                                 *)
Unserve(c) ==
  /\ conn[c] = "closing"
  /\ conn' = [conn EXCEPT ![c] = "down"]
  /\ owner' = IF owner = c THEN NoOwner ELSE owner
  /\ watchers' = watchers \ {c}
  /\ UNCHANGED <<seq, ring, log, emitted, recoveries, forgot, chan, lastSeq, told, lostNotice>>

(* Mutant: the number of frames for the number of the last.                *)
NumberOfFrames(r) == Len(r)

(* The last number of a restored ring (enable_durable_log): 0 for none. *)
LastNumber(r) == IF r = <<>> THEN 0 ELSE r[Len(r)]

(***************************************************************************)
(* Recovery: a new Session object for the same session_id, its ring seeded *)
(* from the log's tail and its counter from the ring's newest frame        *)
(* (enable_durable_log).  What is read of the log is its last 256 KiB,     *)
(* which may hold any number of whole frames: none if its last line is     *)
(* longer than that.                                                       *)
(***************************************************************************)
Rebuild(k) ==
  /\ recoveries < MaxRecoveries
  /\ recoveries' = recoveries + 1
  /\ ring' = LastN(log, k)
  /\ seq' = LastNumber(ring')
  /\ emitted' = Items(log)
  /\ forgot' = (forgot \/ (k = 0 /\ log # <<>>))
  /\ owner' = NoOwner
  /\ watchers' = {}
  /\ UNCHANGED log

(* The session was closed or reaped, and session.open resumes it.          *)
Reopen(k) ==
  /\ Rebuild(k)
  /\ UNCHANGED client

(* The daemon stopped, and session.open resumes the session in the next.   *)
Restart(k) ==
  /\ Rebuild(k)
  /\ conn' = [c \in Clients |-> "down"]
  /\ lostNotice' = [c \in Clients |-> lostNotice[c] \cup Announced(chan[c])]
  /\ chan' = [c \in Clients |-> <<>>]
  /\ UNCHANGED <<lastSeq, told>>

Next ==
  \/ OnEvent
  \/ \E c \in Clients : \E seen \in {0, lastSeq[c]} : Attach(c, seen)
  \/ \E c \in Clients : \E seen \in {0, lastSeq[c], LiveOnly} : Watch(c, seen)
  \/ \E c \in Clients : Detach(c)
  \/ \E c \in Clients : Connect(c)
  \/ \E c \in Clients : Deliver(c)
  \/ \E c \in Clients : Break(c)
  \/ \E c \in Clients : Unserve(c)
  \/ \E k \in 0..RingCapacity : Reopen(k)
  \/ \E k \in 0..RingCapacity : Restart(k)

Spec == Init /\ [][Next]_vars

-----------------------------------------------------------------------------
(* Every variable has its type; the ring stays within its capacity.        *)
TypeOK ==
  /\ seq \in 0..MaxSeq
  /\ ring \in Seq(1..MaxSeq) /\ Len(ring) <= RingCapacity
  /\ log \in Seq(1..MaxSeq)
  /\ owner \in Clients \cup {NoOwner}
  /\ watchers \subseteq Clients
  /\ conn \in [Clients -> {"up", "closing", "down"}]
  /\ chan \in [Clients -> Seq(Frame)]
  /\ lastSeq \in [Clients -> 0..MaxSeq]
  /\ told \in [Clients -> SUBSET Nat]
  /\ lostNotice \in [Clients -> SUBSET Nat]
  /\ emitted \subseteq 1..MaxSeq
  /\ recoveries \in 0..MaxRecoveries /\ forgot \in BOOLEAN

(* The ring holds the newest of the events on record, in order, and at     *)
(* least one if there are any: what it lacks is older than what it has, so *)
(* its first number alone says what replay can no longer show              *)
(* (session.py:257, earliest_seq).  The exception: once a rebuild has read *)
(* no whole frame of a log (event_log.py:92-100), the ring is empty and    *)
(* the numbers start over.                                                 *)
RingIsNewest ==
  ~forgot =>
    /\ Increasing(ring)
    /\ Items(ring) \subseteq emitted
    /\ \A m \in emitted \ Items(ring) : \A n \in Items(ring) : m < n
    /\ emitted # {} => ring # <<>>

(* The log is in order across every rebuild of the session, and the        *)
(* counter is at or past its last line: an append never repeats a number   *)
(* (session.py:569-586).  The same exception: the counter starts over when *)
(* a rebuild reads no whole frame of the log.                              *)
LogInOrder ==
  ~forgot =>
    /\ Increasing(log)
    /\ \A n \in Items(log) : n <= seq

(***************************************************************************)
(* Replay.  All a client keeps is its bookmark, the highest number it got. *)
(***************************************************************************)

(* The end-to-end promise: a client has been shown, or told of the loss    *)
(* of, every event up to its bookmark.  attach sends the notice after the  *)
(* frames, so a connection that breaks in between breaks it (see README).  *)
NoSilentLoss ==
  \A c \in Clients : \A n \in emitted : n <= lastSeq[c] => n \in told[c]

(* What does hold as long as the session lives: the only events below the  *)
(* bookmark that a client does not know of are those whose notice is still *)
(* under way or died with one of its connections (session.py:225-334).     *)
AccountedFor ==
  recoveries = 0 =>
    \A c \in Clients : \A n \in emitted :
      n <= lastSeq[c] => n \in told[c] \cup lostNotice[c] \cup Announced(chan[c])

(* A client's bookmark is a number the session has given out, before and   *)
(* after every recovery: else the next events that get the numbers up to   *)
(* it are never replayed to that client.                                   *)
BookmarkCovered == \A c \in Clients : lastSeq[c] <= seq

(* The stream is an EventDelivery: a client is owed what the frames on     *)
(* their way to it cover.                                                  *)
Delivery == INSTANCE EventDelivery WITH
  Events     <- 1..MaxSeq,
  history    <- emitted,
  subscribed <- {c \in Clients : Up(c) /\ (owner = c \/ c \in watchers)},
  owed       <- [c \in Clients |-> UNION {f.covers : f \in Items(chan[c])}],
  bookmark   <- lastSeq

(* Attach and add_watcher leave no event out: every step of the stream is  *)
(* a step of EventDelivery or changes nothing it speaks of.  The exception *)
(* is a stream whose numbers started over, because a rebuild read no whole *)
(* frame of its log: what it sends from then on is not an EventDelivery.   *)
ImplementsDelivery ==
  Delivery!Init /\ [][forgot' \/ Delivery!Next]_(Delivery!vars)
=============================================================================
