----------------------------- MODULE Connection -----------------------------
(***************************************************************************)
(* One client connection of the daemon: the bounded queue between the      *)
(* tasks that produce frames and the task that writes them, the read loop, *)
(* the watchdog that looks for a slow consumer, and the end of serve().    *)
(*                                                                         *)
(* Source: daemon.py, class Connection.  Four kinds of task share the      *)
(* connection: serve() itself (the read loop and the clean-up), the writer *)
(* loop, the watchdog, and the tasks of the agents whose sessions this     *)
(* connection owns (Session.on_event awaits the connection's queue).       *)
(*                                                                         *)
(* A task runs until it awaits something that is not ready, so a step is   *)
(* the code between two such awaits: a put into a full queue, a drain of a *)
(* socket whose buffers are full, a read.  Frames are not told apart,      *)
(* except for the None that tells the writer loop to end, and those that   *)
(* come too late, once serve() cleans up.                                  *)
(*                                                                         *)
(* ConnInit, ConnNext and the like are so called because Daemon_proofs     *)
(* extends this module together with Lifecycle.                            *)
(***************************************************************************)
EXTENDS Naturals, Sequences

CONSTANTS
  Senders,   (* agent tasks that deliver events to this connection         *)
  Capacity   (* _CONNECTION_QUEUE_SIZE                                     *)

ASSUME CapacityAssumption == Capacity \in Nat \ {0}

VARIABLES
  queue,     (* Connection._queue                                          *)
  alive,     (* Connection._alive                                          *)
  attached,  (* whether its sessions still have this connection as writer  *)
  senders,   (* senders[s]: "idle", or "waiting" to put into a full queue  *)
  serve,     (* where serve() is                                           *)
  writer,    (* where the writer loop is                                   *)
  watchdog,  (* where the watchdog is                                      *)
  stale,     (* whether _writer_last_progress is over 30 s old             *)
  peer,      (* "reads"; "stalls": the socket's buffers are full;          *)
             (* "gone": both directions are closed                         *)
  hungUp     (* whether the client has closed its sending side             *)

tasks    == <<senders, serve, writer, watchdog>>
connVars == <<queue, alive, attached, tasks, stale, peer, hungUp>>

Frame == "frame"
Late  == "late"
Stop  == "None"

Full == Len(queue) = Capacity

(* serve() is in its finally clause, or has been.                          *)
Ending == serve \in {"stopping", "cancelling", "detaching", "closed"}

(* A sender's put.                                                         *)
Put == queue' = Append(queue, IF Ending THEN Late ELSE Frame)

-----------------------------------------------------------------------------
ConnInit ==
  /\ queue = <<>>
  /\ alive = TRUE
  /\ attached = FALSE
  /\ senders = [s \in Senders |-> "idle"]
  /\ serve = "handshake"
  /\ writer = "get"
  /\ watchdog = "asleep"
  /\ stale = FALSE
  /\ peer = "reads"
  /\ hungUp = FALSE

(***************************************************************************)
(* Producers.  _emit_frame drops the frame of a connection that is not     *)
(* alive; a put that has to wait does not look at _alive again.            *)
(***************************************************************************)
SendEvent(s) ==
  /\ attached /\ alive
  /\ senders[s] = "idle"
  /\ IF Full
       THEN senders' = [senders EXCEPT ![s] = "waiting"] /\ UNCHANGED queue
       ELSE Put /\ UNCHANGED senders
  /\ UNCHANGED <<alive, attached, serve, writer, watchdog, stale, peer, hungUp>>

(* Mutant: once woken, a put does not look again whether there is room.    *)
SenderResumesBlindly(s) ==
  /\ senders[s] = "waiting"
  /\ Put
  /\ senders' = [senders EXCEPT ![s] = "idle"]
  /\ UNCHANGED <<alive, attached, serve, writer, watchdog, stale, peer, hungUp>>

SenderResumes(s) ==
  /\ senders[s] = "waiting"
  /\ ~Full
  /\ Put
  /\ senders' = [senders EXCEPT ![s] = "idle"]
  /\ UNCHANGED <<alive, attached, serve, writer, watchdog, stale, peer, hungUp>>

(***************************************************************************)
(* The writer loop: take a frame, write it, wait for the socket.           *)
(***************************************************************************)
WriterTakes ==
  /\ writer = "get"
  /\ queue # <<>>
  /\ queue' = Tail(queue)
  /\ writer' = IF Head(queue) = Stop THEN "done" ELSE "drain"
  /\ UNCHANGED <<alive, attached, senders, serve, watchdog, stale, peer, hungUp>>

(* Mutant: the loop ends after a frame.                                    *)
WriterSendsOne ==
  /\ writer = "drain" /\ peer = "reads"
  /\ writer' = "done"
  /\ stale' = FALSE
  /\ UNCHANGED <<queue, alive, attached, senders, serve, watchdog, peer, hungUp>>

WriterSent ==
  /\ writer = "drain" /\ peer = "reads"
  /\ writer' = "get"
  /\ stale' = FALSE
  /\ UNCHANGED <<queue, alive, attached, senders, serve, watchdog, peer, hungUp>>

(* ConnectionError: the loop ends and nothing takes frames any more.       *)
WriterFails ==
  /\ writer = "drain" /\ peer = "gone"
  /\ writer' = "done"
  /\ UNCHANGED <<queue, alive, attached, senders, serve, watchdog, stale, peer, hungUp>>

(***************************************************************************)
(* serve(): handshake, read loop, clean-up.                                *)
(***************************************************************************)
(* Mutant: no sentinel for the writer loop.                                *)
CleanUpSilently ==
  /\ serve' = "stopping"
  /\ alive' = FALSE
  /\ UNCHANGED queue

(* The finally clause up to its first await: the sentinel is dropped if    *)
(* the queue is full.                                                      *)
CleanUp ==
  /\ serve' = "stopping"
  /\ alive' = FALSE
  /\ queue' = IF Full THEN queue ELSE Append(queue, Stop)

(* A good hello lets the client open and attach sessions.                  *)
Handshake ==
  /\ serve = "handshake"
  /\ \/ serve' = "reading" /\ attached' = TRUE /\ UNCHANGED <<alive, queue>>
     \/ CleanUp /\ UNCHANGED attached
  /\ UNCHANGED <<senders, writer, watchdog, stale, peer, hungUp>>

(* A request comes in and is answered.  The loop looks at _alive before it *)
(* reads: one more request is handled after it became FALSE, its answer    *)
(* dropped, and then the loop ends.                                        *)
Request ==
  /\ serve = "reading"
  /\ peer # "gone" /\ ~hungUp
  /\ \/ alive /\ ~Full /\ queue' = Append(queue, Frame) /\ UNCHANGED <<serve, alive>>
     \/ alive /\ Full  /\ serve' = "replying" /\ UNCHANGED <<queue, alive>>
     \/ ~alive /\ CleanUp
  /\ UNCHANGED <<attached, senders, writer, watchdog, stale, peer, hungUp>>

(* The answer gets its place in the queue.                                 *)
ReplyResumes ==
  /\ serve = "replying"
  /\ ~Full
  /\ queue' = Append(queue, Frame)
  /\ serve' = "replied"
  /\ UNCHANGED <<alive, attached, senders, writer, watchdog, stale, peer, hungUp>>

(* Back at the head of the loop.                                           *)
ReadNext ==
  /\ serve = "replied"
  /\ \/ alive /\ serve' = "reading" /\ UNCHANGED <<alive, queue>>
     \/ ~alive /\ CleanUp
  /\ UNCHANGED <<attached, senders, writer, watchdog, stale, peer, hungUp>>

(* End of file, or a connection error.                                     *)
EndOfInput ==
  /\ serve = "reading"
  /\ peer = "gone" \/ hungUp
  /\ CleanUp
  /\ UNCHANGED <<attached, senders, writer, watchdog, stale, peer, hungUp>>

(* _emit_fatal for a frame that is too large: the error frame goes to the  *)
(* socket past the queue, and waits for its buffers.                       *)
Oversize ==
  /\ serve = "reading"
  /\ peer # "gone" /\ ~hungUp
  /\ serve' = "fatal"
  /\ alive' = FALSE
  /\ UNCHANGED <<queue, attached, senders, writer, watchdog, stale, peer, hungUp>>

FatalSent ==
  /\ serve = "fatal" /\ peer # "stalls"
  /\ CleanUp
  /\ UNCHANGED <<attached, senders, writer, watchdog, stale, peer, hungUp>>

(* Mutant: the clean-up cancels the watchdog, and waits for no writer.     *)
CancelsAtOnce ==
  /\ serve = "stopping"
  /\ watchdog' = IF watchdog = "done" THEN "done" ELSE "cancelled"
  /\ serve' = "cancelling"
  /\ UNCHANGED <<queue, alive, attached, senders, writer, stale, peer, hungUp>>

(* The rest of the clean-up, one await after the other: the writer loop    *)
(* has ended, and the watchdog is cancelled; ...                           *)
Cancels ==
  /\ serve = "stopping"
  /\ writer = "done"
  /\ watchdog' = IF watchdog = "done" THEN "done" ELSE "cancelled"
  /\ serve' = "cancelling"
  /\ UNCHANGED <<queue, alive, attached, senders, writer, stale, peer, hungUp>>

(* ... the watchdog has ended, and the sessions are detached; ...          *)
Detaches ==
  /\ serve = "cancelling"
  /\ watchdog = "done"
  /\ serve' = "detaching"
  /\ UNCHANGED <<queue, alive, attached, senders, writer, watchdog, stale, peer, hungUp>>

(* ... which may wait for an agent.                                        *)
Detached ==
  /\ serve = "detaching"
  /\ attached' = FALSE
  /\ serve' = "closed"
  /\ UNCHANGED <<queue, alive, senders, writer, watchdog, stale, peer, hungUp>>

(***************************************************************************)
(* The watchdog.  The clock of its 30 s runs from the last frame that was  *)
(* written, so it also runs while there is nothing to write; time passes   *)
(* only when the writer loop has nothing it could do.                      *)
(***************************************************************************)
WriterReady ==
  \/ writer = "get" /\ queue # <<>>
  \/ writer = "drain" /\ peer # "stalls"

TimePasses ==
  /\ ~stale
  /\ ~WriterReady
  /\ stale' = TRUE
  /\ UNCHANGED <<queue, alive, attached, tasks, peer, hungUp>>

(* Mutant: the queue's length is compared with the wrong number.           *)
WatchdogFiresOverfull ==
  /\ watchdog = "asleep"
  /\ Len(queue) > Capacity /\ stale
  /\ alive' = FALSE
  /\ watchdog' = "fatal"
  /\ UNCHANGED <<queue, attached, senders, serve, writer, stale, peer, hungUp>>

(* _emit_fatal: the connection is marked dead; nothing tells serve().      *)
(* _alive is looked at before the sleep, and not after it.                 *)
WatchdogFires ==
  /\ watchdog = "asleep"
  /\ Full /\ stale
  /\ alive' = FALSE
  /\ watchdog' = "fatal"
  /\ UNCHANGED <<queue, attached, senders, serve, writer, stale, peer, hungUp>>

WatchdogEnds ==
  /\ \/ watchdog = "asleep" /\ ~alive /\ ~(Full /\ stale)
     \/ watchdog = "fatal" /\ peer # "stalls"
     \/ watchdog = "cancelled"
  /\ watchdog' = "done"
  /\ UNCHANGED <<queue, alive, attached, senders, serve, writer, stale, peer, hungUp>>

(***************************************************************************)
(* The client, and the daemon's shutdown (broadcast_shutdown: an error     *)
(* frame past the queue, then the transport is closed).                    *)
(***************************************************************************)
Client ==
  /\ \/ peer = "reads" /\ peer' = "stalls" /\ UNCHANGED hungUp
     \/ peer = "stalls" /\ peer' = "reads" /\ UNCHANGED hungUp
     \/ peer # "gone" /\ peer' = "gone" /\ UNCHANGED hungUp
     \/ peer # "gone" /\ ~hungUp /\ hungUp' = TRUE /\ UNCHANGED peer
  /\ UNCHANGED <<queue, alive, attached, tasks, stale>>

BroadcastShutdown ==
  /\ serve # "closed"
  /\ peer = "reads"
  /\ alive' = FALSE
  /\ peer' = "gone"
  /\ UNCHANGED <<queue, attached, tasks, stale, hungUp>>

ConnNext ==
  \/ \E s \in Senders : SendEvent(s)
  \/ \E s \in Senders : SenderResumes(s)
  \/ WriterTakes
  \/ WriterSent
  \/ WriterFails
  \/ Handshake
  \/ Request
  \/ ReplyResumes
  \/ ReadNext
  \/ EndOfInput
  \/ Oversize
  \/ FatalSent
  \/ Cancels
  \/ Detaches
  \/ Detached
  \/ TimePasses
  \/ WatchdogFires
  \/ WatchdogEnds
  \/ Client
  \/ BroadcastShutdown

(* A task that can go on eventually does, and so does time.  Nothing is    *)
(* assumed of the client or of the agents.  A waiting sender may be        *)
(* overtaken by another task each time a place becomes free.               *)
ConnFairness ==
  /\ WF_connVars(WriterTakes)
  /\ WF_connVars(WriterSent)
  /\ WF_connVars(WriterFails)
  /\ WF_connVars(Handshake)
  /\ WF_connVars(ReplyResumes)
  /\ WF_connVars(ReadNext)
  /\ WF_connVars(EndOfInput)
  /\ WF_connVars(FatalSent)
  /\ WF_connVars(Cancels)
  /\ WF_connVars(Detaches)
  /\ WF_connVars(Detached)
  /\ WF_connVars(TimePasses)
  /\ WF_connVars(WatchdogFires)
  /\ WF_connVars(WatchdogEnds)
  /\ \A s \in Senders : WF_connVars(SenderResumes(s))

ConnSpec == ConnInit /\ [][ConnNext]_connVars /\ ConnFairness

-----------------------------------------------------------------------------
(* Every variable has its type; the queue stays within its capacity.       *)
ConnTypeOK ==
  /\ queue \in Seq({Frame, Late, Stop}) /\ Len(queue) <= Capacity
  /\ alive \in BOOLEAN /\ attached \in BOOLEAN /\ stale \in BOOLEAN /\ hungUp \in BOOLEAN
  /\ senders \in [Senders -> {"idle", "waiting"}]
  /\ serve \in {"handshake", "reading", "replying", "replied", "fatal",
               "stopping", "cancelling", "detaching", "closed"}
  /\ writer \in {"get", "drain", "done"}
  /\ watchdog \in {"asleep", "fatal", "cancelled", "done"}
  /\ peer \in {"reads", "stalls", "gone"}

(* The clean-up cuts nothing off: every frame that was put before it began *)
(* is written before the sessions are detached and the socket is closed,   *)
(* also when senders and the watchdog go on meanwhile, and however slowly  *)
(* a client that has hung up, or was found to be slow, takes them: unless  *)
(* its socket is closed before that (serve, daemon.py:184-203).            *)
NothingCutOff ==
  serve = "closed" /\ peer # "gone" => \A i \in DOMAIN queue : queue[i] # Frame

(* A client that reads gets its queue emptied, and a task that waits for   *)
(* room is not stuck for good: no full queue stays full until the clean-up *)
(* has ended, also when the watchdog has marked the connection dead        *)
(* (_writer_loop, daemon.py:979-989).                                      *)
Drains ==
  <>[](peer = "reads" /\ serve # "closed") => []<>~Full

(* A client that stops reading for good while frames pile up is noticed,   *)
(* whatever the other tasks do (_watchdog).                                *)
SlowConsumerNoticed ==
  <>[](peer = "stalls" /\ Full) => <>~alive

(* As long as the queue is never full of frames, the sessions of a client  *)
(* that is gone are detached: serve() gets through its clean-up, for the   *)
(* writer loop fails or finds the sentinel, wherever it was, and whichever *)
(* way the connection ended (serve, daemon.py:184-203).                    *)
Crowded == Full /\ \A i \in DOMAIN queue : queue[i] # Stop

ClosesUncrowded ==
  []~Crowded => (peer = "gone" ~> serve = "closed")

(* When the client is gone its sessions are detached, in every case.  Not  *)
(* so: an answer that waits for a place in the full queue waits for ever   *)
(* when the writer loop has failed (see README).                           *)
LeaveDetaches ==
  peer = "gone" ~> serve = "closed"

(* A consumer found to be slow has its connection closed.                  *)
SlowConsumerClosed ==
  watchdog = "fatal" ~> serve = "closed"
=============================================================================
