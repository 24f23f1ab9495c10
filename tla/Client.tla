------------------------------- MODULE Client -------------------------------
(***************************************************************************)
(* The reference client: requests that wait for an answer, sessions that   *)
(* listen, and the one task that reads the socket for all of them.         *)
(*                                                                         *)
(* Source: client.py.  The daemon at the other end, and the program that   *)
(* uses the client, are external: the daemon answers in order, and replays *)
(* from a ring that holds everything (module EventStream has the one that  *)
(* does not); the program opens sessions in tasks, which it may cancel,    *)
(* and keeps the bookmark of a session that it leaves.                     *)
(*                                                                         *)
(* A request and the Session that its open makes have one number.  Frames  *)
(* that are neither answers nor events change nothing here.                *)
(***************************************************************************)
EXTENDS Naturals, Sequences

CONSTANTS
  Tasks,         (* tasks of the program, each with one request or session *)
  Ids,           (* session ids                                            *)
  MaxRequests,   (* bound: requests                                        *)
  MaxSeq         (* bound: events of a session                             *)

ASSUME BoundAssumption == MaxRequests \in Nat /\ MaxSeq \in Nat

VARIABLES
  reader,      (* _reader_loop: "on"; "eof" after its except clause; else  *)
               (* "failed" with another exception, or "cancelled"          *)
  request,     (* requests made, and their Sessions                        *)
  future,      (* future[r]: "open", the answer, or "lost", or "dropped"   *)
  pending,     (* requests in _pending                                     *)
  registered,  (* registered[i]: the Session in _sessions, 0 if none       *)
  task,        (* task[t]: what it is at, and with which request           *)
  outbox,      (* frames that the daemon has not handled                   *)
  inbox,       (* frames that the client has not read                      *)
  hung,        (* the daemon has closed its end, or is told that we have   *)
  there,       (* the daemon's session: whether it is open, and its seq    *)
  bookmark,    (* what the program keeps of a session                      *)
  mixed        (* history: ids opened while there was another Session of   *)
               (* that id, or frames about it were under way               *)

loop   == <<reader, future, pending, inbox>>
daemon == <<hung, there>>
vars   == <<loop, daemon, request, registered, task, outbox, bookmark, mixed>>

Resting == [at |-> "idle", req |-> 0]
Larger(a, b) == IF a > b THEN a ELSE b
AboutId(q, i) == \E k \in DOMAIN q : q[k].id = i

Init ==
  /\ reader = "on" /\ request = <<>> /\ future = <<>> /\ pending = {}
  /\ registered = [i \in Ids |-> 0]
  /\ task = [t \in Tasks |-> Resting]
  /\ outbox = <<>> /\ inbox = <<>> /\ hung = FALSE
  /\ there = [i \in Ids |-> [open |-> FALSE, seq |-> 0]]
  /\ bookmark = [i \in Ids |-> 0]
  /\ mixed = {}

-----------------------------------------------------------------------------
(* A request is pending before it is sent.  On a connection that is gone   *)
(* the send raises, and nothing is taken back.                             *)
Asks(t, r, frame) ==
  /\ task[t].at = "idle" /\ Len(request) < MaxRequests
  /\ request' = Append(request, r)
  /\ future' = Append(future, "open")
  /\ pending' = pending \cup {Len(request')}
  /\ IF hung THEN UNCHANGED <<outbox, task>>
     ELSE /\ outbox' = Append(outbox, [frame EXCEPT !.req = Len(request')])
          /\ task' = [task EXCEPT ![t] = [at |-> "waiting", req |-> Len(request')]]

(* open_session: the Session listens before the daemon is asked.           *)
OpenSession(t, i, resume, from) ==
  /\ Asks(t, [op |-> "open", id |-> i, from |-> from, last |-> 0, ended |-> FALSE],
             [op |-> "open", id |-> i, from |-> from, resume |-> resume, req |-> 0])
  /\ registered' = [registered EXCEPT ![i] = Len(request')]
  /\ mixed' = IF registered[i] # 0 \/ AboutId(outbox, i) \/ AboutId(inbox, i)
              THEN mixed \cup {i} ELSE mixed
  /\ UNCHANGED <<reader, inbox, daemon, bookmark>>

ListSessions(t) ==
  \E i \in Ids :
    /\ Asks(t, [op |-> "list", id |-> i, from |-> 0, last |-> 0, ended |-> FALSE],
               [op |-> "list", id |-> i, from |-> 0, resume |-> FALSE, req |-> 0])
    /\ UNCHANGED <<reader, inbox, daemon, registered, bookmark, mixed>>

(* The future's outcome reaches the task that waits for it.  Only an error *)
(* unregisters the Session: whichever has the id by then.                  *)
Returns(t) ==
  LET r == task[t].req IN
  /\ task[t].at = "waiting" /\ future[r] # "open"
  /\ task' = [task EXCEPT ![t] = IF future[r] = "opened" THEN [at |-> "in", req |-> r] ELSE Resting]
  /\ registered' = IF future[r] = "error" /\ request[r].op = "open"
                   THEN [registered EXCEPT ![request[r].id] = 0] ELSE registered
  /\ UNCHANGED <<loop, daemon, request, outbox, bookmark, mixed>>

(* The program gives up waiting: nothing is taken back.                    *)
Cancelled(t) ==
  /\ task[t].at = "waiting" /\ future[task[t].req] = "open"
  /\ future' = [future EXCEPT ![task[t].req] = "dropped"]
  /\ task' = [task EXCEPT ![t] = Resting]
  /\ UNCHANGED <<reader, pending, inbox, daemon, request, registered, outbox, bookmark, mixed>>

(* Session.close, and the end of open_session's block.  The block's pop of *)
(* the Session, after its frame is sent, is in the same step: who opens    *)
(* the id in between mixes it either way.                                  *)
Leaves(t, delete) ==
  LET i == request[task[t].req].id IN
  /\ task[t].at = "in"
  /\ task' = [task EXCEPT ![t] = Resting]
  /\ IF hung THEN UNCHANGED <<outbox, registered>>
     ELSE /\ outbox' = Append(outbox, [op |-> IF delete THEN "delete" ELSE "close", id |-> i,
                                       from |-> 0, resume |-> FALSE, req |-> 0])
          /\ registered' = [registered EXCEPT ![i] = 0]
  /\ bookmark' = [bookmark EXCEPT ![i] =
                    IF delete THEN 0 ELSE Larger(@, request[task[t].req].last)]
  /\ UNCHANGED <<loop, daemon, request, mixed>>

(***************************************************************************)
(* The reader                                                              *)
(***************************************************************************)
(* Mutants: a Session hears once its open has returned; the bookmark       *)
(* counts the events.                                                      *)
DeliveredInUse(f) ==
  IF f.seq = 0 \/ registered[f.id] = 0
     \/ ~\E t \in Tasks : task[t] = [at |-> "in", req |-> registered[f.id]] THEN request
  ELSE [request EXCEPT ![registered[f.id]].last = Larger(@, f.seq)]

DeliveredCounted(f) ==
  IF f.seq = 0 \/ registered[f.id] = 0 THEN request
  ELSE [request EXCEPT ![registered[f.id]].last = @ + 1]

(* Session._deliver.                                                       *)
Delivered(f) ==
  IF f.seq = 0 \/ registered[f.id] = 0 THEN request
  ELSE [request EXCEPT ![registered[f.id]].last = Larger(@, f.seq)]

Reads ==
  /\ reader = "on" /\ inbox # <<>>
  /\ LET f == Head(inbox) IN
       /\ pending' = pending \ {f.req}
       /\ future' = IF f.req \in pending /\ future[f.req] = "open"
                    THEN [future EXCEPT ![f.req] = f.type] ELSE future
       /\ request' = Delivered(f)
  /\ inbox' = Tail(inbox)
  /\ UNCHANGED <<reader, daemon, registered, task, outbox, bookmark, mixed>>

(* A line longer than the reader's limit raises what the loop does not     *)
(* catch.  What is in the inbox by the end of the loop is never read.      *)
Overruns ==
  /\ reader = "on" /\ inbox # <<>> /\ Head(inbox).type = "event"
  /\ reader' = "failed" /\ inbox' = <<>>
  /\ UNCHANGED <<future, pending, daemon, request, registered, task, outbox, bookmark,
                 mixed>>

(* _terminate, for the Sessions that are registered.                       *)
Terminated ==
  [r \in DOMAIN request |-> IF \E i \in Ids : registered[i] = r
                            THEN [request[r] EXCEPT !.ended = TRUE] ELSE request[r]]

(* Mutant: only the sessions are told.                                     *)
LostNone == future

Lost == [r \in DOMAIN future |-> IF r \in pending /\ future[r] = "open" THEN "lost" ELSE future[r]]

(* The end of the connection: what was not read may be lost.               *)
ReaderEnds ==
  /\ reader = "on" /\ hung
  /\ reader' = "eof" /\ inbox' = <<>>
  /\ future' = Lost
  /\ request' = Terminated
  /\ UNCHANGED <<pending, daemon, registered, task, outbox, bookmark, mixed>>

(* BlemeesClient.close.                                                    *)
Close ==
  /\ reader # "cancelled"
  /\ reader' = "cancelled"
  /\ request' = Terminated
  /\ hung' = TRUE /\ inbox' = <<>> /\ outbox' = <<>>
  /\ UNCHANGED <<future, pending, there, registered, task, bookmark, mixed>>

(***************************************************************************)
(* The daemon                                                              *)
(***************************************************************************)
Answer(f, type) == [type |-> type, req |-> f.req, id |-> f.id, seq |-> 0]
Event(i, n)     == [type |-> "event", req |-> 0, id |-> i, seq |-> n]

Handles ==
  /\ ~hung /\ outbox # <<>>
  /\ LET f == Head(outbox)
         s == there[f.id]
         replay == [k \in 1..(IF s.seq > f.from THEN s.seq - f.from ELSE 0) |->
                      Event(f.id, f.from + k)]
     IN \/ /\ f.op = "list"
           /\ inbox' = Append(inbox, Answer(f, "sessions")) /\ UNCHANGED there
        \/ /\ f.op \in {"close", "delete"}
           /\ there' = [there EXCEPT ![f.id] = [open |-> FALSE,
                                                seq |-> IF f.op = "delete" THEN 0 ELSE @.seq]]
           /\ UNCHANGED inbox
        \/ /\ f.op = "open" /\ (f.resume \/ ~s.open)
           /\ there' = [there EXCEPT ![f.id].open = TRUE]
           /\ inbox' = inbox \o <<Answer(f, "opened")>> \o replay
        \/ /\ f.op = "open"
           /\ inbox' = Append(inbox, Answer(f, "error"))
           /\ there' = IF s.open /\ ~f.resume THEN there ELSE [there EXCEPT ![f.id].open = FALSE]
  /\ outbox' = Tail(outbox)
  /\ UNCHANGED <<reader, future, pending, hung, request, registered, task, bookmark, mixed>>

Emits(i) ==
  /\ ~hung /\ there[i].open /\ there[i].seq < MaxSeq
  /\ there' = [there EXCEPT ![i].seq = @ + 1]
  /\ inbox' = Append(inbox, Event(i, there'[i].seq))
  /\ UNCHANGED <<reader, future, pending, hung, request, registered, task, outbox, bookmark, mixed>>

HangsUp ==
  /\ ~hung /\ hung' = TRUE /\ outbox' = <<>>
  /\ UNCHANGED <<loop, there, request, registered, task, bookmark, mixed>>

Next ==
  \/ \E t \in Tasks, i \in Ids, resume \in BOOLEAN :
       \E from \in {0, bookmark[i]} : OpenSession(t, i, resume, from)
  \/ \E t \in Tasks : ListSessions(t)
  \/ \E t \in Tasks : Returns(t)
  \/ \E t \in Tasks : Cancelled(t)
  \/ \E t \in Tasks, delete \in BOOLEAN : Leaves(t, delete)
  \/ Reads
  \/ Overruns
  \/ ReaderEnds
  \/ Close
  \/ Handles
  \/ \E i \in Ids : Emits(i)
  \/ HangsUp

(* Fairness: the daemon answers, and the client's tasks run.               *)
Fairness ==
  /\ WF_vars(Reads) /\ WF_vars(ReaderEnds) /\ WF_vars(Handles)
  /\ \A t \in Tasks : WF_vars(Returns(t))

Spec == Init /\ [][Next]_vars /\ Fairness

-----------------------------------------------------------------------------
(* Every variable has its type.                                            *)
TypeOK ==
  /\ reader \in {"on", "eof", "failed", "cancelled"}
  /\ Len(request) <= MaxRequests /\ Len(future) = Len(request)
  /\ request \in Seq([op : {"open", "list"}, id : Ids, from : 0..MaxSeq, last : 0..MaxSeq,
                      ended : BOOLEAN])
  /\ future \in Seq({"open", "opened", "error", "sessions", "lost", "dropped"})
  /\ pending \subseteq DOMAIN request
  /\ registered \in [Ids -> 0..Len(request)]
  /\ task \in [Tasks -> [at : {"idle", "waiting", "in"}, req : 0..Len(request)]]
  /\ outbox \in Seq([op : {"open", "list", "close", "delete"}, id : Ids, from : 0..MaxSeq,
                     resume : BOOLEAN, req : 0..Len(request)])
  /\ inbox \in Seq([type : {"opened", "error", "sessions", "event"}, req : 0..Len(request),
                    id : Ids, seq : 0..MaxSeq])
  /\ hung \in BOOLEAN /\ there \in [Ids -> [open : BOOLEAN, seq : 0..MaxSeq]]
  /\ bookmark \in [Ids -> 0..MaxSeq] /\ mixed \subseteq Ids

(* Where the events of a session are in the inbox.                         *)
EventsOf(i) == {k \in DOMAIN inbox : inbox[k].id = i /\ inbox[k].seq # 0}

(* A session in use hears everything from its bookmark on, once and in     *)
(* order, while the client reads (client.py:88-92, 166-167, 237-239), and  *)
(* is told when the connection ends (client.py:240-245): as long as nobody *)
(* opens an id that has a Session already, or frames under way.            *)
SessionsHear ==
  \A t \in Tasks : task[t].at = "in" =>
    LET r == task[t].req
        s == request[r]
        next == EventsOf(s.id)
        heard == Larger(s.last, s.from)
    IN s.id \notin mixed =>
         /\ reader = "on" =>
              /\ next = {} => heard = there[s.id].seq
              /\ \A k \in next : (\A j \in next : k <= j) => inbox[k].seq = heard + 1
         /\ reader = "eof" => s.ended

Waits(r) == \E t \in Tasks : task[t] = [at |-> "waiting", req |-> r]

(* A request that is waited for is answered, fails, or is given up, at the *)
(* latest when the connection ends (client.py:223-236, 240-243): unless    *)
(* the reader failed on a line, or the client was closed meanwhile.        *)
RequestsEnd ==
  \A r \in 1..MaxRequests : Waits(r) ~> (~Waits(r) \/ reader \in {"failed", "cancelled"})

(* The same for a client that was closed, or whose reader failed.          *)
RequestsAlwaysEnd == \A r \in 1..MaxRequests : Waits(r) ~> ~Waits(r)
=============================================================================
