---------------------------- MODULE Client_proofs ----------------------------
(***************************************************************************)
(* Proofs about Client, for every set of tasks and ids, and every number   *)
(* of requests and events.                                                 *)
(***************************************************************************)
EXTENDS Client, SequenceTheorems, TLAPS

RequestType ==
  [op : {"open", "list"}, id : Ids, from : 0..MaxSeq, last : 0..MaxSeq, ended : BOOLEAN]
Outcome == {"open", "opened", "error", "sessions", "lost", "dropped"}
(* A task, and the frames either way, when there are n requests.           *)
TaskType(n) == [at : {"idle", "waiting", "in"}, req : 0..n]
AskType(n) ==
  [op : {"open", "list", "close", "delete"}, id : Ids, from : 0..MaxSeq,
   resume : BOOLEAN, req : 0..n]
TellType(n) ==
  [type : {"opened", "error", "sessions", "event"}, req : 0..n, id : Ids, seq : 0..MaxSeq]

(***************************************************************************)
(* The invariant                                                           *)
(***************************************************************************)
(* The tasks that are not idle have a request each.                        *)
Assigned ==
  /\ \A t \in Tasks : task[t].at # "idle" => task[t].req \in DOMAIN request
  /\ \A t, u \in Tasks : t # u /\ task[t].at # "idle" /\ task[u].at # "idle"
                         => task[t].req # task[u].req
  /\ \A t \in Tasks : task[t].at = "in" => future[task[t].req] = "opened"

(* A Session, and what is said of it, goes back to the open that made it.  *)
Listening ==
  /\ \A i \in Ids : registered[i] # 0
                    => request[registered[i]].op = "open" /\ request[registered[i]].id = i
  /\ \A r \in DOMAIN future : future[r] \in {"opened", "error"} => request[r].op = "open"

Asked ==
  \A k \in DOMAIN outbox : outbox[k].op = "open" =>
    /\ outbox[k].req # 0
    /\ request[outbox[k].req].op = "open"
    /\ request[outbox[k].req].id = outbox[k].id
    /\ request[outbox[k].req].from = outbox[k].from

Told ==
  \A k \in DOMAIN inbox :
    /\ inbox[k].type \in {"opened", "error"} =>
         /\ inbox[k].req # 0 /\ inbox[k].seq = 0
         /\ request[inbox[k].req].op = "open"
         /\ request[inbox[k].req].id = inbox[k].id
    /\ inbox[k].type = "event" => inbox[k].req = 0

Consistent == Assigned /\ Listening /\ Asked /\ Told

(* The daemon has answered an open, and the answer is with the client, or  *)
(* on its way.                                                             *)
Granted(r) ==
  future[r] = "opened" \/ \E k \in DOMAIN inbox : inbox[k].type = "opened" /\ inbox[k].req = r
Refused(r) ==
  future[r] = "error" \/ \E k \in DOMAIN inbox : inbox[k].type = "error" /\ inbox[k].req = r

OfSession(i) == {k \in DOMAIN outbox : outbox[k].id = i /\ outbox[k].op # "list"}
Heard(r)     == Larger(request[r].last, request[r].from)
Holds(t, i)  ==
  task[t].at # "idle" /\ request[task[t].req].op = "open" /\ request[task[t].req].id = i

(* The events under way are those after what a Session has heard, up to    *)
(* the daemon's last, in order.                                            *)
Contiguous(i, r) ==
  /\ Heard(r) <= there[i].seq
  /\ \A k \in EventsOf(i) : inbox[k].seq \in (Heard(r) + 1)..there[i].seq
  /\ \A j, k \in EventsOf(i) : j < k => inbox[j].seq < inbox[k].seq
  /\ \A n \in (Heard(r) + 1)..there[i].seq : \E k \in EventsOf(i) : inbox[k].seq = n

(* An id that nobody opened while it had a Session or frames under way:    *)
(* who has it is registered;                                               *)
HolderListens(i) == \A t \in Tasks : Holds(t, i) => task[t].req = registered[i]
(* at most one frame about it waits for the daemon,                        *)
OneAsk(i) == \A j, k \in OfSession(i) : j = k
(* an open only before anything came of it,                                *)
OpensFresh(i) ==
  \A k \in OfSession(i) : outbox[k].op = "open" =>
    /\ outbox[k].req = registered[i]
    /\ ~Granted(registered[i]) /\ ~Refused(registered[i])
    /\ ~there[i].open /\ EventsOf(i) = {}
    /\ request[registered[i]].last = 0
    /\ request[registered[i]].from <= there[i].seq
(* and a close or delete when nobody listens;                              *)
PartsForGood(i) ==
  \A k \in OfSession(i) : outbox[k].op \in {"close", "delete"} =>
    registered[i] = 0 /\ (outbox[k].op = "delete" => bookmark[i] = 0)
(* it hears everything once its open was granted, and is not open at the   *)
(* daemon when its open was refused, or everything about it is handled.    *)
Follows(i) == registered[i] # 0 /\ Granted(registered[i]) => Contiguous(i, registered[i])
Denied(i) ==
  registered[i] # 0 /\ Refused(registered[i]) => ~there[i].open /\ ~Granted(registered[i])
Absent(i) == ~hung /\ registered[i] = 0 /\ OfSession(i) = {} => ~there[i].open
Behind(i) == bookmark[i] <= there[i].seq

Tidy(i) ==
  /\ HolderListens(i) /\ OneAsk(i) /\ OpensFresh(i) /\ PartsForGood(i)
  /\ Follows(i) /\ Denied(i) /\ Absent(i) /\ Behind(i)

AllTidy == reader = "on" => \A i \in Ids \ mixed : Tidy(i)

(* The sessions in use were told of the end.                               *)
Ended ==
  reader = "eof" => hung /\ \A t \in Tasks, i \in Ids \ mixed :
                               Holds(t, i) => request[task[t].req].ended

Inv == TypeOK /\ Consistent /\ AllTidy /\ Ended

(***************************************************************************)
(* Sequences                                                               *)
(***************************************************************************)
LEMMA Appends ==
  ASSUME NEW S, NEW q \in Seq(S), NEW x \in S
  PROVE  /\ Append(q, x) \in Seq(S)
         /\ Len(Append(q, x)) = Len(q) + 1
         /\ DOMAIN Append(q, x) = DOMAIN q \cup {Len(q) + 1}
         /\ Append(q, x)[Len(q) + 1] = x
         /\ \A k \in DOMAIN q : Append(q, x)[k] = q[k] /\ k \in 1..Len(q)
  OBVIOUS

LEMMA Tails ==
  ASSUME NEW S, NEW q \in Seq(S), q # <<>>
  PROVE  /\ Tail(q) \in Seq(S) /\ Head(q) \in S
         /\ 1 \in DOMAIN q /\ Head(q) = q[1]
         /\ \A k \in DOMAIN Tail(q) : k + 1 \in DOMAIN q /\ Tail(q)[k] = q[k + 1] /\ k \in Nat \ {0}
         /\ \A k \in DOMAIN q : k # 1 => k - 1 \in DOMAIN Tail(q) /\ k \in Nat
  OBVIOUS

LEMMA Widens ==
  ASSUME NEW S, NEW T, S \subseteq T, NEW q \in Seq(S)
  PROVE  q \in Seq(T)
  OBVIOUS

LEMMA Joins ==
  ASSUME NEW S, NEW q \in Seq(S), NEW p \in Seq(S)
  PROVE  /\ q \o p \in Seq(S)
         /\ Len(q \o p) = Len(q) + Len(p)
         /\ \A k \in 1..Len(q) : (q \o p)[k] = q[k]
         /\ \A k \in 1..Len(p) : (q \o p)[Len(q) + k] = p[k]
  OBVIOUS

(* A sequence that maps the elements of another.                           *)
LEMMA Mapped ==
  ASSUME NEW S, NEW T, NEW q \in Seq(S), NEW p, p \in [DOMAIN q -> T]
  PROVE  p \in Seq(T) /\ Len(p) = Len(q) /\ DOMAIN p = DOMAIN q
  <1>1. DOMAIN q = 1..Len(q) /\ Len(q) \in Nat
    BY LenProperties
  <1>2. p \in Seq(T)
    BY <1>1, SeqDef
  <1> QED
    BY <1>1, <1>2, LenProperties

LEMMA Wider ==
  ASSUME NEW m \in Nat, NEW n \in Nat, m <= n
  PROVE  TaskType(m) \subseteq TaskType(n) /\ AskType(m) \subseteq AskType(n)
         /\ TellType(m) \subseteq TellType(n)
  BY DEF TaskType, AskType, TellType

LEMMA Types ==
  TypeOK <=>
    /\ reader \in {"on", "eof", "failed", "cancelled"}
    /\ Len(request) <= MaxRequests /\ Len(future) = Len(request)
    /\ request \in Seq(RequestType) /\ future \in Seq(Outcome)
    /\ pending \subseteq DOMAIN request
    /\ registered \in [Ids -> 0..Len(request)]
    /\ task \in [Tasks -> TaskType(Len(request))]
    /\ outbox \in Seq(AskType(Len(request))) /\ inbox \in Seq(TellType(Len(request)))
    /\ hung \in BOOLEAN /\ there \in [Ids -> [open : BOOLEAN, seq : 0..MaxSeq]]
    /\ bookmark \in [Ids -> 0..MaxSeq] /\ mixed \subseteq Ids
  BY DEF TypeOK, RequestType, Outcome, TaskType, AskType, TellType

(***************************************************************************)
(* The types, and who has which request                                    *)
(***************************************************************************)
LEMMA AsksTypes ==
  ASSUME TypeOK, NEW t \in Tasks, NEW r \in RequestType,
         NEW frame, frame \in AskType(0), Asks(t, r, frame)
  PROVE  /\ Len(request') = Len(request) + 1 /\ Len(request') <= MaxRequests
         /\ Len(future') = Len(request') /\ Len(request) \in Nat
         /\ request' \in Seq(RequestType) /\ future' \in Seq(Outcome)
         /\ pending' \subseteq DOMAIN request'
         /\ outbox' \in Seq(AskType(Len(request')))
         /\ task' \in [Tasks -> TaskType(Len(request'))]
         /\ request'[Len(request')] = r /\ future'[Len(request')] = "open"
         /\ DOMAIN request' = DOMAIN request \cup {Len(request')}
         /\ DOMAIN request = 1..Len(request) /\ DOMAIN future = DOMAIN request
         /\ DOMAIN future' = DOMAIN request'
         /\ \A k \in DOMAIN request : request'[k] = request[k] /\ future'[k] = future[k]
         /\ \/ /\ hung /\ UNCHANGED <<outbox, task>>
            \/ /\ ~hung
               /\ outbox' = Append(outbox, [frame EXCEPT !.req = Len(request')])
               /\ [frame EXCEPT !.req = Len(request')] \in AskType(Len(request'))
               /\ task' = [task EXCEPT ![t] = [at |-> "waiting", req |-> Len(request')]]
  <1>1. /\ Len(request) <= MaxRequests /\ Len(future) = Len(request)
        /\ request \in Seq(RequestType) /\ future \in Seq(Outcome)
        /\ pending \subseteq DOMAIN request
        /\ task \in [Tasks -> TaskType(Len(request))]
        /\ outbox \in Seq(AskType(Len(request))) /\ hung \in BOOLEAN
    BY Types
  <1>2. /\ request' = Append(request, r) /\ future' = Append(future, "open")
        /\ Len(request) < MaxRequests
        /\ pending' = pending \cup {Len(request')}
    BY DEF Asks
  <1>3. "open" \in Outcome /\ MaxRequests \in Nat
    BY BoundAssumption DEF Outcome
  <1>4. /\ request' \in Seq(RequestType) /\ Len(request') = Len(request) + 1
        /\ DOMAIN request' = DOMAIN request \cup {Len(request')}
        /\ request'[Len(request')] = r
        /\ \A k \in DOMAIN request : request'[k] = request[k]
    BY <1>1, <1>2, Appends
  <1>5. /\ future' \in Seq(Outcome) /\ Len(future') = Len(future) + 1
        /\ future'[Len(request')] = "open"
        /\ \A k \in DOMAIN future : future'[k] = future[k]
    BY <1>1, <1>2, <1>3, <1>4, Appends
  <1>6. DOMAIN request = 1..Len(request) /\ DOMAIN future = 1..Len(future) /\ Len(request) \in Nat
        /\ DOMAIN request' = 1..Len(request') /\ DOMAIN future' = 1..Len(future')
    BY <1>1, <1>4, <1>5, LenProperties
  <1>7. /\ Len(request') <= MaxRequests /\ Len(request') \in Nat /\ Len(request) <= Len(request')
    BY <1>2, <1>3, <1>4, <1>6
  <1>8. /\ AskType(Len(request)) \subseteq AskType(Len(request'))
        /\ TaskType(Len(request)) \subseteq TaskType(Len(request'))
    BY <1>6, <1>7, Wider
  <1>9. outbox \in Seq(AskType(Len(request'))) /\ task \in [Tasks -> TaskType(Len(request'))]
    BY <1>1, <1>8, Widens
  <1>10. /\ [frame EXCEPT !.req = Len(request')] \in AskType(Len(request'))
         /\ [at |-> "waiting", req |-> Len(request')] \in TaskType(Len(request'))
    BY <1>7 DEF AskType, TaskType
  <1>11. \/ hung /\ UNCHANGED <<outbox, task>>
         \/ /\ ~hung
            /\ outbox' = Append(outbox, [frame EXCEPT !.req = Len(request')])
            /\ task' = [task EXCEPT ![t] = [at |-> "waiting", req |-> Len(request')]]
    BY <1>1 DEF Asks
  <1>12. outbox' \in Seq(AskType(Len(request')))
    BY <1>9, <1>10, <1>11, Appends
  <1>13. task' \in [Tasks -> TaskType(Len(request'))]
    BY <1>9, <1>10, <1>11
  <1>14. pending' \subseteq DOMAIN request'
    BY <1>1, <1>2, <1>4
  <1>15. \/ hung /\ UNCHANGED <<outbox, task>>
         \/ /\ ~hung
            /\ outbox' = Append(outbox, [frame EXCEPT !.req = Len(request')])
            /\ [frame EXCEPT !.req = Len(request')] \in AskType(Len(request'))
            /\ task' = [task EXCEPT ![t] = [at |-> "waiting", req |-> Len(request')]]
    BY <1>10, <1>11
  <1> QED
    BY <1>1, <1>4, <1>5, <1>6, <1>7, <1>12, <1>13, <1>14, <1>15

(* The reader's frame, and what it does to the requests.                   *)
LEMMA ReadsTypes ==
  ASSUME TypeOK, Consistent, Reads
  PROVE  /\ request' \in Seq(RequestType) /\ Len(request') = Len(request)
         /\ DOMAIN request' = DOMAIN request
         /\ future' \in Seq(Outcome) /\ Len(future') = Len(future)
         /\ inbox' \in Seq(TellType(Len(request)))
  <1> DEFINE f == inbox[1]
  <1>1. /\ Len(future) = Len(request)
        /\ request \in Seq(RequestType) /\ future \in Seq(Outcome)
        /\ pending \subseteq DOMAIN request
        /\ registered \in [Ids -> 0..Len(request)]
        /\ inbox \in Seq(TellType(Len(request)))
    BY Types
  <1>2. /\ inbox # <<>> /\ inbox' = Tail(inbox)
        /\ future' = IF Head(inbox).req \in pending /\ future[Head(inbox).req] = "open"
                     THEN [future EXCEPT ![Head(inbox).req] = Head(inbox).type] ELSE future
        /\ request' = Delivered(Head(inbox))
    BY DEF Reads
  <1>3. /\ inbox' \in Seq(TellType(Len(request))) /\ 1 \in DOMAIN inbox
        /\ f \in TellType(Len(request)) /\ Head(inbox) = f
    BY <1>1, <1>2, Tails
  <1>4. DOMAIN request = 1..Len(request) /\ DOMAIN future = 1..Len(future) /\ Len(request) \in Nat
    BY <1>1, LenProperties
  <1>5. future' \in Seq(Outcome) /\ Len(future') = Len(future)
    <2>1. CASE f.req \in pending /\ future[f.req] = "open"
      <3>1. f.req \in 1..Len(future)
        BY <1>1, <1>4, <2>1
      <3>2. f.type # "event"
        BY <1>3, <3>1 DEF Consistent, Told
      <3>3. f.type \in Outcome
        BY <1>3, <3>2 DEF TellType, Outcome
      <3>4. future' = [future EXCEPT ![f.req] = f.type]
        BY <1>2, <1>3, <2>1
      <3> QED
        BY <1>1, <3>1, <3>3, <3>4, ExceptSeq
    <2>2. CASE ~(f.req \in pending /\ future[f.req] = "open")
      BY <1>1, <1>2, <1>3, <2>2
    <2> QED
      BY <2>1, <2>2
  <1>6. request' \in Seq(RequestType) /\ Len(request') = Len(request)
    <2>1. CASE f.seq = 0 \/ registered[f.id] = 0
      BY <1>1, <1>2, <1>3, <2>1 DEF Delivered
    <2>2. CASE ~(f.seq = 0 \/ registered[f.id] = 0)
      <3> DEFINE r == registered[f.id]
                 x == [request[r] EXCEPT !.last = Larger(request[r].last, f.seq)]
      <3>1. r \in 1..Len(request) /\ f.seq \in 0..MaxSeq
        BY <1>1, <1>3, <1>4, <2>2 DEF TellType
      <3>2. request[r] \in RequestType
        BY <1>1, <3>1
      <3>3. Larger(request[r].last, f.seq) \in 0..MaxSeq
        BY <3>1, <3>2 DEF Larger, RequestType
      <3>4. x \in RequestType
        BY <3>2, <3>3 DEF RequestType
      <3>5. request' = [request EXCEPT ![r] = x]
        BY <1>1, <1>2, <1>3, <1>4, <2>2, <3>1 DEF Delivered
      <3> HIDE DEF x, r
      <3> QED
        BY <1>1, <3>1, <3>4, <3>5, ExceptSeq
    <2> QED
      BY <2>1, <2>2
  <1> QED
    BY <1>3, <1>5, <1>6, LenProperties

(* The events that follow an open's answer.                                *)
Replay(f) ==
  [k \in 1..(IF there[f.id].seq > f.from THEN there[f.id].seq - f.from ELSE 0) |->
     Event(f.id, f.from + k)]

LEMMA ReplayTypes ==
  ASSUME TypeOK, NEW f \in AskType(Len(request))
  PROVE  /\ Replay(f) \in Seq(TellType(Len(request)))
         /\ Len(Replay(f)) = IF there[f.id].seq > f.from THEN there[f.id].seq - f.from ELSE 0
         /\ \A k \in 1..Len(Replay(f)) : Replay(f)[k] = Event(f.id, f.from + k)
         /\ \A type \in {"opened", "error", "sessions"} :
              Answer(f, type) \in TellType(Len(request))
  <1> DEFINE n == IF there[f.id].seq > f.from THEN there[f.id].seq - f.from ELSE 0
  <1>1. /\ f.id \in Ids /\ f.from \in 0..MaxSeq /\ f.req \in 0..Len(request)
        /\ there[f.id].seq \in 0..MaxSeq /\ MaxSeq \in Nat /\ Len(request) \in Nat
    BY BoundAssumption, LenProperties DEF AskType, TypeOK
  <1>2. n \in Nat /\ \A k \in 1..n : f.from + k \in 0..MaxSeq
    BY <1>1
  <1>3. \A k \in 1..n : Event(f.id, f.from + k) \in TellType(Len(request))
    BY <1>1, <1>2 DEF Event, TellType
  <1>4. Replay(f) = [k \in 1..n |-> Event(f.id, f.from + k)]
    BY DEF Replay
  <1> HIDE DEF n
  <1>5. Replay(f) \in [1..n -> TellType(Len(request))]
    BY <1>3, <1>4
  <1>6. Replay(f) \in Seq(TellType(Len(request)))
    BY <1>2, <1>5, SeqDef
  <1>7. Len(Replay(f)) = n
    BY <1>2, <1>5, <1>6, LenProperties
  <1>8. \A type \in {"opened", "error", "sessions"} : Answer(f, type) \in TellType(Len(request))
    BY <1>1 DEF Answer, TellType
  <1> QED
    BY <1>4, <1>6, <1>7, <1>8 DEF n

LEMMA EndTypes ==
  ASSUME TypeOK
  PROVE  /\ Lost \in Seq(Outcome) /\ Len(Lost) = Len(future) /\ DOMAIN Lost = DOMAIN future
         /\ Terminated \in Seq(RequestType) /\ Len(Terminated) = Len(request)
         /\ DOMAIN Terminated = DOMAIN request
  <1>1. request \in Seq(RequestType) /\ future \in Seq(Outcome)
    BY Types
  <1>2. Lost \in [DOMAIN future -> Outcome]
    BY <1>1 DEF Lost, Outcome
  <1>3. \A r \in DOMAIN request : request[r] \in RequestType
    BY <1>1
  <1>4. \A r \in DOMAIN request : [request[r] EXCEPT !.ended = TRUE] \in RequestType
    BY <1>3 DEF RequestType
  <1>5. Terminated \in [DOMAIN request -> RequestType]
    BY <1>3, <1>4 DEF Terminated
  <1> QED
    BY <1>1, <1>2, <1>5, Mapped

LEMMA InitTypes ==
  ASSUME Init
  PROVE  TypeOK
  <1>1. /\ reader = "on" /\ request = <<>> /\ future = <<>> /\ pending = {}
        /\ registered = [i \in Ids |-> 0] /\ task = [t \in Tasks |-> Resting]
        /\ outbox = <<>> /\ inbox = <<>> /\ hung = FALSE
        /\ there = [i \in Ids |-> [open |-> FALSE, seq |-> 0]]
        /\ bookmark = [i \in Ids |-> 0] /\ mixed = {}
    BY DEF Init
  <1>2. Len(request) = 0 /\ Len(future) = 0 /\ 0 \in 0..MaxSeq /\ 0 <= MaxRequests /\ 0 \in 0..0
    BY <1>1, BoundAssumption
  <1>3. /\ request \in Seq(RequestType) /\ future \in Seq(Outcome)
        /\ outbox \in Seq(AskType(Len(request))) /\ inbox \in Seq(TellType(Len(request)))
    BY <1>1
  <1>4. Resting \in TaskType(Len(request)) /\ [open |-> FALSE, seq |-> 0] \in [open : BOOLEAN, seq : 0..MaxSeq]
    BY <1>2 DEF Resting, TaskType
  <1>5. /\ task \in [Tasks -> TaskType(Len(request))]
        /\ there \in [Ids -> [open : BOOLEAN, seq : 0..MaxSeq]]
        /\ registered \in [Ids -> 0..Len(request)] /\ bookmark \in [Ids -> 0..MaxSeq]
    BY <1>1, <1>2, <1>4
  <1> QED
    BY <1>1, <1>2, <1>3, <1>5, Types

LEMMA HandlesTypes ==
  ASSUME TypeOK, Handles
  PROVE  /\ outbox # <<>> /\ outbox[1] \in AskType(Len(request)) /\ Head(outbox) = outbox[1]
         /\ outbox' \in Seq(AskType(Len(request)))
         /\ inbox' \in Seq(TellType(Len(request)))
         /\ there' \in [Ids -> [open : BOOLEAN, seq : 0..MaxSeq]]
  <1> DEFINE f == outbox[1]
  <1>1. /\ outbox \in Seq(AskType(Len(request))) /\ inbox \in Seq(TellType(Len(request)))
        /\ there \in [Ids -> [open : BOOLEAN, seq : 0..MaxSeq]]
    BY Types
  <1>2. outbox # <<>> /\ outbox' = Tail(outbox)
    BY DEF Handles
  <1>3. f \in AskType(Len(request)) /\ Head(outbox) = f /\ outbox' \in Seq(AskType(Len(request)))
    BY <1>1, <1>2, Tails
  <1>4. /\ Replay(f) \in Seq(TellType(Len(request)))
        /\ Answer(f, "opened") \in TellType(Len(request))
        /\ Answer(f, "error") \in TellType(Len(request))
        /\ Answer(f, "sessions") \in TellType(Len(request))
    BY <1>3, ReplayTypes
  <1>5. /\ f.id \in Ids /\ there[f.id].seq \in 0..MaxSeq /\ 0 \in 0..MaxSeq
    BY <1>1, <1>3, BoundAssumption DEF AskType
  <1>6. \/ inbox' = inbox
        \/ inbox' = Append(inbox, Answer(f, "sessions"))
        \/ inbox' = inbox \o <<Answer(f, "opened")>> \o Replay(f)
        \/ inbox' = Append(inbox, Answer(f, "error"))
    BY <1>3 DEF Handles, Replay
  <1>7. inbox' \in Seq(TellType(Len(request)))
    <2>1. CASE inbox' = inbox \o <<Answer(f, "opened")>> \o Replay(f)
      <3>1. <<Answer(f, "opened")>> \in Seq(TellType(Len(request)))
        BY <1>4
      <3>2. inbox \o <<Answer(f, "opened")>> \in Seq(TellType(Len(request)))
        BY <1>1, <3>1, Joins
      <3> QED
        BY <1>4, <2>1, <3>2, Joins
    <2>2. ASSUME NEW x \in TellType(Len(request)), inbox' = Append(inbox, x)
          PROVE  inbox' \in Seq(TellType(Len(request)))
      BY <1>1, <2>2, Appends
    <2> QED
      BY <1>1, <1>4, <1>6, <2>1, <2>2
  <1>8. \/ there' = there
        \/ \E n \in {0, there[f.id].seq} : there' = [there EXCEPT ![f.id] = [open |-> FALSE, seq |-> n]]
        \/ there' = [there EXCEPT ![f.id].open = TRUE]
        \/ there' = [there EXCEPT ![f.id].open = FALSE]
    <2>1. CASE there' = [there EXCEPT ![f.id] = [open |-> FALSE,
                                                seq |-> IF f.op = "delete" THEN 0 ELSE @.seq]]
      BY <2>1
    <2> QED
      BY <1>3, <2>1 DEF Handles
  <1>9. there' \in [Ids -> [open : BOOLEAN, seq : 0..MaxSeq]]
    <2> DEFINE S == [open : BOOLEAN, seq : 0..MaxSeq]
    <2>1. there[f.id] \in S
      BY <1>1, <1>5
    <2>2. /\ [there[f.id] EXCEPT !.open = TRUE] \in S /\ [there[f.id] EXCEPT !.open = FALSE] \in S
          /\ \A n \in {0, there[f.id].seq} : [open |-> FALSE, seq |-> n] \in S
      BY <1>5, <2>1
    <2>3. there' = there \/ \E x \in S : there' = [there EXCEPT ![f.id] = x]
      BY <1>8, <2>2
    <2> HIDE DEF S, f
    <2> QED
      BY <1>1, <2>3 DEF S
  <1> QED
    BY <1>2, <1>3, <1>7, <1>9

LEMMA TypesKept ==
  ASSUME TypeOK, Consistent, [Next]_vars
  PROVE  TypeOK'
  <1>t. /\ reader \in {"on", "eof", "failed", "cancelled"}
        /\ Len(request) <= MaxRequests /\ Len(future) = Len(request)
        /\ request \in Seq(RequestType) /\ future \in Seq(Outcome)
        /\ pending \subseteq DOMAIN request
        /\ registered \in [Ids -> 0..Len(request)]
        /\ task \in [Tasks -> TaskType(Len(request))]
        /\ outbox \in Seq(AskType(Len(request))) /\ inbox \in Seq(TellType(Len(request)))
        /\ hung \in BOOLEAN /\ there \in [Ids -> [open : BOOLEAN, seq : 0..MaxSeq]]
        /\ bookmark \in [Ids -> 0..MaxSeq] /\ mixed \subseteq Ids
    BY Types
  <1>n. /\ Len(request) \in Nat /\ DOMAIN request = 1..Len(request)
        /\ DOMAIN future = 1..Len(future) /\ 0 \in 0..MaxSeq /\ 0 \in 0..Len(request)
        /\ <<>> \in Seq(AskType(Len(request))) /\ <<>> \in Seq(TellType(Len(request)))
        /\ Resting \in TaskType(Len(request))
    BY <1>t, LenProperties, BoundAssumption DEF Resting, TaskType
  <1>1. ASSUME NEW t \in Tasks, NEW i \in Ids, NEW resume \in BOOLEAN,
               NEW from \in {0, bookmark[i]}, OpenSession(t, i, resume, from)
        PROVE  TypeOK'
    <2> DEFINE r == [op |-> "open", id |-> i, from |-> from, last |-> 0, ended |-> FALSE]
               frame == [op |-> "open", id |-> i, from |-> from, resume |-> resume, req |-> 0]
    <2>1. r \in RequestType /\ frame \in AskType(0) /\ Asks(t, r, frame)
      BY <1>t, <1>n, <1>1 DEF RequestType, AskType, OpenSession
    <2>2. UNCHANGED <<reader, inbox, hung, there, bookmark>> /\ mixed' \in {mixed, mixed \cup {i}}
          /\ registered' = [registered EXCEPT ![i] = Len(request')]
      BY <1>1 DEF OpenSession, daemon
    <2> HIDE DEF r, frame
    <2>3. /\ Len(request') = Len(request) + 1 /\ Len(request') <= MaxRequests
          /\ Len(future') = Len(request') /\ Len(request) \in Nat
          /\ request' \in Seq(RequestType) /\ future' \in Seq(Outcome)
          /\ pending' \subseteq DOMAIN request'
          /\ outbox' \in Seq(AskType(Len(request')))
          /\ task' \in [Tasks -> TaskType(Len(request'))]
      BY <2>1, AsksTypes
    <2>4. TellType(Len(request)) \subseteq TellType(Len(request'))
      BY <2>3, Wider
    <2>5. inbox' \in Seq(TellType(Len(request')))
      BY <1>t, <2>2, <2>4, Widens
    <2>6. registered' \in [Ids -> 0..Len(request')]
      BY <1>t, <2>2, <2>3
    <2> QED
      BY <1>t, <2>2, <2>3, <2>5, <2>6
      DEF TypeOK, RequestType, Outcome, TaskType, AskType, TellType
  <1>2. ASSUME NEW t \in Tasks, ListSessions(t)
        PROVE  TypeOK'
    <2>1. PICK i \in Ids :
            /\ Asks(t, [op |-> "list", id |-> i, from |-> 0, last |-> 0, ended |-> FALSE],
                       [op |-> "list", id |-> i, from |-> 0, resume |-> FALSE, req |-> 0])
            /\ UNCHANGED <<reader, inbox, daemon, registered, bookmark, mixed>>
      BY <1>2 DEF ListSessions
    <2> DEFINE r == [op |-> "list", id |-> i, from |-> 0, last |-> 0, ended |-> FALSE]
               frame == [op |-> "list", id |-> i, from |-> 0, resume |-> FALSE, req |-> 0]
    <2>2. r \in RequestType /\ frame \in AskType(0) /\ Asks(t, r, frame)
      BY <1>n, <2>1 DEF RequestType, AskType
    <2>a. UNCHANGED <<reader, inbox, hung, there, registered, bookmark, mixed>>
      BY <2>1 DEF daemon
    <2> HIDE DEF r, frame
    <2>3. /\ Len(request') = Len(request) + 1 /\ Len(request') <= MaxRequests
          /\ Len(future') = Len(request') /\ Len(request) \in Nat
          /\ request' \in Seq(RequestType) /\ future' \in Seq(Outcome)
          /\ pending' \subseteq DOMAIN request'
          /\ outbox' \in Seq(AskType(Len(request')))
          /\ task' \in [Tasks -> TaskType(Len(request'))]
      BY <2>2, AsksTypes
    <2>4. TellType(Len(request)) \subseteq TellType(Len(request'))
      BY <2>3, Wider
    <2>5. inbox' \in Seq(TellType(Len(request')))
      BY <1>t, <2>a, <2>4, Widens
    <2>6. registered' \in [Ids -> 0..Len(request')]
      BY <1>t, <2>a, <2>3
    <2> QED
      BY <1>t, <2>a, <2>3, <2>5, <2>6
      DEF TypeOK, RequestType, Outcome, TaskType, AskType, TellType
  <1>3. ASSUME NEW t \in Tasks, Returns(t)
        PROVE  TypeOK'
    <2> DEFINE r == task[t].req
    <2>1. r \in DOMAIN request /\ [at |-> "in", req |-> r] \in TaskType(Len(request))
      BY <1>t, <1>n, <1>3 DEF Returns, Consistent, Assigned, TaskType
    <2>2. task' \in [Tasks -> TaskType(Len(request))]
      BY <1>t, <1>n, <1>3, <2>1 DEF Returns
    <2>3. registered' \in [Ids -> 0..Len(request)]
      BY <1>t, <1>n, <1>3 DEF Returns
    <2>4. UNCHANGED <<reader, future, pending, inbox, hung, there, request, outbox, bookmark, mixed>>
      BY <1>3 DEF Returns, loop, daemon
    <2> QED
      BY <1>t, <2>2, <2>3, <2>4
      DEF TypeOK, RequestType, Outcome, TaskType, AskType, TellType
  <1>4. ASSUME NEW t \in Tasks, Cancelled(t)
        PROVE  TypeOK'
    <2>1. task[t].req \in 1..Len(future) /\ "dropped" \in Outcome
      BY <1>t, <1>n, <1>4 DEF Cancelled, Consistent, Assigned, Outcome
    <2>2. task' \in [Tasks -> TaskType(Len(request))]
      BY <1>t, <1>n, <1>4 DEF Cancelled
    <2>3. future' = [future EXCEPT ![task[t].req] = "dropped"]
      BY <1>4 DEF Cancelled
    <2>4. future' \in Seq(Outcome) /\ Len(future') = Len(future)
      BY <1>t, <2>1, <2>3, ExceptSeq
    <2>5. UNCHANGED <<reader, pending, inbox, hung, there, request, registered, outbox, bookmark,
                      mixed>>
      BY <1>4 DEF Cancelled, daemon
    <2> QED
      BY <1>t, <2>2, <2>4, <2>5
      DEF TypeOK, RequestType, Outcome, TaskType, AskType, TellType
  <1>5. ASSUME NEW t \in Tasks, NEW delete \in BOOLEAN, Leaves(t, delete)
        PROVE  TypeOK'
    <2> DEFINE i == request[task[t].req].id
               frame == [op |-> IF delete THEN "delete" ELSE "close", id |-> i,
                         from |-> 0, resume |-> FALSE, req |-> 0]
    <2>1. task[t].req \in DOMAIN request /\ request[task[t].req] \in RequestType
      BY <1>t, <1>5 DEF Leaves, Consistent, Assigned
    <2>2. i \in Ids /\ frame \in AskType(Len(request))
      BY <1>n, <2>1 DEF RequestType, AskType
    <2>3. task' \in [Tasks -> TaskType(Len(request))]
      BY <1>t, <1>n, <1>5 DEF Leaves
    <2>4. registered' \in [Ids -> 0..Len(request)]
      BY <1>t, <1>n, <1>5 DEF Leaves
    <2>5. outbox' = outbox \/ outbox' = Append(outbox, frame)
      BY <1>5 DEF Leaves
    <2>6. outbox' \in Seq(AskType(Len(request)))
      <3>1. ASSUME NEW x \in AskType(Len(request)), outbox' = Append(outbox, x)
            PROVE  outbox' \in Seq(AskType(Len(request)))
        BY <1>t, <3>1, Appends
      <3> QED
        BY <1>t, <2>2, <2>5, <3>1
    <2>7. Larger(bookmark[i], request[task[t].req].last) \in 0..MaxSeq
      BY <1>t, <2>1, <2>2 DEF Larger, RequestType
    <2>8. bookmark' = [bookmark EXCEPT ![i] = IF delete THEN 0
                         ELSE Larger(bookmark[i], request[task[t].req].last)]
      BY <1>5 DEF Leaves
    <2>9. bookmark' \in [Ids -> 0..MaxSeq]
      BY <1>t, <1>n, <2>7, <2>8
    <2>10. UNCHANGED <<reader, future, pending, inbox, hung, there, request, mixed>>
      BY <1>5 DEF Leaves, loop, daemon
    <2> QED
      BY <1>t, <2>3, <2>4, <2>6, <2>9, <2>10
      DEF TypeOK, RequestType, Outcome, TaskType, AskType, TellType
  <1>6. CASE Reads
    <2>1. /\ request' \in Seq(RequestType) /\ Len(request') = Len(request)
          /\ DOMAIN request' = DOMAIN request
          /\ future' \in Seq(Outcome) /\ Len(future') = Len(future)
          /\ inbox' \in Seq(TellType(Len(request)))
      BY <1>6, ReadsTypes
    <2>2. UNCHANGED <<reader, hung, there, registered, task, outbox, bookmark, mixed>>
          /\ pending' \subseteq pending
      BY <1>6 DEF Reads, daemon
    <2> QED
      BY <1>t, <2>1, <2>2 DEF TypeOK, RequestType, Outcome, TaskType, AskType, TellType
  <1>7. CASE Overruns
    BY <1>t, <1>n, <1>7
    DEF Overruns, daemon, TypeOK, RequestType, Outcome, TaskType, AskType, TellType
  <1>8. CASE ReaderEnds
    <2>1. /\ Lost \in Seq(Outcome) /\ Len(Lost) = Len(future)
          /\ Terminated \in Seq(RequestType) /\ Len(Terminated) = Len(request)
          /\ DOMAIN Terminated = DOMAIN request
      BY EndTypes
    <2>2. /\ reader' = "eof" /\ inbox' = <<>> /\ future' = Lost /\ request' = Terminated
          /\ UNCHANGED <<pending, hung, there, registered, task, outbox, bookmark, mixed>>
      BY <1>8 DEF ReaderEnds, daemon
    <2> QED
      BY <1>t, <1>n, <2>1, <2>2 DEF TypeOK, RequestType, Outcome, TaskType, AskType, TellType
  <1>9. CASE Close
    <2>1. /\ Terminated \in Seq(RequestType) /\ Len(Terminated) = Len(request)
          /\ DOMAIN Terminated = DOMAIN request
      BY EndTypes
    <2>2. /\ reader' = "cancelled" /\ inbox' = <<>> /\ outbox' = <<>> /\ hung' = TRUE
          /\ request' = Terminated
          /\ UNCHANGED <<future, pending, there, registered, task, bookmark, mixed>>
      BY <1>9 DEF Close
    <2> QED
      BY <1>t, <1>n, <2>1, <2>2 DEF TypeOK, RequestType, Outcome, TaskType, AskType, TellType
  <1>10. CASE Handles
    <2>1. /\ outbox' \in Seq(AskType(Len(request)))
          /\ inbox' \in Seq(TellType(Len(request)))
          /\ there' \in [Ids -> [open : BOOLEAN, seq : 0..MaxSeq]]
      BY <1>10, HandlesTypes
    <2>2. UNCHANGED <<reader, future, pending, hung, request, registered, task, bookmark, mixed>>
      BY <1>10 DEF Handles
    <2> QED
      BY <1>t, <2>1, <2>2 DEF TypeOK, RequestType, Outcome, TaskType, AskType, TellType
  <1>11. ASSUME NEW i \in Ids, Emits(i)
         PROVE  TypeOK'
    <2>1. there' = [there EXCEPT ![i].seq = there[i].seq + 1] /\ there[i].seq < MaxSeq
          /\ inbox' = Append(inbox, Event(i, there'[i].seq))
      BY <1>11 DEF Emits
    <2>2. there'[i].seq = there[i].seq + 1 /\ there[i].seq + 1 \in 0..MaxSeq
          /\ there' \in [Ids -> [open : BOOLEAN, seq : 0..MaxSeq]]
      <3> DEFINE x == [there[i] EXCEPT !.seq = there[i].seq + 1]
      <3>1. there[i] \in [open : BOOLEAN, seq : 0..MaxSeq]
        BY <1>t
      <3>2. there[i].seq + 1 \in 0..MaxSeq
        BY <2>1, <3>1, BoundAssumption
      <3>3. x \in [open : BOOLEAN, seq : 0..MaxSeq] /\ x.seq = there[i].seq + 1
        BY <3>1, <3>2
      <3>4. there' = [there EXCEPT ![i] = x]
        BY <2>1
      <3> HIDE DEF x
      <3> QED
        BY <1>t, <3>2, <3>3, <3>4
    <2>3. Event(i, there'[i].seq) \in TellType(Len(request))
      BY <1>n, <2>2 DEF Event, TellType
    <2>4. inbox' \in Seq(TellType(Len(request)))
      BY <1>t, <2>1, <2>3, Appends
    <2>5. UNCHANGED <<reader, future, pending, hung, request, registered, task, outbox, bookmark,
                      mixed>>
      BY <1>11 DEF Emits
    <2> QED
      BY <1>t, <2>2, <2>4, <2>5 DEF TypeOK, RequestType, Outcome, TaskType, AskType, TellType
  <1>12. CASE HangsUp
    BY <1>t, <1>n, <1>12
    DEF HangsUp, loop, TypeOK, RequestType, Outcome, TaskType, AskType, TellType
  <1>13. CASE UNCHANGED vars
    BY <1>t, <1>13
    DEF vars, loop, daemon, TypeOK, RequestType, Outcome, TaskType, AskType, TellType
  <1> QED
    BY <1>1, <1>2, <1>3, <1>4, <1>5, <1>6, <1>7, <1>8, <1>9, <1>10, <1>11, <1>12, <1>13 DEF Next

(***************************************************************************)
(* Requests, Sessions and frames belong together                           *)
(***************************************************************************)
(* What a request asks for does not change.                                *)
SameRequests ==
  /\ DOMAIN request' = DOMAIN request
  /\ \A r \in DOMAIN request : /\ request'[r].op = request[r].op
                              /\ request'[r].id = request[r].id
                              /\ request'[r].from = request[r].from

LEMMA Fields ==
  ASSUME TypeOK
  PROVE  /\ DOMAIN request = 1..Len(request) /\ Len(request) \in Nat
         /\ \A r \in DOMAIN request : request[r] \in RequestType
         /\ \A k \in DOMAIN outbox :
              /\ outbox[k] \in AskType(Len(request))
              /\ outbox[k].id \in Ids /\ outbox[k].req \in 0..Len(request)
              /\ outbox[k].from \in 0..MaxSeq
         /\ \A k \in DOMAIN inbox :
              /\ inbox[k] \in TellType(Len(request))
              /\ inbox[k].id \in Ids /\ inbox[k].req \in 0..Len(request)
              /\ inbox[k].seq \in 0..MaxSeq
  <1>1. /\ request \in Seq(RequestType) /\ outbox \in Seq(AskType(Len(request)))
        /\ inbox \in Seq(TellType(Len(request)))
    BY Types
  <1>2. /\ \A r \in DOMAIN request : request[r] \in RequestType
        /\ \A k \in DOMAIN outbox : outbox[k] \in AskType(Len(request))
        /\ \A k \in DOMAIN inbox : inbox[k] \in TellType(Len(request))
    BY <1>1
  <1>3. \A k \in DOMAIN outbox :
          outbox[k].id \in Ids /\ outbox[k].req \in 0..Len(request) /\ outbox[k].from \in 0..MaxSeq
    BY <1>2 DEF AskType
  <1>4. \A k \in DOMAIN inbox :
          inbox[k].id \in Ids /\ inbox[k].req \in 0..Len(request) /\ inbox[k].seq \in 0..MaxSeq
    BY <1>2 DEF TellType
  <1> QED
    BY <1>1, <1>2, <1>3, <1>4, LenProperties

LEMMA ReadsRequests ==
  ASSUME TypeOK, Consistent, Reads
  PROVE  /\ SameRequests
         /\ \A r \in DOMAIN request :
              request'[r].last = IF inbox[1].seq # 0 /\ registered[inbox[1].id] = r
                                 THEN Larger(request[r].last, inbox[1].seq) ELSE request[r].last
  <1> DEFINE f == inbox[1]
  <1>1. /\ request \in Seq(RequestType) /\ registered \in [Ids -> 0..Len(request)]
        /\ inbox \in Seq(TellType(Len(request)))
        /\ DOMAIN request = 1..Len(request) /\ Len(request) \in Nat
    BY Types, LenProperties
  <1>2. inbox # <<>> /\ request' = Delivered(Head(inbox))
    BY DEF Reads
  <1>3. Head(inbox) = f /\ f.id \in Ids /\ f.seq \in 0..MaxSeq
    BY <1>1, <1>2, Tails, Fields
  <1>4. \A r \in DOMAIN request : request[r] \in RequestType
    BY <1>1
  <1>5. CASE f.seq = 0 \/ registered[f.id] = 0
    <2>1. request' = request
      BY <1>2, <1>3, <1>5 DEF Delivered
    <2>2. \A r \in DOMAIN request : ~(f.seq # 0 /\ registered[f.id] = r)
      BY <1>1, <1>5
    <2> QED
      BY <2>1, <2>2 DEF SameRequests
  <1>6. CASE ~(f.seq = 0 \/ registered[f.id] = 0)
    <2> DEFINE q == registered[f.id]
               x == [request[q] EXCEPT !.last = Larger(request[q].last, f.seq)]
    <2>1. q \in DOMAIN request
      BY <1>1, <1>3, <1>6
    <2>2. request' = [request EXCEPT ![q] = x]
      BY <1>2, <1>3, <1>6, <2>1 DEF Delivered
    <2>3. x.op = request[q].op /\ x.id = request[q].id /\ x.from = request[q].from
          /\ x.last = Larger(request[q].last, f.seq)
      BY <1>4, <2>1 DEF RequestType
    <2> HIDE DEF x
    <2>4. DOMAIN request' = DOMAIN request
          /\ \A r \in DOMAIN request : request'[r] = IF r = q THEN x ELSE request[r]
      BY <2>2
    <2> QED
      BY <1>6, <2>1, <2>3, <2>4 DEF SameRequests
  <1> QED
    BY <1>5, <1>6

LEMMA EndRequests ==
  ASSUME TypeOK, request' = Terminated
  PROVE  /\ SameRequests
         /\ \A r \in DOMAIN request : (\E i \in Ids : registered[i] = r) => request'[r].ended
  <1>1. \A r \in DOMAIN request : request[r] \in RequestType
    BY Types
  <1>2. DOMAIN request' = DOMAIN request
        /\ \A r \in DOMAIN request :
             request'[r] = IF \E i \in Ids : registered[i] = r
                           THEN [request[r] EXCEPT !.ended = TRUE] ELSE request[r]
    BY DEF Terminated
  <1> QED
    BY <1>1, <1>2 DEF SameRequests, RequestType

LEMMA AsksConsistent ==
  ASSUME TypeOK, Consistent, NEW t \in Tasks, NEW r \in RequestType,
         NEW frame, frame \in AskType(0), Asks(t, r, frame), inbox' = inbox,
         frame.op = "open" => r.op = "open" /\ r.id = frame.id /\ r.from = frame.from
  PROVE  /\ Assigned' /\ Asked' /\ Told'
         /\ \A k \in DOMAIN future' : future'[k] \in {"opened", "error"}
                                    => request'[k].op = "open"
  <1> DEFINE n == Len(request')
             g == [frame EXCEPT !.req = n]
  <1>1. /\ task \in [Tasks -> TaskType(Len(request))]
        /\ outbox \in Seq(AskType(Len(request))) /\ inbox \in Seq(TellType(Len(request)))
    BY Types
  <1>2. /\ n = Len(request) + 1 /\ Len(request) \in Nat
        /\ request'[n] = r /\ future'[n] = "open"
        /\ DOMAIN request' = DOMAIN request \cup {n}
        /\ DOMAIN request = 1..Len(request) /\ DOMAIN future = DOMAIN request
        /\ DOMAIN future' = DOMAIN request'
        /\ \A k \in DOMAIN request : request'[k] = request[k] /\ future'[k] = future[k]
    BY AsksTypes
  <1>3. \/ hung /\ UNCHANGED <<outbox, task>>
        \/ /\ ~hung /\ outbox' = Append(outbox, g) /\ g \in AskType(n)
           /\ task' = [task EXCEPT ![t] = [at |-> "waiting", req |-> n]]
    BY AsksTypes
  <1>4. Assigned'
    <2>1. \A u \in Tasks \ {t} : task'[u] = task[u]
      BY <1>1, <1>3
    <2>2. task'[t] = task[t] \/ (task'[t].at = "waiting" /\ task'[t].req = n)
      BY <1>1, <1>3
    <2>3. \A u \in Tasks : task[u].at # "idle" => task[u].req \in DOMAIN request
      BY DEF Consistent, Assigned
    <2>4. n \notin DOMAIN request
      BY <1>2
    <2> HIDE DEF n
    <2>5. \A u \in Tasks : task'[u].at # "idle" => task'[u].req \in DOMAIN request'
      BY <1>2, <2>1, <2>2, <2>3
    <2>6. \A u, v \in Tasks : u # v /\ task'[u].at # "idle" /\ task'[v].at # "idle"
                            => task'[u].req # task'[v].req
      BY <2>1, <2>2, <2>3, <2>4 DEF Consistent, Assigned
    <2>7. \A u \in Tasks : task'[u].at = "in" => future'[task'[u].req] = "opened"
      BY <1>2, <2>1, <2>2, <2>3 DEF Consistent, Assigned
    <2> QED
      BY <2>5, <2>6, <2>7 DEF Assigned
  <1>5. Asked'
    <2>1. \A k \in DOMAIN outbox : outbox[k].op = "open" =>
            outbox[k].req \in DOMAIN request
      BY Fields DEF Consistent, Asked
    <2>2. ASSUME NEW k \in DOMAIN outbox
          PROVE  outbox[k].op = "open" =>
                   /\ outbox[k].req # 0
                   /\ request'[outbox[k].req].op = "open"
                   /\ request'[outbox[k].req].id = outbox[k].id
                   /\ request'[outbox[k].req].from = outbox[k].from
      BY <1>2, <2>1, <2>2 DEF Consistent, Asked
    <2>3. g.op = frame.op /\ g.id = frame.id /\ g.from = frame.from /\ g.req = n
      BY DEF AskType
    <2>4. g.op = "open" => /\ g.req # 0 /\ request'[g.req].op = "open"
                           /\ request'[g.req].id = g.id /\ request'[g.req].from = g.from
      BY <1>2, <2>3
    <2> HIDE DEF g, n
    <2>5. CASE outbox' = outbox
      BY <2>2, <2>5 DEF Asked
    <2>6. CASE outbox' = Append(outbox, g) /\ g \in AskType(n)
      <3>1. outbox \in Seq(AskType(n))
        BY <1>1, <1>2, Wider, Widens
      <3>2. DOMAIN outbox' = DOMAIN outbox \cup {Len(outbox) + 1}
            /\ outbox'[Len(outbox) + 1] = g /\ \A k \in DOMAIN outbox : outbox'[k] = outbox[k]
        BY <2>6, <3>1, Appends
      <3> QED
        BY <2>2, <2>4, <3>2 DEF Asked
    <2> QED
      BY <1>3, <2>5, <2>6
  <1>6. Told'
    <2>1. \A k \in DOMAIN inbox : inbox[k].type \in {"opened", "error"}
                                => inbox[k].req \in DOMAIN request
      BY Fields DEF Consistent, Told
    <2> QED
      BY <1>2, <2>1 DEF Consistent, Told
  <1>7. \A k \in DOMAIN future' : future'[k] \in {"opened", "error"} => request'[k].op = "open"
    BY <1>2 DEF Consistent, Listening
  <1> QED
    BY <1>4, <1>5, <1>6, <1>7

(* Where the requests are the same, the frames are those that were there.  *)
LEMMA SameFrames ==
  ASSUME TypeOK, Consistent, SameRequests
  PROVE  /\ outbox' = outbox \/ outbox' = <<>> => Asked'
         /\ inbox' = inbox \/ inbox' = <<>> => Told'
         /\ \A q : q # <<>> /\ q = outbox /\ outbox' = Tail(q) => Asked'
         /\ \A q : q # <<>> /\ q = inbox /\ inbox' = Tail(q) => Told'
         /\ registered' = registered => \A i \in Ids : registered'[i] # 0
               => request'[registered'[i]].op = "open" /\ request'[registered'[i]].id = i
  <1>1. /\ outbox \in Seq(AskType(Len(request))) /\ inbox \in Seq(TellType(Len(request)))
        /\ registered \in [Ids -> 0..Len(request)]
        /\ DOMAIN request = 1..Len(request) /\ Len(request) \in Nat
    BY Types, LenProperties
  <1>2. ASSUME NEW k \in DOMAIN outbox
        PROVE  outbox[k].op = "open" =>
                 /\ outbox[k].req # 0
                 /\ request'[outbox[k].req].op = "open"
                 /\ request'[outbox[k].req].id = outbox[k].id
                 /\ request'[outbox[k].req].from = outbox[k].from
    <2>1. outbox[k].op = "open" => outbox[k].req \in DOMAIN request
      BY Fields DEF Consistent, Asked
    <2> QED
      BY <2>1 DEF Consistent, Asked, SameRequests
  <1>3. ASSUME NEW k \in DOMAIN inbox
        PROVE  /\ inbox[k].type \in {"opened", "error"} =>
                    /\ inbox[k].req # 0 /\ inbox[k].seq = 0
                    /\ request'[inbox[k].req].op = "open"
                    /\ request'[inbox[k].req].id = inbox[k].id
               /\ inbox[k].type = "event" => inbox[k].req = 0
    <2>1. inbox[k].type \in {"opened", "error"} => inbox[k].req \in DOMAIN request
      BY Fields DEF Consistent, Told
    <2> QED
      BY <2>1 DEF Consistent, Told, SameRequests
  <1>4. outbox' = outbox \/ outbox' = <<>> => Asked'
    BY <1>2 DEF Asked
  <1>5. inbox' = inbox \/ inbox' = <<>> => Told'
    BY <1>3 DEF Told
  <1>6. ASSUME outbox # <<>>, outbox' = Tail(outbox)
        PROVE  Asked'
    <2>1. \A k \in DOMAIN outbox' : k + 1 \in DOMAIN outbox /\ outbox'[k] = outbox[k + 1]
      BY <1>1, <1>6, Tails
    <2> QED
      BY <1>2, <2>1 DEF Asked
  <1>7. ASSUME inbox # <<>>, inbox' = Tail(inbox)
        PROVE  Told'
    <2>1. \A k \in DOMAIN inbox' : k + 1 \in DOMAIN inbox /\ inbox'[k] = inbox[k + 1]
      BY <1>1, <1>7, Tails
    <2> QED
      BY <1>3, <2>1 DEF Told
  <1>8. ASSUME registered' = registered, NEW i \in Ids, registered'[i] # 0
        PROVE  request'[registered'[i]].op = "open" /\ request'[registered'[i]].id = i
    <2>1. registered[i] \in DOMAIN request
      BY <1>1, <1>8
    <2> QED
      BY <1>8, <2>1 DEF Consistent, Listening, SameRequests
  <1> QED
    BY <1>4, <1>5, <1>6, <1>7, <1>8

(* The inbox after an open was granted.                                    *)
LEMMA Granting ==
  ASSUME TypeOK, NEW f \in AskType(Len(request)),
         inbox' = inbox \o <<Answer(f, "opened")>> \o Replay(f)
  PROVE  LET n == Len(inbox)
             m == IF there[f.id].seq > f.from THEN there[f.id].seq - f.from ELSE 0 IN
         /\ n \in Nat /\ DOMAIN inbox = 1..n /\ DOMAIN inbox' = 1..(n + 1 + m)
         /\ \A k \in 1..n : inbox'[k] = inbox[k]
         /\ inbox'[n + 1] = Answer(f, "opened")
         /\ \A k \in 1..m : inbox'[n + 1 + k] = Event(f.id, f.from + k)
  <1> DEFINE n == Len(inbox)
             m == IF there[f.id].seq > f.from THEN there[f.id].seq - f.from ELSE 0
             T == TellType(Len(request))
             q == inbox \o <<Answer(f, "opened")>>
  <1>1. /\ inbox \in Seq(T) /\ Replay(f) \in Seq(T) /\ <<Answer(f, "opened")>> \in Seq(T)
        /\ Len(Replay(f)) = m
        /\ \A k \in 1..m : Replay(f)[k] = Event(f.id, f.from + k)
    BY Types, ReplayTypes
  <1>2. /\ q \in Seq(T) /\ Len(q) = n + 1
        /\ \A k \in 1..n : q[k] = inbox[k]
        /\ q[n + 1] = Answer(f, "opened")
    BY <1>1
  <1>3. inbox' = q \o Replay(f)
    OBVIOUS
  <1> HIDE DEF q, T, n, m
  <1>4. /\ inbox' \in Seq(T) /\ Len(inbox') = n + 1 + m
        /\ \A k \in 1..(n + 1) : inbox'[k] = q[k]
        /\ \A k \in 1..m : inbox'[n + 1 + k] = Replay(f)[k]
    <2> DEFINE p == Replay(f)
    <2>1. p \in Seq(T) /\ q \in Seq(T)
      BY <1>1, <1>2
    <2> HIDE DEF p
    <2>2. /\ q \o p \in Seq(T) /\ Len(q \o p) = Len(q) + Len(p)
          /\ \A k \in 1..Len(q) : (q \o p)[k] = q[k]
          /\ \A k \in 1..Len(p) : (q \o p)[Len(q) + k] = p[k]
      BY <2>1, Joins
    <2>3. inbox' = q \o p /\ Len(q) = n + 1 /\ Len(p) = m
      BY <1>1, <1>2, <1>3 DEF p
    <2> QED
      BY <2>2, <2>3 DEF p
  <1>5. n \in Nat /\ DOMAIN inbox = 1..n /\ DOMAIN inbox' = 1..(n + 1 + m)
    BY <1>1, <1>4, LenProperties DEF n
  <1>6. \A k \in 1..n : inbox'[k] = inbox[k]
    BY <1>2, <1>4, <1>5
  <1>7. inbox'[n + 1] = Answer(f, "opened")
    BY <1>2, <1>4, <1>5
  <1>8. \A k \in 1..m : inbox'[n + 1 + k] = Event(f.id, f.from + k)
    BY <1>1, <1>4
  <1> QED
    BY <1>5, <1>6, <1>7, <1>8 DEF n, m

(* What a step of the daemon does, case by case.                           *)
LEMMA HandlesCases ==
  ASSUME TypeOK, Handles
  PROVE  LET f == outbox[1]
             s == there[f.id] IN
         \/ /\ f.op = "list"
            /\ inbox' = Append(inbox, Answer(f, "sessions")) /\ there' = there
         \/ /\ f.op \in {"close", "delete"}
            /\ there' = [there EXCEPT ![f.id] = [open |-> FALSE,
                                                 seq |-> IF f.op = "delete" THEN 0 ELSE s.seq]]
            /\ inbox' = inbox
         \/ /\ f.op = "open" /\ (f.resume \/ ~s.open)
            /\ there' = [there EXCEPT ![f.id].open = TRUE]
            /\ inbox' = inbox \o <<Answer(f, "opened")>> \o Replay(f)
         \/ /\ f.op = "open"
            /\ inbox' = Append(inbox, Answer(f, "error"))
            /\ there' = there \/ there' = [there EXCEPT ![f.id].open = FALSE]
  BY HandlesTypes DEF Handles, Replay

LEMMA ConsistentKept ==
  ASSUME TypeOK, Consistent, [Next]_vars
  PROVE  Consistent'
  <1>t. /\ Len(future) = Len(request) /\ future \in Seq(Outcome)
        /\ registered \in [Ids -> 0..Len(request)]
        /\ task \in [Tasks -> TaskType(Len(request))]
        /\ outbox \in Seq(AskType(Len(request))) /\ inbox \in Seq(TellType(Len(request)))
        /\ there \in [Ids -> [open : BOOLEAN, seq : 0..MaxSeq]]
    BY Types
  <1>n. /\ Len(request) \in Nat /\ DOMAIN request = 1..Len(request)
        /\ DOMAIN future = 1..Len(future)
    BY <1>t, Fields, LenProperties
  <1>1. ASSUME NEW t \in Tasks, NEW i \in Ids, NEW resume \in BOOLEAN,
               NEW from \in {0, bookmark[i]}, OpenSession(t, i, resume, from)
        PROVE  Consistent'
    <2> DEFINE r == [op |-> "open", id |-> i, from |-> from, last |-> 0, ended |-> FALSE]
               frame == [op |-> "open", id |-> i, from |-> from, resume |-> resume, req |-> 0]
    <2>0. 0 \in 0..MaxSeq /\ from \in 0..MaxSeq
      BY Types, BoundAssumption
    <2>1. r \in RequestType /\ frame \in AskType(0) /\ Asks(t, r, frame) /\ inbox' = inbox
      BY <1>1, <2>0 DEF RequestType, AskType, OpenSession
    <2>2. frame.op = "open" => r.op = "open" /\ r.id = frame.id /\ r.from = frame.from
      OBVIOUS
    <2>3. r.op = "open" /\ r.id = i
      OBVIOUS
    <2>4. registered' = [registered EXCEPT ![i] = Len(request')]
      BY <1>1 DEF OpenSession
    <2> HIDE DEF r, frame
    <2>5. /\ Assigned' /\ Asked' /\ Told'
          /\ \A k \in DOMAIN future' : future'[k] \in {"opened", "error"}
                                     => request'[k].op = "open"
      BY <2>1, <2>2, AsksConsistent
    <2>6. /\ request'[Len(request')] = r
          /\ \A k \in DOMAIN request : request'[k] = request[k]
      BY <2>1, AsksTypes
    <2>7. ASSUME NEW j \in Ids, registered'[j] # 0
          PROVE  request'[registered'[j]].op = "open" /\ request'[registered'[j]].id = j
      <3>1. CASE j = i
        BY <1>t, <2>3, <2>4, <2>6, <3>1
      <3>2. CASE j # i
        <4>1. registered'[j] = registered[j] /\ registered[j] \in DOMAIN request
          BY <1>t, <1>n, <2>4, <2>7, <3>2
        <4> QED
          BY <2>6, <2>7, <4>1 DEF Consistent, Listening
      <3> QED
        BY <3>1, <3>2
    <2> QED
      BY <2>5, <2>7 DEF Consistent, Listening
  <1>2. ASSUME NEW t \in Tasks, ListSessions(t)
        PROVE  Consistent'
    <2>1. PICK i \in Ids :
            /\ Asks(t, [op |-> "list", id |-> i, from |-> 0, last |-> 0, ended |-> FALSE],
                       [op |-> "list", id |-> i, from |-> 0, resume |-> FALSE, req |-> 0])
            /\ UNCHANGED <<reader, inbox, daemon, registered, bookmark, mixed>>
      BY <1>2 DEF ListSessions
    <2> DEFINE r == [op |-> "list", id |-> i, from |-> 0, last |-> 0, ended |-> FALSE]
               frame == [op |-> "list", id |-> i, from |-> 0, resume |-> FALSE, req |-> 0]
    <2>0. 0 \in 0..MaxSeq
      BY BoundAssumption
    <2>2. r \in RequestType /\ frame \in AskType(0) /\ Asks(t, r, frame) /\ inbox' = inbox
          /\ registered' = registered
      BY <2>0, <2>1 DEF RequestType, AskType
    <2>3. frame.op # "open"
      OBVIOUS
    <2> HIDE DEF r, frame
    <2>5. /\ Assigned' /\ Asked' /\ Told'
          /\ \A k \in DOMAIN future' : future'[k] \in {"opened", "error"}
                                     => request'[k].op = "open"
      BY <2>2, <2>3, AsksConsistent
    <2>6. \A k \in DOMAIN request : request'[k] = request[k]
      BY <2>2, AsksTypes
    <2>7. ASSUME NEW j \in Ids, registered'[j] # 0
          PROVE  request'[registered'[j]].op = "open" /\ request'[registered'[j]].id = j
      <3>1. registered'[j] = registered[j] /\ registered[j] \in DOMAIN request
        BY <1>t, <1>n, <2>2, <2>7
      <3> QED
        BY <2>6, <2>7, <3>1 DEF Consistent, Listening
    <2> QED
      BY <2>5, <2>7 DEF Consistent, Listening
  <1>3. ASSUME NEW t \in Tasks, Returns(t)
        PROVE  Consistent'
    <2>1. SameRequests /\ request' = request /\ future' = future
          /\ outbox' = outbox /\ inbox' = inbox
      BY <1>3 DEF Returns, loop, SameRequests
    <2>2. Asked' /\ Told'
      BY <2>1, SameFrames
    <2>3. \A j \in Ids : registered'[j] \in {0, registered[j]}
      BY <1>t, <1>3 DEF Returns
    <2>4. /\ \A u \in Tasks \ {t} : task'[u] = task[u]
          /\ task[t].at = "waiting"
          /\ \/ task'[t].at = "idle"
             \/ task'[t].at = "in" /\ task'[t].req = task[t].req /\ future[task[t].req] = "opened"
      BY <1>t, <1>3 DEF Returns, Resting
    <2>5. Assigned'
      BY <2>1, <2>4 DEF Consistent, Assigned
    <2> QED
      BY <2>1, <2>2, <2>3, <2>5 DEF Consistent, Listening
  <1>4. ASSUME NEW t \in Tasks, Cancelled(t)
        PROVE  Consistent'
    <2>1. SameRequests /\ request' = request /\ registered' = registered
          /\ outbox' = outbox /\ inbox' = inbox
      BY <1>4 DEF Cancelled, SameRequests
    <2>2. Asked' /\ Told'
      BY <2>1, SameFrames
    <2>3. /\ \A u \in Tasks \ {t} : task'[u] = task[u]
          /\ task'[t].at = "idle" /\ task[t].at = "waiting"
      BY <1>t, <1>4 DEF Cancelled, Resting
    <2>4. /\ DOMAIN future' = DOMAIN future
          /\ \A k \in DOMAIN future : k # task[t].req => future'[k] = future[k]
          /\ future'[task[t].req] = "dropped"
      BY <1>t, <1>n, <1>4 DEF Cancelled, Consistent, Assigned
    <2>5. Assigned'
      <3>1. \A u \in Tasks : task'[u].at # "idle" => u # t /\ task'[u] = task[u]
        BY <2>3
      <3>2. \A u \in Tasks : task'[u].at # "idle"
               => task[u].req \in DOMAIN future /\ task[u].req # task[t].req
        BY <1>t, <1>n, <2>3, <3>1 DEF Consistent, Assigned
      <3>3. \A u \in Tasks : task'[u].at # "idle" => future'[task'[u].req] = future[task[u].req]
        BY <2>4, <3>1, <3>2
      <3> QED
        BY <2>1, <3>1, <3>3 DEF Consistent, Assigned
    <2>6. Listening'
      BY <2>1, <2>4 DEF Consistent, Listening
    <2> QED
      BY <2>2, <2>5, <2>6 DEF Consistent
  <1>5. ASSUME NEW t \in Tasks, NEW delete \in BOOLEAN, Leaves(t, delete)
        PROVE  Consistent'
    <2> DEFINE i == request[task[t].req].id
    <2>1. SameRequests /\ request' = request /\ inbox' = inbox /\ future' = future
      BY <1>5 DEF Leaves, loop, SameRequests
    <2>2. Told'
      BY <2>1, SameFrames
    <2>3. /\ \A u \in Tasks \ {t} : task'[u] = task[u]
          /\ task'[t].at = "idle"
      BY <1>t, <1>5 DEF Leaves, Resting
    <2>4. \A j \in Ids : registered'[j] \in {0, registered[j]}
      BY <1>t, <1>5 DEF Leaves
    <2>5. CASE outbox' = outbox
      <3>1. Asked'
        BY <2>1, <2>5, SameFrames
      <3> QED
        BY <2>1, <2>2, <2>3, <2>4, <3>1 DEF Consistent, Assigned, Listening
    <2>6. ASSUME NEW x, x.op # "open", outbox' = Append(outbox, x)
          PROVE  Consistent'
      <3>1. DOMAIN outbox' = DOMAIN outbox \cup {Len(outbox) + 1}
            /\ outbox'[Len(outbox) + 1] = x /\ \A k \in DOMAIN outbox : outbox'[k] = outbox[k]
        BY <1>t, <2>6
      <3>2. Asked'
        BY <2>1, <2>6, <3>1 DEF Consistent, Asked
      <3> QED
        BY <2>1, <2>2, <2>3, <2>4, <3>2 DEF Consistent, Assigned, Listening
    <2> DEFINE frame == [op |-> IF delete THEN "delete" ELSE "close", id |-> i,
                         from |-> 0, resume |-> FALSE, req |-> 0]
    <2>7. outbox' = outbox \/ outbox' = Append(outbox, frame)
      BY <1>5 DEF Leaves
    <2>8. frame.op # "open"
      OBVIOUS
    <2> HIDE DEF frame
    <2> QED
      BY <2>5, <2>6, <2>7, <2>8
  <1>6. CASE Reads
    <2>1. SameRequests
      BY <1>6, ReadsRequests
    <2>2. /\ inbox # <<>> /\ inbox' = Tail(inbox) /\ outbox' = outbox
          /\ registered' = registered /\ task' = task
          /\ future' = IF Head(inbox).req \in pending /\ future[Head(inbox).req] = "open"
                       THEN [future EXCEPT ![Head(inbox).req] = Head(inbox).type] ELSE future
      BY <1>6 DEF Reads
    <2>3. Asked' /\ Told'
      BY <2>1, <2>2, SameFrames
    <2>4. \A j \in Ids : registered'[j] # 0
               => request'[registered'[j]].op = "open" /\ request'[registered'[j]].id = j
      BY <2>1, <2>2, SameFrames
    <2>5. 1 \in DOMAIN inbox /\ Head(inbox) = inbox[1]
      BY <1>t, <2>2, Tails
    <2> DEFINE f == inbox[1]
    <2>6. /\ DOMAIN future' = DOMAIN future
          /\ \A k \in DOMAIN future :
               future'[k] = future[k] \/ (k = f.req /\ future[k] = "open" /\ future'[k] = f.type)
      BY <2>2, <2>5
    <2>7. f.type \in {"opened", "error"} => request[f.req].op = "open"
      BY <2>5 DEF Consistent, Told
    <2> HIDE DEF f
    <2>8. \A k \in DOMAIN future' : future'[k] \in {"opened", "error"} => request'[k].op = "open"
      BY <1>t, <1>n, <2>1, <2>6, <2>7 DEF Consistent, Listening, SameRequests
    <2>9. Assigned'
      BY <1>t, <1>n, <2>1, <2>2, <2>6 DEF Consistent, Assigned, SameRequests
    <2> QED
      BY <2>3, <2>4, <2>8, <2>9 DEF Consistent, Listening
  <1>7. CASE Overruns
    <2>1. SameRequests /\ outbox' = outbox /\ inbox' = <<>> /\ UNCHANGED <<registered, request, future, task>>
      BY <1>7 DEF Overruns, SameRequests
    <2>2. Asked' /\ Told'
      BY <2>1, SameFrames
    <2> QED
      BY <2>1, <2>2 DEF Consistent, Assigned, Listening
  <1>8. CASE ReaderEnds
    <2>1. SameRequests
      BY <1>8, EndRequests DEF ReaderEnds
    <2>2. inbox' = <<>> /\ outbox' = outbox /\ registered' = registered /\ task' = task
          /\ future' = Lost
      BY <1>8 DEF ReaderEnds
    <2>3. Asked' /\ Told'
      BY <2>1, <2>2, SameFrames
    <2>4. \A j \in Ids : registered'[j] # 0
               => request'[registered'[j]].op = "open" /\ request'[registered'[j]].id = j
      BY <2>1, <2>2, SameFrames
    <2>5. /\ DOMAIN future' = DOMAIN future
          /\ \A k \in DOMAIN future :
               future'[k] = future[k] \/ (future[k] = "open" /\ future'[k] = "lost")
      BY <2>2 DEF Lost
    <2>6. \A k \in DOMAIN future' : future'[k] \in {"opened", "error"} => request'[k].op = "open"
      BY <1>t, <1>n, <2>1, <2>5 DEF Consistent, Listening, SameRequests
    <2>7. Assigned'
      BY <1>t, <1>n, <2>1, <2>2, <2>5 DEF Consistent, Assigned, SameRequests
    <2> QED
      BY <2>3, <2>4, <2>6, <2>7 DEF Consistent, Listening
  <1>9. CASE Close
    <2>1. SameRequests
      BY <1>9, EndRequests DEF Close
    <2>2. inbox' = <<>> /\ outbox' = <<>> /\ registered' = registered /\ task' = task
          /\ future' = future
      BY <1>9 DEF Close
    <2>3. Asked' /\ Told'
      BY <2>1, <2>2, SameFrames
    <2>4. \A j \in Ids : registered'[j] # 0
               => request'[registered'[j]].op = "open" /\ request'[registered'[j]].id = j
      BY <2>1, <2>2, SameFrames
    <2>5. \A k \in DOMAIN future' : future'[k] \in {"opened", "error"} => request'[k].op = "open"
      BY <1>t, <1>n, <2>1, <2>2 DEF Consistent, Listening, SameRequests
    <2>6. Assigned'
      BY <2>1, <2>2 DEF Consistent, Assigned, SameRequests
    <2> QED
      BY <2>3, <2>4, <2>5, <2>6 DEF Consistent, Listening
  <1>10. CASE Handles
    <2> DEFINE f == outbox[1]
    <2>1. SameRequests /\ UNCHANGED <<request, future, registered, task>> /\ outbox' = Tail(outbox)
      BY <1>10 DEF Handles, SameRequests
    <2>2. outbox # <<>> /\ f \in AskType(Len(request))
      BY <1>10, HandlesTypes
    <2>3. Asked'
      BY <2>1, <2>2, SameFrames
    <2>4. f.op = "open" => f.req # 0 /\ request[f.req].op = "open" /\ request[f.req].id = f.id
      <3>1. 1 \in DOMAIN outbox
        BY <1>t, <2>2, Tails
      <3> QED
        BY <3>1 DEF Consistent, Asked
    <2> SUFFICES Told'
      BY <2>1, <2>3 DEF Consistent, Assigned, Listening
    <2>5. ASSUME NEW x, inbox' = Append(inbox, x), x.type # "event",
                 x.type \in {"opened", "error"} => /\ x.req # 0 /\ x.seq = 0
                                                  /\ request[x.req].op = "open"
                                                  /\ request[x.req].id = x.id
          PROVE  Told'
      <3>1. DOMAIN inbox' = DOMAIN inbox \cup {Len(inbox) + 1}
            /\ inbox'[Len(inbox) + 1] = x /\ \A k \in DOMAIN inbox : inbox'[k] = inbox[k]
        BY <1>t, <2>5
      <3> QED
        BY <2>1, <2>5, <3>1 DEF Consistent, Told
    <2>6. CASE inbox' = Append(inbox, Answer(f, "sessions"))
      BY <2>5, <2>6 DEF Answer
    <2>7. CASE inbox' = Append(inbox, Answer(f, "error")) /\ f.op = "open"
      BY <2>4, <2>5, <2>7 DEF Answer
    <2>8. CASE inbox' = inbox
      BY <2>1, <2>8, SameFrames
    <2>9. CASE inbox' = inbox \o <<Answer(f, "opened")>> \o Replay(f) /\ f.op = "open"
      <3> DEFINE n == Len(inbox)
                 m == IF there[f.id].seq > f.from THEN there[f.id].seq - f.from ELSE 0
      <3>1. /\ n \in Nat /\ DOMAIN inbox = 1..n /\ DOMAIN inbox' = 1..(n + 1 + m)
            /\ \A k \in 1..n : inbox'[k] = inbox[k]
            /\ inbox'[n + 1] = Answer(f, "opened")
            /\ \A k \in 1..m : inbox'[n + 1 + k] = Event(f.id, f.from + k)
        BY <2>2, <2>9, Granting
      <3>2. m \in Nat
        BY <1>t, <2>2, BoundAssumption DEF AskType
      <3> HIDE DEF m, n, f
      <3>3. ASSUME NEW k \in DOMAIN inbox', k \notin 1..n, k # n + 1
            PROVE  inbox'[k].type = "event" /\ inbox'[k].req = 0
        <4> DEFINE j == k - (n + 1)
        <4>1. k \in 1..(n + 1 + m)
          BY <3>1
        <4>2. j \in 1..m /\ n + 1 + j = k
          BY <3>1, <3>2, <3>3, <4>1
        <4> HIDE DEF j
        <4>3. inbox'[n + 1 + j] = Event(f.id, f.from + j)
          BY <3>1, <4>2
        <4> QED
          BY <4>2, <4>3 DEF Event
      <3>4. ASSUME NEW k \in DOMAIN inbox'
            PROVE  \/ k \in DOMAIN inbox /\ inbox'[k] = inbox[k]
                   \/ inbox'[k] = Answer(f, "opened")
                   \/ inbox'[k].type = "event" /\ inbox'[k].req = 0
        BY <3>1, <3>3
      <3>5. LET a == Answer(f, "opened") IN
              /\ a.req # 0 /\ a.seq = 0 /\ a.type = "opened"
              /\ request[a.req].op = "open" /\ request[a.req].id = a.id
        BY <2>4, <2>9 DEF Answer
      <3> QED
        BY <2>1, <3>4, <3>5 DEF Consistent, Told
    <2> QED
      BY <1>10, <2>6, <2>7, <2>8, <2>9, HandlesCases
  <1>11. ASSUME NEW i \in Ids, Emits(i)
         PROVE  Consistent'
    <2>1. SameRequests /\ UNCHANGED <<request, future, registered, task>> /\ outbox' = outbox
          /\ inbox' = Append(inbox, Event(i, there'[i].seq))
      BY <1>11 DEF Emits, SameRequests
    <2>2. Asked'
      BY <2>1, SameFrames
    <2> DEFINE x == Event(i, there'[i].seq)
    <2>3. x.type = "event" /\ x.req = 0
      BY DEF Event
    <2> HIDE DEF x
    <2>4. DOMAIN inbox' = DOMAIN inbox \cup {Len(inbox) + 1}
          /\ inbox'[Len(inbox) + 1] = x /\ \A k \in DOMAIN inbox : inbox'[k] = inbox[k]
      BY <1>t, <2>1 DEF x
    <2>5. Told'
      BY <2>1, <2>3, <2>4 DEF Consistent, Told
    <2> QED
      BY <2>1, <2>2, <2>5 DEF Consistent, Assigned, Listening
  <1>12. CASE HangsUp
    <2>1. SameRequests /\ UNCHANGED <<request, future, registered, task, inbox>> /\ outbox' = <<>>
      BY <1>12 DEF HangsUp, loop, SameRequests
    <2>2. Asked' /\ Told'
      BY <2>1, SameFrames
    <2> QED
      BY <2>1, <2>2 DEF Consistent, Assigned, Listening
  <1>13. CASE UNCHANGED vars
    BY <1>13 DEF vars, loop, Consistent, Assigned, Listening, Asked, Told
  <1> QED
    BY <1>1, <1>2, <1>3, <1>4, <1>5, <1>6, <1>7, <1>8, <1>9, <1>10, <1>11, <1>12, <1>13 DEF Next

(***************************************************************************)
(* Ids that a step is not about                                            *)
(***************************************************************************)
(* The frames of a session are the same, d places further to the front.    *)
AsksSame(j, d) ==
  /\ \A k \in OfSession(j)' : k + d \in OfSession(j) /\ outbox'[k] = outbox[k + d]
  /\ \A k \in OfSession(j) : k - d \in OfSession(j)'

EventsSame(j, d) ==
  /\ \A k \in EventsOf(j)' : k + d \in EventsOf(j) /\ inbox'[k].seq = inbox[k + d].seq
  /\ \A k \in EventsOf(j) : k - d \in EventsOf(j)' /\ inbox'[k - d].seq = inbox[k].seq

AnswersSame(r) == (Granted(r)' => Granted(r)) /\ (Refused(r)' => Refused(r))

LEMMA Indices ==
  ASSUME TypeOK, TypeOK', NEW j \in Ids
  PROVE  /\ OfSession(j) \subseteq Nat /\ EventsOf(j) \subseteq Nat
         /\ OfSession(j)' \subseteq Nat /\ EventsOf(j)' \subseteq Nat
  <1>0. ASSUME NEW S, NEW q \in Seq(S)
        PROVE  DOMAIN q \subseteq Nat
    BY LenProperties
  <1>1. outbox \in Seq(AskType(Len(request))) /\ inbox \in Seq(TellType(Len(request)))
    BY Types
  <1>2. outbox' \in Seq(AskType(Len(request'))) /\ inbox' \in Seq(TellType(Len(request')))
    BY DEF TypeOK, AskType, TellType
  <1>3. DOMAIN outbox \subseteq Nat /\ DOMAIN inbox \subseteq Nat
    BY <1>0, <1>1
  <1>4. DOMAIN outbox' \subseteq Nat /\ DOMAIN inbox' \subseteq Nat
    BY <1>0, <1>2
  <1> QED
    BY <1>3, <1>4 DEF OfSession, EventsOf

LEMMA Registered ==
  ASSUME TypeOK, Consistent, NEW j \in Ids, registered[j] # 0
  PROVE  /\ registered[j] \in DOMAIN request /\ registered[j] \in DOMAIN future
         /\ request[registered[j]] \in RequestType
         /\ request[registered[j]].op = "open" /\ request[registered[j]].id = j
  <1>1. /\ registered \in [Ids -> 0..Len(request)] /\ Len(future) = Len(request)
        /\ future \in Seq(Outcome)
    BY Types
  <1>2. DOMAIN future = 1..Len(future)
    BY <1>1, LenProperties
  <1> QED
    BY <1>1, <1>2, Fields DEF Consistent, Listening

LEMMA Elsewhere ==
  ASSUME TypeOK, TypeOK', Consistent, NEW j \in Ids, Tidy(j), NEW d \in {0, 1}, NEW e \in {0, 1},
         AsksSame(j, d), EventsSame(j, e),
         registered'[j] = registered[j], there'[j] = there[j], bookmark'[j] = bookmark[j],
         hung' = hung,
         \A t \in Tasks : Holds(t, j)' => Holds(t, j) /\ task'[t].req = task[t].req,
         \A r \in DOMAIN request : r = registered[j] =>
            AnswersSame(r) /\ request'[r].last = request[r].last /\ request'[r].from = request[r].from
  PROVE  Tidy(j)'
  <1>1. /\ OfSession(j) \subseteq Nat /\ EventsOf(j) \subseteq Nat
        /\ OfSession(j)' \subseteq Nat /\ EventsOf(j)' \subseteq Nat
    BY Indices
  <1>2. PICK r \in Nat : r = registered[j] /\ r = registered'[j]
    BY Fields DEF TypeOK
  <1>3. r # 0 => /\ r \in DOMAIN request
                 /\ (Granted(r)' => Granted(r)) /\ (Refused(r)' => Refused(r))
                 /\ request'[r].last = request[r].last /\ request'[r].from = request[r].from
    BY <1>2, Registered DEF AnswersSame
  <1>4. HolderListens(j)'
    <2>1. HolderListens(j)
      BY DEF Tidy
    <2>2. \A t \in Tasks : Holds(t, j)' => task'[t].req = registered'[j]
      BY <2>1 DEF HolderListens
    <2> QED
      BY <2>2 DEF HolderListens
  <1>5. OneAsk(j)'
    BY <1>1 DEF Tidy, OneAsk, AsksSame
  <1>6. OpensFresh(j)'
    <2> SUFFICES ASSUME NEW k \in OfSession(j)', outbox'[k].op = "open"
                 PROVE  /\ outbox'[k].req = r
                        /\ ~Granted(r)' /\ ~Refused(r)'
                        /\ ~there'[j].open /\ EventsOf(j)' = {}
                        /\ request'[r].last = 0
                        /\ request'[r].from <= there'[j].seq
      BY <1>2 DEF OpensFresh, Granted, Refused
    <2>1. k + d \in OfSession(j) /\ outbox[k + d].op = "open" /\ outbox'[k].req = outbox[k + d].req
      BY DEF AsksSame
    <2>2. /\ outbox[k + d].req = r /\ r # 0
          /\ ~Granted(r) /\ ~Refused(r) /\ ~there[j].open /\ EventsOf(j) = {}
          /\ request[r].last = 0 /\ request[r].from <= there[j].seq
      BY <1>2, <2>1 DEF Tidy, OpensFresh, Consistent, Asked, OfSession, Granted, Refused
    <2>3. EventsOf(j)' = {}
      BY <2>2 DEF EventsSame
    <2> QED
      BY <1>3, <2>1, <2>2, <2>3
  <1>7. PartsForGood(j)'
    BY DEF Tidy, PartsForGood, AsksSame
  <1>8. Follows(j)'
    <2> SUFFICES ASSUME r # 0, Granted(r)'
                 PROVE  Contiguous(j, r)'
      BY <1>2 DEF Follows, Granted, Contiguous, Heard
    <2>1. Contiguous(j, r)
      BY <1>2, <1>3 DEF Tidy, Follows, Granted, Contiguous, Heard
    <2>2. Heard(r)' = Heard(r)
      BY <1>3 DEF Heard, Larger
    <2>3. \A k \in EventsOf(j)' : inbox'[k].seq \in (Heard(r) + 1)..there[j].seq
      BY <2>1 DEF Contiguous, EventsSame
    <2>4. \A k, l \in EventsOf(j)' : k < l => inbox'[k].seq < inbox'[l].seq
      <3>1. SUFFICES ASSUME NEW k \in EventsOf(j)', NEW l \in EventsOf(j)', k < l
                     PROVE  inbox'[k].seq < inbox'[l].seq
        OBVIOUS
      <3>2. k + e < l + e
        BY <1>1, <3>1
      <3> QED
        BY <2>1, <3>2 DEF Contiguous, EventsSame
    <2>5. \A n \in (Heard(r) + 1)..there[j].seq : \E k \in EventsOf(j)' : inbox'[k].seq = n
      BY <2>1 DEF Contiguous, EventsSame
    <2> QED
      BY <2>1, <2>2, <2>3, <2>4, <2>5 DEF Contiguous
  <1>9. Denied(j)'
    BY <1>2, <1>3 DEF Tidy, Denied, Granted, Refused
  <1>10. Absent(j)'
    BY <1>1 DEF Tidy, Absent, AsksSame
  <1>11. Behind(j)'
    BY DEF Tidy, Behind
  <1> QED
    BY <1>4, <1>5, <1>6, <1>7, <1>8, <1>9, <1>10, <1>11 DEF Tidy

LEMMA AsksMoves ==
  ASSUME TypeOK, TypeOK', NEW j \in Ids
  PROVE  /\ outbox' = outbox => AsksSame(j, 0)
         /\ \A x : outbox' = Append(outbox, x) /\ (x.id # j \/ x.op = "list") => AsksSame(j, 0)
         /\ outbox # <<>> /\ outbox' = Tail(outbox) /\ (outbox[1].id # j \/ outbox[1].op = "list")
            => AsksSame(j, 1)
  <1>1. OfSession(j) \subseteq Nat /\ OfSession(j)' \subseteq Nat
    BY Indices
  <1>2. outbox \in Seq(AskType(Len(request)))
    BY Types
  <1>3. ASSUME outbox' = outbox
        PROVE  AsksSame(j, 0)
    BY <1>1, <1>3 DEF AsksSame, OfSession
  <1>4. ASSUME NEW x, outbox' = Append(outbox, x), x.id # j \/ x.op = "list"
        PROVE  AsksSame(j, 0)
    <2>1. DOMAIN outbox' = DOMAIN outbox \cup {Len(outbox) + 1}
          /\ outbox'[Len(outbox) + 1] = x /\ \A k \in DOMAIN outbox : outbox'[k] = outbox[k]
      BY <1>2, <1>4
    <2>2. \A k \in OfSession(j)' : k \in OfSession(j) /\ outbox'[k] = outbox[k]
      BY <1>4, <2>1 DEF OfSession
    <2>3. \A k \in OfSession(j) : k \in OfSession(j)'
      BY <2>1 DEF OfSession
    <2> QED
      BY <1>1, <2>2, <2>3 DEF AsksSame
  <1>5. ASSUME outbox # <<>>, outbox' = Tail(outbox), outbox[1].id # j \/ outbox[1].op = "list"
        PROVE  AsksSame(j, 1)
    <2>1. /\ \A k \in DOMAIN outbox' : k + 1 \in DOMAIN outbox /\ outbox'[k] = outbox[k + 1]
          /\ \A k \in DOMAIN outbox : k # 1 => k - 1 \in DOMAIN outbox'
      BY <1>2, <1>5, Tails
    <2>2. 1 \notin OfSession(j)
      BY <1>5 DEF OfSession
    <2>3. \A k \in OfSession(j)' : k + 1 \in OfSession(j) /\ outbox'[k] = outbox[k + 1]
      BY <2>1 DEF OfSession
    <2>4. ASSUME NEW k \in OfSession(j)
          PROVE  k - 1 \in OfSession(j)'
      <3>1. k \in DOMAIN outbox /\ k # 1 /\ k \in Nat
        BY <1>1, <2>2, <2>4 DEF OfSession
      <3>2. k - 1 \in DOMAIN outbox' /\ (k - 1) + 1 = k
        BY <2>1, <3>1
      <3>3. outbox'[k - 1] = outbox[k]
        BY <2>1, <3>2
      <3> QED
        BY <2>4, <3>2, <3>3 DEF OfSession
    <2> QED
      BY <2>3, <2>4 DEF AsksSame
  <1> QED
    BY <1>3, <1>4, <1>5

LEMMA EventsMoves ==
  ASSUME TypeOK, TypeOK', NEW j \in Ids
  PROVE  /\ inbox' = inbox => EventsSame(j, 0)
         /\ \A x : inbox' = Append(inbox, x) /\ (x.id # j \/ x.seq = 0) => EventsSame(j, 0)
         /\ inbox # <<>> /\ inbox' = Tail(inbox) /\ (inbox[1].id # j \/ inbox[1].seq = 0)
            => EventsSame(j, 1)
  <1>1. EventsOf(j) \subseteq Nat /\ EventsOf(j)' \subseteq Nat
    BY Indices
  <1>2. inbox \in Seq(TellType(Len(request)))
    BY Types
  <1>3. ASSUME inbox' = inbox
        PROVE  EventsSame(j, 0)
    BY <1>1, <1>3 DEF EventsSame, EventsOf
  <1>4. ASSUME NEW x, inbox' = Append(inbox, x), x.id # j \/ x.seq = 0
        PROVE  EventsSame(j, 0)
    <2>1. DOMAIN inbox' = DOMAIN inbox \cup {Len(inbox) + 1}
          /\ inbox'[Len(inbox) + 1] = x /\ \A k \in DOMAIN inbox : inbox'[k] = inbox[k]
      BY <1>2, <1>4
    <2>2. \A k \in EventsOf(j)' : k \in EventsOf(j) /\ inbox'[k] = inbox[k]
      BY <1>4, <2>1 DEF EventsOf
    <2>3. \A k \in EventsOf(j) : k \in EventsOf(j)' /\ inbox'[k] = inbox[k]
      BY <2>1 DEF EventsOf
    <2> QED
      BY <1>1, <2>2, <2>3 DEF EventsSame
  <1>5. ASSUME inbox # <<>>, inbox' = Tail(inbox), inbox[1].id # j \/ inbox[1].seq = 0
        PROVE  EventsSame(j, 1)
    <2>1. /\ \A k \in DOMAIN inbox' : k + 1 \in DOMAIN inbox /\ inbox'[k] = inbox[k + 1]
          /\ \A k \in DOMAIN inbox : k # 1 => k - 1 \in DOMAIN inbox'
      BY <1>2, <1>5, Tails
    <2>2. 1 \notin EventsOf(j)
      BY <1>5 DEF EventsOf
    <2>3. \A k \in EventsOf(j)' : k + 1 \in EventsOf(j) /\ inbox'[k] = inbox[k + 1]
      BY <2>1 DEF EventsOf
    <2>4. ASSUME NEW k \in EventsOf(j)
          PROVE  k - 1 \in EventsOf(j)' /\ inbox'[k - 1] = inbox[k]
      <3>1. k \in DOMAIN inbox /\ k # 1 /\ k \in Nat
        BY <1>1, <2>2, <2>4 DEF EventsOf
      <3>2. k - 1 \in DOMAIN inbox' /\ (k - 1) + 1 = k
        BY <2>1, <3>1
      <3>3. inbox'[k - 1] = inbox[k]
        BY <2>1, <3>2
      <3> QED
        BY <2>4, <3>2, <3>3 DEF EventsOf
    <2> QED
      BY <2>3, <2>4 DEF EventsSame
  <1> QED
    BY <1>3, <1>4, <1>5

LEMMA AnswersMove ==
  ASSUME TypeOK, NEW r \in DOMAIN request
  PROVE  /\ inbox' = inbox /\ future'[r] \in {future[r], "dropped"} => AnswersSame(r)
         /\ \A x : inbox' = Append(inbox, x) /\ future'[r] = future[r]
                  /\ (x.type \notin {"opened", "error"} \/ x.req # r) => AnswersSame(r)
  <1>1. inbox \in Seq(TellType(Len(request)))
    BY Types
  <1>2. ASSUME inbox' = inbox, future'[r] \in {future[r], "dropped"}
        PROVE  AnswersSame(r)
    BY <1>2 DEF AnswersSame, Granted, Refused
  <1>3. ASSUME NEW x, inbox' = Append(inbox, x), future'[r] = future[r],
               x.type \notin {"opened", "error"} \/ x.req # r
        PROVE  AnswersSame(r)
    <2>1. DOMAIN inbox' = DOMAIN inbox \cup {Len(inbox) + 1}
          /\ inbox'[Len(inbox) + 1] = x /\ \A k \in DOMAIN inbox : inbox'[k] = inbox[k]
      BY <1>1, <1>3
    <2> QED
      BY <1>3, <2>1 DEF AnswersSame, Granted, Refused
  <1> QED
    BY <1>2, <1>3

(***************************************************************************)
(* The ids that a step is about                                            *)
(***************************************************************************)
LEMMA OpenTidy ==
  ASSUME TypeOK, TypeOK', Consistent, NEW j \in Ids, Tidy(j), j \notin mixed',
         NEW t \in Tasks, NEW i \in Ids, NEW resume \in BOOLEAN,
         NEW from \in {0, bookmark[i]}, OpenSession(t, i, resume, from)
  PROVE  Tidy(j)'
  <1> DEFINE r == [op |-> "open", id |-> i, from |-> from, last |-> 0, ended |-> FALSE]
             frame == [op |-> "open", id |-> i, from |-> from, resume |-> resume, req |-> 0]
  <1>0. 0 \in 0..MaxSeq /\ bookmark[i] \in 0..MaxSeq /\ from \in 0..MaxSeq
    BY Types, BoundAssumption
  <1>1. r \in RequestType /\ frame \in AskType(0) /\ Asks(t, r, frame)
    BY <1>0 DEF RequestType, AskType, OpenSession
  <1>l. Len(request') = Len(request) + 1 /\ Len(request) \in Nat
    BY <1>1, AsksTypes
  <1>n. PICK n \in Nat : n = Len(request')
    BY <1>l
  <1>2. /\ inbox' = inbox /\ hung' = hung /\ there' = there /\ bookmark' = bookmark
        /\ registered' = [registered EXCEPT ![i] = n]
        /\ j = i => registered[i] = 0 /\ ~AboutId(outbox, i) /\ ~AboutId(inbox, i)
    BY <1>n DEF OpenSession, daemon
  <1>r. r.op = "open" /\ r.id = i /\ r.from = from /\ r.last = 0
        /\ frame.op = "open" /\ frame.id = i
    OBVIOUS
  <1> HIDE DEF r, frame
  <1>3. /\ n = Len(request) + 1 /\ Len(request) \in Nat
        /\ request'[n] = r /\ future'[n] = "open"
        /\ DOMAIN request = 1..Len(request)
        /\ \A k \in DOMAIN request : request'[k] = request[k] /\ future'[k] = future[k]
        /\ \/ hung /\ UNCHANGED <<outbox, task>>
           \/ /\ ~hung
              /\ outbox' = Append(outbox, [frame EXCEPT !.req = n])
              /\ task' = [task EXCEPT ![t] = [at |-> "waiting", req |-> n]]
    BY <1>1, <1>n, AsksTypes
  <1> DEFINE g == [frame EXCEPT !.req = n]
  <1>4. g.id = i /\ g.op = "open" /\ g.req = n
    BY <1>1, <1>r DEF AskType
  <1>5. registered \in [Ids -> 0..Len(request)] /\ task \in [Tasks -> TaskType(Len(request))]
        /\ outbox \in Seq(AskType(Len(request))) /\ hung \in BOOLEAN
        /\ there \in [Ids -> [open : BOOLEAN, seq : 0..MaxSeq]]
    BY Types
  <1>6. /\ \A u \in Tasks : task[u].at # "idle" => task[u].req \in DOMAIN request
        /\ \A u \in Tasks \ {t} : task'[u] = task[u]
        /\ task'[t] = task[t] \/ (~hung /\ task'[t].at = "waiting" /\ task'[t].req = n)
    BY <1>3, <1>5 DEF Consistent, Assigned
  <1> HIDE DEF g
  <1>7. CASE j # i
    <2>1. AsksSame(j, 0)
      BY <1>3, <1>4, <1>7, AsksMoves DEF g
    <2>2. EventsSame(j, 0)
      BY <1>2, EventsMoves
    <2>3. registered'[j] = registered[j]
      BY <1>2, <1>5, <1>7
    <2>4. ASSUME NEW u \in Tasks, Holds(u, j)'
          PROVE  Holds(u, j) /\ task'[u].req = task[u].req
      <3>1. task'[u].at # "idle" /\ request'[task'[u].req].id = j
            /\ request'[task'[u].req].op = "open"
        BY <2>4 DEF Holds
      <3>2. task'[u] = task[u]
        BY <1>3, <1>6, <1>7, <1>r, <3>1
      <3> QED
        BY <1>3, <1>6, <3>1, <3>2 DEF Holds
    <2>5. \A q \in DOMAIN request : q = registered[j] =>
            AnswersSame(q) /\ request'[q].last = request[q].last /\ request'[q].from = request[q].from
      BY <1>2, <1>3, AnswersMove
    <2> QED
      BY <1>2, <2>1, <2>2, <2>3, <2>4, <2>5, Elsewhere
  <1>8. CASE j = i
    <2>1. registered[i] = 0 /\ OfSession(i) = {} /\ EventsOf(i) = {}
      BY <1>2, <1>8 DEF AboutId, OfSession, EventsOf
    <2>2. EventsOf(i)' = {} /\ registered'[i] = n
      BY <1>2, <1>5, <2>1 DEF EventsOf
    <2>3. ~Granted(n)' /\ ~Refused(n)'
      <3>1. \A k \in DOMAIN inbox : inbox[k].req # n
        BY <1>3, Fields
      <3> QED
        BY <1>2, <1>3, <3>1 DEF Granted, Refused
    <2>4. n # 0
      BY <1>3
    <2>5. HolderListens(i)'
      <3> SUFFICES ASSUME NEW u \in Tasks, Holds(u, i)'
                   PROVE  task'[u].req = n
        BY <2>2 DEF HolderListens
      <3>1. task'[u].at # "idle" /\ request'[task'[u].req].id = i
            /\ request'[task'[u].req].op = "open"
        BY DEF Holds
      <3>2. CASE task'[u] = task[u]
        <4>1. Holds(u, i) /\ task[u].req \in DOMAIN request
          BY <1>3, <1>6, <3>1, <3>2 DEF Holds
        <4>2. task[u].req = 0
          BY <1>8, <2>1, <4>1 DEF Tidy, HolderListens
        <4> QED
          BY <1>3, <4>1, <4>2
      <3> QED
        BY <1>6, <3>2
    <2>6. OfSession(i)' \subseteq {Len(outbox) + 1}
          /\ \A k \in OfSession(i)' : ~hung /\ outbox'[k] = g
      <3>1. CASE outbox' = outbox
        BY <2>1, <3>1 DEF OfSession
      <3>2. CASE ~hung /\ outbox' = Append(outbox, g)
        <4>1. DOMAIN outbox' = DOMAIN outbox \cup {Len(outbox) + 1}
              /\ outbox'[Len(outbox) + 1] = g /\ \A k \in DOMAIN outbox : outbox'[k] = outbox[k]
          BY <1>5, <3>2
        <4> QED
          BY <2>1, <3>2, <4>1 DEF OfSession
      <3> QED
        BY <1>3, <3>1, <3>2 DEF g
    <2>7. OneAsk(i)' /\ PartsForGood(i)'
      BY <1>4, <2>6 DEF OneAsk, PartsForGood
    <2>8. OpensFresh(i)'
      <3> SUFFICES ASSUME NEW k \in OfSession(i)'
                   PROVE  /\ outbox'[k].req = n
                          /\ ~Granted(n)' /\ ~Refused(n)'
                          /\ ~there'[i].open /\ EventsOf(i)' = {}
                          /\ request'[n].last = 0
                          /\ request'[n].from <= there'[i].seq
        BY <2>2 DEF OpensFresh, Granted, Refused
      <3>1. ~hung /\ outbox'[k] = g
        BY <2>6
      <3>2. ~there[i].open
        BY <1>8, <2>1, <3>1 DEF Tidy, Absent
      <3>3. from <= there[i].seq
        BY <1>0, <1>5, <1>8 DEF Tidy, Behind
      <3> QED
        BY <1>2, <1>3, <1>4, <1>r, <2>2, <2>3, <3>1, <3>2, <3>3
    <2>9. Follows(i)' /\ Denied(i)' /\ Absent(i)'
      BY <2>2, <2>3, <2>4 DEF Follows, Denied, Absent, Granted, Refused
    <2>10. Behind(i)'
      BY <1>2, <1>8 DEF Tidy, Behind
    <2> QED
      BY <1>8, <2>5, <2>7, <2>8, <2>9, <2>10 DEF Tidy
  <1> QED
    BY <1>7, <1>8

LEMMA ListTidy ==
  ASSUME TypeOK, TypeOK', Consistent, NEW j \in Ids, Tidy(j), NEW t \in Tasks, ListSessions(t)
  PROVE  Tidy(j)'
  <1>1. PICK i \in Ids :
          /\ Asks(t, [op |-> "list", id |-> i, from |-> 0, last |-> 0, ended |-> FALSE],
                     [op |-> "list", id |-> i, from |-> 0, resume |-> FALSE, req |-> 0])
          /\ UNCHANGED <<reader, inbox, daemon, registered, bookmark, mixed>>
    BY DEF ListSessions
  <1> DEFINE r == [op |-> "list", id |-> i, from |-> 0, last |-> 0, ended |-> FALSE]
             frame == [op |-> "list", id |-> i, from |-> 0, resume |-> FALSE, req |-> 0]
  <1>2. 0 \in 0..MaxSeq
    BY BoundAssumption
  <1>3. r \in RequestType /\ frame \in AskType(0) /\ Asks(t, r, frame)
    BY <1>1, <1>2 DEF RequestType, AskType
  <1>4. /\ inbox' = inbox /\ hung' = hung /\ there' = there /\ bookmark' = bookmark
        /\ registered' = registered
    BY <1>1 DEF daemon
  <1>5. r.op = "list" /\ frame.op = "list"
    OBVIOUS
  <1> HIDE DEF r, frame
  <1>l. Len(request') = Len(request) + 1 /\ Len(request) \in Nat
    BY <1>3, AsksTypes
  <1>6. PICK n \in Nat : n = Len(request')
    BY <1>l
  <1>7. /\ n = Len(request) + 1 /\ Len(request) \in Nat
        /\ request'[n] = r
        /\ \A k \in DOMAIN request : request'[k] = request[k] /\ future'[k] = future[k]
        /\ \/ hung /\ UNCHANGED <<outbox, task>>
           \/ /\ ~hung
              /\ outbox' = Append(outbox, [frame EXCEPT !.req = n])
              /\ task' = [task EXCEPT ![t] = [at |-> "waiting", req |-> n]]
    BY <1>3, <1>6, AsksTypes
  <1>8. [frame EXCEPT !.req = n].op = "list"
    BY <1>3, <1>5 DEF AskType
  <1>9. AsksSame(j, 0) /\ EventsSame(j, 0)
    BY <1>4, <1>7, <1>8, AsksMoves, EventsMoves
  <1>10. ASSUME NEW u \in Tasks, Holds(u, j)'
         PROVE  Holds(u, j) /\ task'[u].req = task[u].req
    <2>1. task \in [Tasks -> TaskType(Len(request))]
      BY Types
    <2>2. task'[u].at # "idle" /\ request'[task'[u].req].id = j
          /\ request'[task'[u].req].op = "open"
      BY <1>10 DEF Holds
    <2>3. task'[u] = task[u]
      BY <1>5, <1>7, <2>1, <2>2
    <2>4. task[u].req \in DOMAIN request
      BY <2>2, <2>3 DEF Consistent, Assigned
    <2> QED
      BY <1>7, <2>2, <2>3, <2>4 DEF Holds
  <1>11. \A q \in DOMAIN request : q = registered[j] =>
          AnswersSame(q) /\ request'[q].last = request[q].last /\ request'[q].from = request[q].from
    BY <1>4, <1>7, AnswersMove
  <1> QED
    BY <1>4, <1>9, <1>10, <1>11, Elsewhere

LEMMA ReturnsTidy ==
  ASSUME TypeOK, TypeOK', Consistent, NEW j \in Ids, Tidy(j), NEW t \in Tasks, Returns(t)
  PROVE  Tidy(j)'
  <1>t. /\ task \in [Tasks -> TaskType(Len(request))] /\ registered \in [Ids -> 0..Len(request)]
    BY Types
  <1>1. PICK r \in Nat : r = task[t].req /\ r \in DOMAIN request
    BY Fields DEF Returns, Consistent, Assigned
  <1>2. /\ inbox' = inbox /\ hung' = hung /\ there' = there /\ bookmark' = bookmark
        /\ request' = request /\ future' = future /\ outbox' = outbox
    BY DEF Returns, loop, daemon
  <1>3. /\ task[t].at = "waiting"
        /\ \A u \in Tasks \ {t} : task'[u] = task[u]
        /\ \/ task'[t].at = "idle"
           \/ task'[t].at = "in" /\ task'[t].req = r /\ future[r] = "opened"
        /\ registered' = IF future[r] = "error" /\ request[r].op = "open"
                         THEN [registered EXCEPT ![request[r].id] = 0] ELSE registered
    BY <1>t, <1>1 DEF Returns, Resting
  <1>4. AsksSame(j, 0) /\ EventsSame(j, 0)
    BY <1>2, AsksMoves, EventsMoves
  <1>5. \A u \in Tasks : Holds(u, j)' => Holds(u, j) /\ task'[u].req = task[u].req
    BY <1>1, <1>2, <1>3 DEF Holds
  <1>6. \A q \in DOMAIN request : q = registered[j] =>
          AnswersSame(q) /\ request'[q].last = request[q].last /\ request'[q].from = request[q].from
    BY <1>2, AnswersMove
  <1>7. CASE registered'[j] = registered[j]
    BY <1>2, <1>4, <1>5, <1>6, <1>7, Elsewhere
  <1>8. CASE registered'[j] # registered[j]
    <2>1. future[r] = "error" /\ request[r].op = "open" /\ request[r].id = j /\ registered'[j] = 0
      BY <1>t, <1>3, <1>8
    <2>2. Holds(t, j) /\ registered[j] = r /\ r # 0
      BY <1>1, <1>3, <2>1, Fields DEF Holds, Tidy, HolderListens
    <2>3. Refused(registered[j]) /\ Refused(r)
      BY <2>1, <2>2 DEF Refused
    <2>4. ~there[j].open /\ ~Granted(r)
      BY <2>2, <2>3 DEF Tidy, Denied
    <2>5. OfSession(j) = {}
      <3>1. SUFFICES ASSUME NEW k \in OfSession(j)
                     PROVE  FALSE
        OBVIOUS
      <3>2. outbox[k].op # "open"
        BY <2>3 DEF Tidy, OpensFresh
      <3>3. outbox[k].op \in {"close", "delete"}
        BY <3>2, Fields DEF OfSession, AskType
      <3> QED
        BY <2>2, <3>3 DEF Tidy, PartsForGood
    <2>6. OfSession(j)' = {}
      BY <1>2, <2>5 DEF OfSession
    <2>7. \A u \in Tasks : ~Holds(u, j)'
      <3>1. SUFFICES ASSUME NEW u \in Tasks, Holds(u, j)'
                     PROVE  FALSE
        OBVIOUS
      <3>2. Holds(u, j) /\ task[u].req = r /\ task[u].at # "idle"
        BY <1>5, <2>2, <3>1 DEF Tidy, HolderListens, Holds
      <3>3. u = t
        BY <1>1, <1>3, <3>2 DEF Consistent, Assigned
      <3> QED
        BY <1>3, <2>1, <3>1, <3>3 DEF Holds
    <2>8. HolderListens(j)'
      BY <2>7 DEF HolderListens
    <2>9. OneAsk(j)' /\ OpensFresh(j)' /\ PartsForGood(j)'
      BY <2>6 DEF OneAsk, OpensFresh, PartsForGood
    <2>10. Follows(j)' /\ Denied(j)' /\ Absent(j)' /\ Behind(j)'
      BY <1>2, <2>1, <2>4 DEF Follows, Denied, Absent, Behind, Tidy
    <2> QED
      BY <2>8, <2>9, <2>10 DEF Tidy
  <1> QED
    BY <1>7, <1>8

LEMMA CancelledTidy ==
  ASSUME TypeOK, TypeOK', Consistent, NEW j \in Ids, Tidy(j), NEW t \in Tasks, Cancelled(t)
  PROVE  Tidy(j)'
  <1>t. /\ task \in [Tasks -> TaskType(Len(request))] /\ future \in Seq(Outcome)
    BY Types
  <1>1. /\ inbox' = inbox /\ hung' = hung /\ there' = there /\ bookmark' = bookmark
        /\ request' = request /\ registered' = registered /\ outbox' = outbox
        /\ future' = [future EXCEPT ![task[t].req] = "dropped"]
    BY DEF Cancelled, daemon
  <1>2. task'[t].at = "idle" /\ \A u \in Tasks \ {t} : task'[u] = task[u]
    BY <1>t DEF Cancelled, Resting
  <1>3. AsksSame(j, 0) /\ EventsSame(j, 0)
    BY <1>1, AsksMoves, EventsMoves
  <1>4. \A u \in Tasks : Holds(u, j)' => Holds(u, j) /\ task'[u].req = task[u].req
    BY <1>1, <1>2 DEF Holds
  <1>5. ASSUME NEW q \in DOMAIN request, q = registered[j]
        PROVE  AnswersSame(q)
    <2>1. q # 0
      BY <1>5, Fields
    <2>2. q \in DOMAIN future
      BY <1>5, <2>1, Registered
    <2>3. future'[q] \in {future[q], "dropped"}
      BY <1>1, <2>2
    <2> QED
      BY <1>1, <2>3, AnswersMove
  <1> QED
    BY <1>1, <1>3, <1>4, <1>5, Elsewhere

LEMMA LeavesTidy ==
  ASSUME TypeOK, TypeOK', Consistent, NEW j \in Ids, Tidy(j),
         NEW t \in Tasks, NEW delete \in BOOLEAN, Leaves(t, delete)
  PROVE  Tidy(j)'
  <1>t. /\ task \in [Tasks -> TaskType(Len(request))] /\ registered \in [Ids -> 0..Len(request)]
        /\ bookmark \in [Ids -> 0..MaxSeq] /\ outbox \in Seq(AskType(Len(request)))
        /\ there \in [Ids -> [open : BOOLEAN, seq : 0..MaxSeq]] /\ hung \in BOOLEAN
        /\ Len(future) = Len(request) /\ future \in Seq(Outcome)
    BY Types
  <1>1. PICK r \in Nat : r = task[t].req /\ r \in DOMAIN request /\ r # 0
    BY Fields DEF Leaves, Consistent, Assigned
  <1>2. PICK i \in Ids : i = request[r].id
    BY <1>1, Fields DEF RequestType
  <1> DEFINE x == [op |-> IF delete THEN "delete" ELSE "close", id |-> i,
                   from |-> 0, resume |-> FALSE, req |-> 0]
  <1>3. /\ inbox' = inbox /\ hung' = hung /\ there' = there
        /\ request' = request /\ future' = future
        /\ task' = [task EXCEPT ![t] = Resting] /\ task[t].at = "in"
        /\ \/ hung /\ outbox' = outbox /\ registered' = registered
           \/ ~hung /\ outbox' = Append(outbox, x) /\ registered' = [registered EXCEPT ![i] = 0]
        /\ bookmark' = [bookmark EXCEPT ![i] = IF delete THEN 0
                           ELSE Larger(bookmark[i], request[r].last)]
    BY <1>t, <1>1, <1>2 DEF Leaves, loop, daemon
  <1>4. x.id = i /\ x.op = IF delete THEN "delete" ELSE "close"
    OBVIOUS
  <1> HIDE DEF x
  <1>5. task'[t].at = "idle" /\ \A u \in Tasks \ {t} : task'[u] = task[u]
    BY <1>t, <1>3 DEF Resting
  <1>6. \A u \in Tasks : Holds(u, j)' => u # t /\ Holds(u, j) /\ task'[u].req = task[u].req
    BY <1>3, <1>5 DEF Holds
  <1>7. EventsSame(j, 0)
    BY <1>3, EventsMoves
  <1>8. \A q \in DOMAIN request : q = registered[j] =>
          AnswersSame(q) /\ request'[q].last = request[q].last /\ request'[q].from = request[q].from
    BY <1>3, AnswersMove
  <1>9. CASE j # i
    <2>1. AsksSame(j, 0)
      BY <1>3, <1>4, <1>9, AsksMoves
    <2>2. registered'[j] = registered[j] /\ bookmark'[j] = bookmark[j]
      BY <1>t, <1>3, <1>9
    <2> QED
      BY <1>3, <1>6, <1>7, <1>8, <2>1, <2>2, Elsewhere
  <1>10. CASE j = i
    <2>1. future[r] = "opened"
      BY <1>1, <1>3 DEF Consistent, Assigned
    <2>2. r \in DOMAIN future
      BY <1>t, <1>1, Fields, LenProperties
    <2>3. Holds(t, j)
      BY <1>1, <1>2, <1>3, <1>10, <2>1, <2>2 DEF Holds, Consistent, Listening
    <2>4. registered[j] = r /\ Granted(registered[j]) /\ Granted(r)
      BY <1>1, <2>1, <2>3 DEF Tidy, HolderListens, Granted
    <2>5. OfSession(j) = {}
      <3>1. SUFFICES ASSUME NEW k \in OfSession(j)
                     PROVE  FALSE
        OBVIOUS
      <3>2. outbox[k].op # "open"
        BY <2>4 DEF Tidy, OpensFresh
      <3>3. outbox[k].op \in {"close", "delete"}
        BY <3>2, Fields DEF OfSession, AskType
      <3> QED
        BY <1>1, <2>4, <3>3 DEF Tidy, PartsForGood
    <2>6. Contiguous(j, registered[j])
      BY <1>1, <2>4 DEF Tidy, Follows
    <2>7. Larger(request[r].last, request[r].from) <= there[j].seq
      BY <2>4, <2>6 DEF Contiguous, Heard
    <2>8. request[r].last \in 0..MaxSeq /\ request[r].from \in 0..MaxSeq
      BY <1>1, Fields DEF RequestType
    <2>9. Behind(j)'
      <3>1. bookmark[j] <= there[j].seq /\ bookmark[j] \in 0..MaxSeq /\ there[j].seq \in 0..MaxSeq
        BY <1>t DEF Tidy, Behind
      <3>2. bookmark'[j] = IF delete THEN 0 ELSE Larger(bookmark[j], request[r].last)
        BY <1>t, <1>3, <1>10
      <3>3. bookmark'[j] <= there[j].seq
        BY <2>7, <2>8, <3>1, <3>2 DEF Larger
      <3> QED
        BY <1>3, <3>3 DEF Behind
    <2>10. \A u \in Tasks : ~Holds(u, j)'
      <3>1. SUFFICES ASSUME NEW u \in Tasks, Holds(u, j)'
                     PROVE  FALSE
        OBVIOUS
      <3>2. u # t /\ task[u].req = r /\ task[u].at # "idle"
        BY <1>6, <2>4, <3>1 DEF Tidy, HolderListens, Holds
      <3> QED
        BY <1>1, <1>3, <3>2 DEF Consistent, Assigned
    <2>11. HolderListens(j)'
      BY <2>10 DEF HolderListens
    <2>12. CASE hung /\ outbox' = outbox /\ registered' = registered
      <3>1. OfSession(j)' = {}
        BY <2>5, <2>12 DEF OfSession
      <3>2. OneAsk(j)' /\ OpensFresh(j)' /\ PartsForGood(j)'
        BY <3>1 DEF OneAsk, OpensFresh, PartsForGood
      <3>3. UNCHANGED <<EventsOf(j), there, registered, inbox, request, future>> /\ Absent(j)'
        BY <1>3, <2>12 DEF EventsOf, Absent
      <3>4. Follows(j)' /\ Denied(j)'
        <4>1. Follows(j) /\ Denied(j)
          BY DEF Tidy
        <4> QED
          BY <3>3, <4>1 DEF Follows, Denied, Granted, Refused, Contiguous, Heard
      <3> QED
        BY <2>9, <2>11, <3>2, <3>3, <3>4 DEF Tidy
    <2>13. CASE ~hung /\ outbox' = Append(outbox, x) /\ registered' = [registered EXCEPT ![i] = 0]
      <3>1. registered'[j] = 0
        BY <1>t, <1>10, <2>13
      <3>2. DOMAIN outbox' = DOMAIN outbox \cup {Len(outbox) + 1}
            /\ outbox'[Len(outbox) + 1] = x /\ \A k \in DOMAIN outbox : outbox'[k] = outbox[k]
        BY <1>t, <2>13
      <3>3. OfSession(j)' = {Len(outbox) + 1}
        BY <1>4, <1>10, <2>5, <3>2 DEF OfSession
      <3>4. OneAsk(j)' /\ OpensFresh(j)'
        BY <1>4, <3>2, <3>3 DEF OneAsk, OpensFresh
      <3>5. delete => bookmark'[j] = 0
        BY <1>t, <1>3, <1>10
      <3>6. PartsForGood(j)'
        BY <1>4, <3>1, <3>2, <3>3, <3>5 DEF PartsForGood
      <3>7. Follows(j)' /\ Denied(j)' /\ Absent(j)'
        BY <3>1, <3>3 DEF Follows, Denied, Absent
      <3> QED
        BY <2>9, <2>11, <3>4, <3>6, <3>7 DEF Tidy
    <2> QED
      BY <1>3, <2>12, <2>13
  <1> QED
    BY <1>9, <1>10

(* The reader hears the first of the events under way.                     *)
LEMMA ReadsTidy ==
  ASSUME TypeOK, TypeOK', Consistent, Consistent', NEW j \in Ids, Tidy(j), Reads
  PROVE  Tidy(j)'
  <1> DEFINE f == inbox[1]
  <1>t. /\ inbox \in Seq(TellType(Len(request))) /\ registered \in [Ids -> 0..Len(request)]
        /\ there \in [Ids -> [open : BOOLEAN, seq : 0..MaxSeq]]
        /\ Len(future) = Len(request) /\ future \in Seq(Outcome)
    BY Types
  <1>1. /\ inbox # <<>> /\ inbox' = Tail(inbox)
        /\ UNCHANGED <<hung, there, registered, task, outbox, bookmark>>
        /\ future' = IF Head(inbox).req \in pending /\ future[Head(inbox).req] = "open"
                     THEN [future EXCEPT ![Head(inbox).req] = Head(inbox).type] ELSE future
    BY DEF Reads, daemon
  <1>2. /\ Head(inbox) = f /\ 1 \in DOMAIN inbox
        /\ \A k \in DOMAIN inbox' : k + 1 \in DOMAIN inbox /\ inbox'[k] = inbox[k + 1]
                                /\ k \in Nat \ {0}
        /\ \A k \in DOMAIN inbox : k # 1 => k - 1 \in DOMAIN inbox' /\ k \in Nat
    BY <1>t, <1>1, Tails
  <1>3. /\ SameRequests
        /\ \A r \in DOMAIN request :
             request'[r].last = IF f.seq # 0 /\ registered[f.id] = r
                                THEN Larger(request[r].last, f.seq) ELSE request[r].last
    BY ReadsRequests
  <1>4. f.id \in Ids /\ f.seq \in 0..MaxSeq
    BY <1>2, Fields
  <1>5. AsksSame(j, 0)
    BY <1>1, AsksMoves
  <1>6. \A u \in Tasks : Holds(u, j)' => Holds(u, j) /\ task'[u].req = task[u].req
    BY <1>1, <1>3 DEF Holds, SameRequests, Consistent, Assigned
  <1>7. ASSUME NEW q \in DOMAIN request
        PROVE  AnswersSame(q)
    <2>1. q \in DOMAIN future
      BY <1>t, <1>7, Fields, LenProperties
    <2>2. future'[q] = future[q] \/ (q = f.req /\ future'[q] = f.type)
      BY <1>1, <1>2, <2>1
    <2> QED
      BY <1>2, <2>2 DEF AnswersSame, Granted, Refused
  <1> HIDE DEF f
  <1>8. CASE f.id # j \/ f.seq = 0
    <2>1. EventsSame(j, 1)
      BY <1>1, <1>8, EventsMoves DEF f
    <2>2. ASSUME NEW q \in DOMAIN request, q = registered[j]
          PROVE  AnswersSame(q) /\ request'[q].last = request[q].last
                 /\ request'[q].from = request[q].from
      <3>1. f.seq # 0 => registered[f.id] # q
        BY <1>4, <1>8, <2>2, Registered, Fields
      <3> QED
        BY <1>3, <1>7, <3>1 DEF SameRequests
    <2> QED
      BY <1>1, <1>5, <1>6, <2>1, <2>2, Elsewhere
  <1>9. CASE f.id = j /\ f.seq # 0
    <2>1. 1 \in EventsOf(j)
      BY <1>2, <1>9 DEF EventsOf, f
    <2>2. HolderListens(j)'
      BY <1>1, <1>6 DEF Tidy, HolderListens
    <2>3. OneAsk(j)'
      BY <1>1 DEF Tidy, OneAsk, OfSession
    <2>4. \A k \in OfSession(j) : outbox[k].op # "open"
      BY <2>1 DEF Tidy, OpensFresh
    <2>5. OpensFresh(j)'
      BY <1>1, <2>4 DEF OpensFresh, OfSession
    <2>6. PartsForGood(j)' /\ Absent(j)' /\ Behind(j)'
      BY <1>1 DEF Tidy, PartsForGood, Absent, Behind, OfSession
    <2>7. PICK r \in Nat : r = registered[j] /\ r = registered'[j]
      BY <1>t, <1>1, Fields
    <2>8. r # 0 => /\ r \in DOMAIN request /\ request[r] \in RequestType
                   /\ (Granted(r)' => Granted(r)) /\ (Refused(r)' => Refused(r))
                   /\ request'[r].last = Larger(request[r].last, f.seq)
                   /\ request'[r].from = request[r].from
      BY <1>3, <1>7, <1>9, <2>7, Registered DEF AnswersSame, SameRequests
    <2>9. Denied(j)'
      BY <1>1, <2>7, <2>8 DEF Tidy, Denied, Granted, Refused
    <2>10. Follows(j)'
      <3> SUFFICES ASSUME r # 0, Granted(r)'
                   PROVE  Contiguous(j, r)'
        BY <2>7 DEF Follows, Granted, Contiguous, Heard
      <3>1. Contiguous(j, r)
        BY <2>7, <2>8 DEF Tidy, Follows, Granted, Contiguous, Heard
      <3>2. there[j].seq \in Nat /\ f.seq \in Nat /\ Heard(r) \in Nat
            /\ request[r].last \in Nat /\ request[r].from \in Nat
        BY <1>t, <1>4, <2>8 DEF Heard, Larger, RequestType
      <3>3. f.seq = Heard(r) + 1
        <4>1. f.seq \in (Heard(r) + 1)..there[j].seq
          BY <2>1, <3>1 DEF Contiguous, f
        <4>2. Heard(r) + 1 \in (Heard(r) + 1)..there[j].seq
          BY <3>2, <4>1
        <4>3. PICK k \in EventsOf(j) : inbox[k].seq = Heard(r) + 1
          BY <3>1, <4>2 DEF Contiguous
        <4>4. k = 1 \/ 1 < k
          BY <1>t, <4>3, LenProperties DEF EventsOf
        <4>5. CASE 1 < k
          <5>1. f.seq < inbox[k].seq
            BY <2>1, <3>1, <4>3, <4>5 DEF Contiguous, f
          <5> QED
            BY <3>2, <4>1, <4>3, <5>1
        <4> QED
          BY <4>3, <4>4, <4>5 DEF f
      <3>4. Heard(r)' = Heard(r) + 1
        <4>1. Heard(r)' = Larger(Larger(request[r].last, f.seq), request[r].from)
          BY <2>8 DEF Heard, Larger
        <4> QED
          BY <3>2, <3>3, <4>1 DEF Heard, Larger
      <3>5. \A k \in EventsOf(j)' : k + 1 \in EventsOf(j) /\ inbox'[k] = inbox[k + 1] /\ k \in Nat /\ 1 < k + 1
        BY <1>2 DEF EventsOf
      <3>6. ASSUME NEW k \in EventsOf(j), k # 1
            PROVE  k - 1 \in EventsOf(j)' /\ inbox'[k - 1] = inbox[k]
        <4>1. k - 1 \in DOMAIN inbox' /\ k \in Nat
          BY <1>2, <3>6 DEF EventsOf
        <4>2. (k - 1) + 1 = k
          BY <4>1
        <4>3. inbox'[k - 1] = inbox[k]
          BY <1>2, <4>1, <4>2
        <4> QED
          BY <3>6, <4>1, <4>3 DEF EventsOf
      <3>7. ASSUME NEW k \in EventsOf(j)'
            PROVE  inbox'[k].seq \in (Heard(r) + 2)..there[j].seq
        <4>1. inbox'[k].seq \in (Heard(r) + 1)..there[j].seq
          BY <3>1, <3>5 DEF Contiguous
        <4>2. f.seq < inbox'[k].seq
          BY <2>1, <3>1, <3>5 DEF Contiguous, f
        <4> QED
          BY <3>2, <3>3, <4>1, <4>2
      <3>8. ASSUME NEW k \in EventsOf(j)', NEW l \in EventsOf(j)', k < l
            PROVE  inbox'[k].seq < inbox'[l].seq
        <4>1. k + 1 < l + 1
          BY <3>5, <3>8
        <4> QED
          BY <3>1, <3>5, <4>1 DEF Contiguous
      <3>9. ASSUME NEW n \in (Heard(r) + 2)..there[j].seq
            PROVE  \E k \in EventsOf(j)' : inbox'[k].seq = n
        <4>1. n \in (Heard(r) + 1)..there[j].seq /\ n # Heard(r) + 1
          BY <3>2
        <4>2. PICK k \in EventsOf(j) : inbox[k].seq = n
          BY <3>1, <4>1 DEF Contiguous
        <4>3. k # 1
          BY <3>3, <4>1, <4>2 DEF f
        <4> QED
          BY <3>6, <4>2, <4>3
      <3>10. Heard(r) + 1 <= there[j].seq
        BY <2>1, <3>1, <3>2, <3>3 DEF Contiguous, f
      <3>11. (Heard(r) + 1) + 1 = Heard(r) + 2
        BY <3>2
      <3> QED
        BY <1>1, <3>4, <3>7, <3>8, <3>9, <3>10, <3>11 DEF Contiguous
    <2> QED
      BY <2>2, <2>3, <2>5, <2>6, <2>9, <2>10 DEF Tidy
  <1> QED
    BY <1>4, <1>8, <1>9

(* The daemon grants an open, and replays what comes after its bookmark.   *)
LEMMA GrantTidy ==
  ASSUME TypeOK, TypeOK', Consistent, NEW j \in Ids, Tidy(j), Handles,
         outbox[1].id = j, outbox[1].op = "open",
         inbox' = inbox \o <<Answer(outbox[1], "opened")>> \o Replay(outbox[1]),
         there' = [there EXCEPT ![j].open = TRUE], OfSession(j)' = {}, 1 \in OfSession(j)
  PROVE  Tidy(j)'
  <1> DEFINE f == outbox[1]
             n == Len(inbox)
             m == IF there[f.id].seq > f.from THEN there[f.id].seq - f.from ELSE 0
  <1>t. /\ registered \in [Ids -> 0..Len(request)]
        /\ there \in [Ids -> [open : BOOLEAN, seq : 0..MaxSeq]]
        /\ bookmark \in [Ids -> 0..MaxSeq]
    BY Types
  <1>1. /\ UNCHANGED <<hung, request, future, registered, task, bookmark>>
        /\ f \in AskType(Len(request))
    BY HandlesTypes DEF Handles
  <1>2. /\ n \in Nat /\ DOMAIN inbox = 1..n /\ DOMAIN inbox' = 1..(n + 1 + m)
        /\ \A k \in 1..n : inbox'[k] = inbox[k]
        /\ inbox'[n + 1] = Answer(f, "opened")
        /\ \A k \in 1..m : inbox'[n + 1 + k] = Event(f.id, f.from + k)
    BY <1>1, Granting
  <1>3. PICK r \in Nat : r = registered[j] /\ r = registered'[j]
    BY <1>t, <1>1, Fields
  <1>4. /\ f.req = r /\ r # 0 /\ request[r].from = f.from /\ request[r].last = 0
        /\ ~Granted(r) /\ ~Refused(r) /\ ~there[j].open /\ EventsOf(j) = {}
        /\ f.from <= there[j].seq
    BY <1>3 DEF Tidy, OpensFresh, Consistent, Asked, OfSession, Granted, Refused
  <1>5. f.from \in Nat /\ there[j].seq \in Nat /\ there'[j].seq = there[j].seq
        /\ m = there[j].seq - f.from /\ m \in Nat
    BY <1>t, <1>1, <1>4 DEF AskType
  <1>j. f.id = j
    OBVIOUS
  <1> HIDE DEF f, n, m
  <1>6. \A k \in 1..m : inbox'[n + 1 + k].id = j /\ inbox'[n + 1 + k].seq = f.from + k
                      /\ inbox'[n + 1 + k].type = "event"
    <2> SUFFICES ASSUME NEW k \in 1..m
                 PROVE  inbox'[n + 1 + k].id = j /\ inbox'[n + 1 + k].seq = f.from + k
                        /\ inbox'[n + 1 + k].type = "event"
      OBVIOUS
    <2>1. inbox'[n + 1 + k] = Event(f.id, f.from + k)
      BY <1>2
    <2>2. /\ Event(f.id, f.from + k).id = f.id /\ Event(f.id, f.from + k).type = "event"
          /\ Event(f.id, f.from + k).seq = f.from + k
      BY <1>5 DEF Event
    <2> QED
      BY <1>j, <2>1, <2>2
  <1>7. inbox'[n + 1].seq = 0 /\ inbox'[n + 1].type = "opened"
    BY <1>2 DEF Answer
  <1>m. m \in Nat /\ n \in Nat
    BY <1>2, <1>5
  <1>8. ASSUME NEW k \in DOMAIN inbox', k \notin 1..(n + 1)
        PROVE  k - (n + 1) \in 1..m /\ n + 1 + (k - (n + 1)) = k
    <2>1. k \in 1..(n + 1 + m)
      BY <1>2
    <2> QED
      BY <1>m, <1>8, <2>1
  <1>9. ASSUME NEW k \in EventsOf(j)'
        PROVE  k - (n + 1) \in 1..m /\ k = n + 1 + (k - (n + 1)) /\ inbox'[k].seq = f.from + (k - (n + 1))
    <2>1. k \in DOMAIN inbox' /\ inbox'[k].id = j /\ inbox'[k].seq # 0
      BY DEF EventsOf
    <2>2. k \notin 1..n
      BY <1>2, <1>4, <2>1 DEF EventsOf
    <2>3. k \notin 1..(n + 1)
      BY <1>2, <1>7, <2>1, <2>2
    <2> DEFINE l == k - (n + 1)
    <2>4. l \in 1..m /\ n + 1 + l = k
      BY <1>8, <2>1, <2>3
    <2> HIDE DEF l
    <2>5. inbox'[n + 1 + l].seq = f.from + l
      BY <1>6, <2>4
    <2>6. inbox'[k].seq = f.from + l
      BY <2>4, <2>5
    <2> QED
      BY <2>4, <2>6 DEF l
  <1>10. ASSUME NEW k \in 1..m
         PROVE  n + 1 + k \in EventsOf(j)' /\ inbox'[n + 1 + k].seq = f.from + k
    <2>1. n + 1 + k \in DOMAIN inbox'
      BY <1>2, <1>5
    <2>2. f.from + k # 0
      BY <1>5
    <2> QED
      BY <1>6, <2>1, <2>2 DEF EventsOf
  <1>11. Heard(r)' = f.from
    BY <1>1, <1>4, <1>5 DEF Heard, Larger
  <1>12. Contiguous(j, r)'
    <2>1. f.from <= there'[j].seq
      BY <1>4, <1>5
    <2>2. \A k \in EventsOf(j)' : inbox'[k].seq \in (f.from + 1)..there'[j].seq
      <3> SUFFICES ASSUME NEW k \in EventsOf(j)'
                   PROVE  inbox'[k].seq \in (f.from + 1)..there'[j].seq
        OBVIOUS
      <3> DEFINE l == k - (n + 1)
      <3>1. l \in 1..m /\ inbox'[k].seq = f.from + l
        BY <1>9
      <3> HIDE DEF l
      <3>2. there'[j].seq = f.from + m
        BY <1>5
      <3>3. f.from + l \in (f.from + 1)..(f.from + m)
        BY <1>5, <1>m, <3>1
      <3> QED
        BY <3>1, <3>2, <3>3
    <2>3. \A k, l \in EventsOf(j)' : k < l => inbox'[k].seq < inbox'[l].seq
      <3> SUFFICES ASSUME NEW k \in EventsOf(j)', NEW l \in EventsOf(j)', k < l
                   PROVE  inbox'[k].seq < inbox'[l].seq
        OBVIOUS
      <3> DEFINE a == k - (n + 1)
                 b == l - (n + 1)
      <3>1. a \in 1..m /\ inbox'[k].seq = f.from + a /\ k = n + 1 + a
        BY <1>9
      <3>2. b \in 1..m /\ inbox'[l].seq = f.from + b /\ l = n + 1 + b
        BY <1>9
      <3> HIDE DEF a, b
      <3>3. a < b
        BY <1>m, <3>1, <3>2
      <3>4. f.from + a < f.from + b
        BY <1>5, <1>m, <3>1, <3>2, <3>3
      <3> QED
        BY <3>1, <3>2, <3>4
    <2>4. \A v \in (f.from + 1)..there'[j].seq : \E k \in EventsOf(j)' : inbox'[k].seq = v
      <3> SUFFICES ASSUME NEW v \in (f.from + 1)..there'[j].seq
                   PROVE  \E k \in EventsOf(j)' : inbox'[k].seq = v
        OBVIOUS
      <3>1. v - f.from \in 1..m /\ f.from + (v - f.from) = v
        BY <1>5
      <3> QED
        BY <1>10, <3>1
    <2> QED
      BY <1>11, <2>1, <2>2, <2>3, <2>4 DEF Contiguous
  <1>13. ~Refused(r)'
    <2>1. future'[r] # "error"
      BY <1>1, <1>4 DEF Refused
    <2>2. ASSUME NEW k \in DOMAIN inbox', inbox'[k].type = "error"
          PROVE  inbox'[k].req # r
      <3>1. CASE k \in 1..n
        BY <1>2, <1>4, <2>2, <3>1 DEF Refused
      <3>2. CASE k \notin 1..(n + 1)
        <4> DEFINE l == k - (n + 1)
        <4>1. l \in 1..m /\ n + 1 + l = k
          BY <1>8, <3>2
        <4> HIDE DEF l
        <4>2. inbox'[n + 1 + l].type = "event"
          BY <1>6, <4>1
        <4> QED
          BY <2>2, <4>1, <4>2
      <3>3. k \in 1..n \/ k = n + 1 \/ k \notin 1..(n + 1)
        BY <1>2
      <3> QED
        BY <1>7, <2>2, <3>1, <3>2, <3>3
    <2> QED
      BY <2>1, <2>2 DEF Refused
  <1>14. HolderListens(j)'
    BY <1>1 DEF Tidy, HolderListens, Holds
  <1>15. OneAsk(j)' /\ OpensFresh(j)' /\ PartsForGood(j)'
    BY DEF OneAsk, OpensFresh, PartsForGood
  <1>16. Follows(j)'
    BY <1>3, <1>12 DEF Follows, Contiguous, Heard
  <1>17. Denied(j)'
    BY <1>3, <1>13 DEF Denied, Refused
  <1>18. Absent(j)' /\ Behind(j)'
    BY <1>1, <1>3, <1>4, <1>5 DEF Tidy, Absent, Behind
  <1> QED
    BY <1>14, <1>15, <1>16, <1>17, <1>18 DEF Tidy

LEMMA HandlesTidy ==
  ASSUME TypeOK, TypeOK', Consistent, NEW j \in Ids, Tidy(j), Handles
  PROVE  Tidy(j)'
  <1> DEFINE f == outbox[1]
  <1>t. /\ registered \in [Ids -> 0..Len(request)]
        /\ there \in [Ids -> [open : BOOLEAN, seq : 0..MaxSeq]]
        /\ bookmark \in [Ids -> 0..MaxSeq] /\ outbox \in Seq(AskType(Len(request)))
        /\ inbox \in Seq(TellType(Len(request)))
    BY Types
  <1>1. /\ UNCHANGED <<hung, request, future, registered, task, bookmark>>
        /\ f \in AskType(Len(request)) /\ f.id \in Ids
        /\ outbox # <<>> /\ outbox' = Tail(outbox)
    BY HandlesTypes DEF Handles, AskType
  <1>2. /\ 1 \in DOMAIN outbox
        /\ \A k \in DOMAIN outbox' : k + 1 \in DOMAIN outbox /\ outbox'[k] = outbox[k + 1]
                                 /\ k \in Nat \ {0}
    BY <1>t, <1>1, Tails
  <1>3. \A u \in Tasks : Holds(u, j)' => Holds(u, j) /\ task'[u].req = task[u].req
    BY <1>1 DEF Holds
  <1>4. CASE f.id # j \/ f.op = "list"
    <2>1. AsksSame(j, 1)
      BY <1>1, <1>4, AsksMoves
    <2>2. there'[j] = there[j]
      BY <1>t, <1>1, <1>4, HandlesCases
    <2>3. EventsSame(j, 0)
      <3>1. CASE inbox' = inbox
        BY <3>1, EventsMoves
      <3>2. ASSUME NEW type, inbox' = Append(inbox, Answer(f, type))
            PROVE  EventsSame(j, 0)
        <4>1. Answer(f, type).seq = 0
          BY DEF Answer
        <4> QED
          BY <3>2, <4>1, EventsMoves
      <3>3. CASE f.op = "open" /\ inbox' = inbox \o <<Answer(f, "opened")>> \o Replay(f)
        <4> DEFINE n == Len(inbox)
                   m == IF there[f.id].seq > f.from THEN there[f.id].seq - f.from ELSE 0
        <4>1. /\ n \in Nat /\ DOMAIN inbox = 1..n /\ DOMAIN inbox' = 1..(n + 1 + m)
              /\ \A k \in 1..n : inbox'[k] = inbox[k]
              /\ inbox'[n + 1] = Answer(f, "opened")
              /\ \A k \in 1..m : inbox'[n + 1 + k] = Event(f.id, f.from + k)
          BY <1>1, <3>3, Granting
        <4>2. m \in Nat
          <5>1. there[f.id].seq \in 0..MaxSeq /\ f.from \in 0..MaxSeq
            BY <1>t, <1>1 DEF AskType
          <5> QED
            BY <5>1, BoundAssumption
        <4>3. f.id # j
          BY <1>4, <3>3
        <4> HIDE DEF n, m, f
        <4>4. ASSUME NEW k \in DOMAIN inbox', k \notin 1..n, k # n + 1
              PROVE  inbox'[k].id = f.id
          <5> DEFINE l == k - (n + 1)
          <5>1. k \in 1..(n + 1 + m)
            BY <4>1
          <5>2. l \in 1..m /\ n + 1 + l = k
            BY <4>1, <4>2, <4>4, <5>1
          <5> HIDE DEF l
          <5>3. inbox'[n + 1 + l] = Event(f.id, f.from + l)
            BY <4>1, <5>2
          <5> QED
            BY <5>2, <5>3 DEF Event
        <4>5. inbox'[n + 1].id = f.id
          BY <4>1 DEF Answer
        <4>6. \A k \in EventsOf(j)' : k \in EventsOf(j) /\ inbox'[k] = inbox[k]
          BY <4>1, <4>3, <4>4, <4>5 DEF EventsOf
        <4>7. \A k \in EventsOf(j) : k \in EventsOf(j)' /\ inbox'[k] = inbox[k]
          BY <4>1, <4>2 DEF EventsOf
        <4>8. EventsOf(j) \subseteq Nat /\ EventsOf(j)' \subseteq Nat
          BY Indices
        <4> QED
          BY <4>6, <4>7, <4>8 DEF EventsSame
      <3> QED
        BY <3>1, <3>2, <3>3, HandlesCases
    <2>4. ASSUME NEW q \in DOMAIN request, q = registered[j]
          PROVE  AnswersSame(q)
      <3>1. request[q].op = "open" /\ request[q].id = j
        BY <2>4, Registered, Fields
      <3>2. f.op = "open" => f.req # q
        BY <1>2, <1>4, <3>1 DEF Consistent, Asked
      <3>3. CASE inbox' = inbox
        BY <1>1, <3>3, AnswersMove
      <3>4. ASSUME NEW type, inbox' = Append(inbox, Answer(f, type)), type = "sessions" \/ f.op = "open"
            PROVE  AnswersSame(q)
        <4>1. Answer(f, type).type = type /\ Answer(f, type).req = f.req
          BY DEF Answer
        <4> QED
          BY <1>1, <3>2, <3>4, <4>1, AnswersMove
      <3>5. CASE f.op = "open" /\ inbox' = inbox \o <<Answer(f, "opened")>> \o Replay(f)
        <4> DEFINE n == Len(inbox)
                   m == IF there[f.id].seq > f.from THEN there[f.id].seq - f.from ELSE 0
        <4>1. /\ n \in Nat /\ DOMAIN inbox = 1..n /\ DOMAIN inbox' = 1..(n + 1 + m)
              /\ \A k \in 1..n : inbox'[k] = inbox[k]
              /\ inbox'[n + 1] = Answer(f, "opened")
              /\ \A k \in 1..m : inbox'[n + 1 + k] = Event(f.id, f.from + k)
          BY <1>1, <3>5, Granting
        <4>2. m \in Nat
          <5>1. there[f.id].seq \in 0..MaxSeq /\ f.from \in 0..MaxSeq
            BY <1>t, <1>1 DEF AskType
          <5> QED
            BY <5>1, BoundAssumption
        <4> HIDE DEF n, m, f
        <4>3. ASSUME NEW k \in DOMAIN inbox', k \notin 1..n, k # n + 1
              PROVE  inbox'[k].type = "event"
          <5> DEFINE l == k - (n + 1)
          <5>1. k \in 1..(n + 1 + m)
            BY <4>1
          <5>2. l \in 1..m /\ n + 1 + l = k
            BY <4>1, <4>2, <4>3, <5>1
          <5> HIDE DEF l
          <5>3. inbox'[n + 1 + l] = Event(f.id, f.from + l)
            BY <4>1, <5>2
          <5> QED
            BY <5>2, <5>3 DEF Event
        <4>4. inbox'[n + 1].req = f.req
          BY <4>1 DEF Answer
        <4>5. \A k \in DOMAIN inbox' : inbox'[k].type \in {"opened", "error"} /\ inbox'[k].req = q
                => k \in DOMAIN inbox /\ inbox'[k] = inbox[k]
          BY <3>2, <3>5, <4>1, <4>3, <4>4
        <4> QED
          BY <1>1, <4>5 DEF AnswersSame, Granted, Refused
      <3> QED
        BY <3>3, <3>4, <3>5, HandlesCases
    <2> QED
      BY <1>1, <1>3, <2>1, <2>2, <2>3, <2>4, Elsewhere
  <1>5. CASE f.id = j /\ f.op # "list"
    <2>1. 1 \in OfSession(j)
      BY <1>2, <1>5 DEF OfSession
    <2>2. OfSession(j)' = {}
      <3>1. SUFFICES ASSUME NEW k \in OfSession(j)'
                     PROVE  FALSE
        OBVIOUS
      <3>2. k + 1 \in OfSession(j) /\ k \in Nat \ {0}
        BY <1>2 DEF OfSession
      <3>3. k + 1 = 1
        BY <2>1, <3>2 DEF Tidy, OneAsk
      <3> QED
        BY <3>2, <3>3
    <2>3. HolderListens(j)'
      BY <1>1, <1>3 DEF Tidy, HolderListens
    <2>4. OneAsk(j)' /\ OpensFresh(j)' /\ PartsForGood(j)'
      BY <2>2 DEF OneAsk, OpensFresh, PartsForGood
    <2>5. CASE f.op \in {"close", "delete"}
      <3>1. registered[j] = 0 /\ registered'[j] = 0 /\ (f.op = "delete" => bookmark[j] = 0)
        BY <1>1, <2>1, <2>5 DEF Tidy, PartsForGood
      <3>2. there' = [there EXCEPT ![f.id] = [open |-> FALSE,
                                       seq |-> IF f.op = "delete" THEN 0 ELSE there[f.id].seq]]
        BY <2>5, HandlesCases
      <3>3. ~there'[j].open /\ there'[j].seq = IF f.op = "delete" THEN 0 ELSE there[j].seq
        BY <1>t, <1>5, <3>2
      <3>4. Behind(j)'
        BY <1>1, <3>1, <3>3 DEF Tidy, Behind
      <3>5. Follows(j)' /\ Denied(j)' /\ Absent(j)'
        BY <3>1, <3>3 DEF Follows, Denied, Absent
      <3> QED
        BY <2>3, <2>4, <3>4, <3>5 DEF Tidy
    <2>6. CASE f.op = "open" /\ there' = [there EXCEPT ![f.id].open = TRUE]
               /\ inbox' = inbox \o <<Answer(f, "opened")>> \o Replay(f)
      BY <1>5, <2>1, <2>2, <2>6, GrantTidy
    <2>7. CASE f.op = "open" /\ inbox' = Append(inbox, Answer(f, "error"))
               /\ (there' = there \/ there' = [there EXCEPT ![f.id].open = FALSE])
      <3>1. PICK r \in Nat : r = registered[j] /\ r = registered'[j]
        BY <1>t, <1>1, Fields
      <3>2. /\ f.req = r /\ r # 0 /\ ~Granted(r) /\ ~there[j].open
        BY <1>2, <2>1, <2>7, <3>1 DEF Tidy, OpensFresh, Consistent, Asked, Granted, Refused
      <3>3. ~there'[j].open /\ there'[j].seq = there[j].seq
        BY <1>t, <1>5, <2>7, <3>2
      <3>4. ~Granted(r)'
        <4>1. Answer(f, "error").type = "error"
          BY DEF Answer
        <4>2. DOMAIN inbox' = DOMAIN inbox \cup {Len(inbox) + 1}
              /\ inbox'[Len(inbox) + 1] = Answer(f, "error")
              /\ \A k \in DOMAIN inbox : inbox'[k] = inbox[k]
          BY <1>t, <2>7
        <4> QED
          BY <1>1, <3>2, <4>1, <4>2 DEF Granted
      <3>5. Follows(j)' /\ Denied(j)'
        BY <3>1, <3>3, <3>4 DEF Follows, Denied, Granted
      <3>6. Absent(j)' /\ Behind(j)'
        BY <1>1, <3>3 DEF Tidy, Absent, Behind
      <3> QED
        BY <2>3, <2>4, <3>5, <3>6 DEF Tidy
    <2> QED
      BY <1>5, <2>5, <2>6, <2>7, HandlesCases
  <1> QED
    BY <1>4, <1>5

LEMMA EmitsTidy ==
  ASSUME TypeOK, TypeOK', Consistent, NEW j \in Ids, Tidy(j), NEW i \in Ids, Emits(i)
  PROVE  Tidy(j)'
  <1>t. /\ registered \in [Ids -> 0..Len(request)]
        /\ there \in [Ids -> [open : BOOLEAN, seq : 0..MaxSeq]]
        /\ bookmark \in [Ids -> 0..MaxSeq] /\ inbox \in Seq(TellType(Len(request)))
    BY Types
  <1>1. /\ UNCHANGED <<hung, request, future, registered, task, outbox, bookmark>>
        /\ there[i].open /\ there' = [there EXCEPT ![i].seq = there[i].seq + 1]
        /\ inbox' = Append(inbox, Event(i, there'[i].seq))
    BY DEF Emits
  <1>2. PICK n \in Nat : n = there[i].seq
    BY <1>t, BoundAssumption
  <1>3. there'[i].seq = n + 1 /\ there'[i].open
    BY <1>t, <1>1, <1>2
  <1> DEFINE x == Event(i, n + 1)
  <1>4. x.type = "event" /\ x.id = i /\ x.seq = n + 1
    BY <1>2 DEF Event
  <1>5. inbox' = Append(inbox, x)
    BY <1>1, <1>3
  <1> HIDE DEF x
  <1>6. /\ DOMAIN inbox' = DOMAIN inbox \cup {Len(inbox) + 1} /\ Len(inbox) + 1 \notin DOMAIN inbox
        /\ inbox'[Len(inbox) + 1] = x /\ \A k \in DOMAIN inbox : inbox'[k] = inbox[k]
        /\ \A k \in DOMAIN inbox : k \in Nat /\ k < Len(inbox) + 1 /\ ~(Len(inbox) + 1 < k)
    BY <1>t, <1>5
  <1>7. \A u \in Tasks : Holds(u, j)' => Holds(u, j) /\ task'[u].req = task[u].req
    BY <1>1 DEF Holds
  <1>8. ASSUME NEW q \in DOMAIN request
        PROVE  AnswersSame(q)
    BY <1>1, <1>4, <1>5, AnswersMove
  <1>9. CASE j # i
    <2>1. AsksSame(j, 0) /\ EventsSame(j, 0)
      BY <1>1, <1>4, <1>5, <1>9, AsksMoves, EventsMoves
    <2>2. there'[j] = there[j]
      BY <1>t, <1>1, <1>9
    <2> QED
      BY <1>1, <1>7, <1>8, <2>1, <2>2, Elsewhere
  <1>10. CASE j = i
    <2>1. \A k \in OfSession(j) : outbox[k].op # "open"
      BY <1>1, <1>10 DEF Tidy, OpensFresh
    <2>2. HolderListens(j)' /\ OneAsk(j)' /\ PartsForGood(j)'
      BY <1>1, <1>7 DEF Tidy, HolderListens, OneAsk, PartsForGood, OfSession
    <2>3. OpensFresh(j)'
      BY <1>1, <2>1 DEF OpensFresh, OfSession
    <2>4. PICK r \in Nat : r = registered[j] /\ r = registered'[j]
      BY <1>t, <1>1, Fields
    <2>5. r # 0 => /\ r \in DOMAIN request /\ request[r] \in RequestType
                   /\ (Granted(r)' => Granted(r)) /\ (Refused(r)' => Refused(r))
      BY <1>8, <2>4, Registered DEF AnswersSame
    <2>6. Denied(j)'
      BY <1>1, <1>10, <2>4, <2>5 DEF Tidy, Denied, Refused
    <2>7. Follows(j)'
      <3> SUFFICES ASSUME r # 0, Granted(r)'
                   PROVE  Contiguous(j, r)'
        BY <2>4 DEF Follows, Granted, Contiguous, Heard
      <3>1. Contiguous(j, r)
        BY <2>4, <2>5 DEF Tidy, Follows, Granted, Contiguous, Heard
      <3>2. Heard(r) \in Nat /\ Heard(r)' = Heard(r)
        BY <1>1, <2>5 DEF Heard, Larger, RequestType
      <3>3. there[j].seq = n /\ there'[j].seq = n + 1 /\ Heard(r) <= n
        BY <1>2, <1>3, <1>10, <3>1 DEF Contiguous
      <3>4. EventsOf(j)' = EventsOf(j) \cup {Len(inbox) + 1}
        BY <1>2, <1>4, <1>6, <1>10 DEF EventsOf
      <3>5. \A k \in EventsOf(j) : inbox'[k] = inbox[k] /\ inbox[k].seq \in (Heard(r) + 1)..n
                                 /\ k \in DOMAIN inbox
        BY <1>6, <3>1, <3>3 DEF Contiguous, EventsOf
      <3>6. inbox'[Len(inbox) + 1].seq = n + 1
        BY <1>4, <1>6
      <3>7. \A k \in EventsOf(j)' : inbox'[k].seq \in (Heard(r) + 1)..(n + 1)
        BY <1>2, <3>2, <3>3, <3>4, <3>5, <3>6
      <3>8. ASSUME NEW k \in EventsOf(j)', NEW l \in EventsOf(j)', k < l
            PROVE  inbox'[k].seq < inbox'[l].seq
        <4>1. k \in EventsOf(j)
          BY <1>6, <3>4, <3>5, <3>8
        <4>2. CASE l \in EventsOf(j)
          BY <3>1, <3>5, <3>8, <4>1, <4>2 DEF Contiguous
        <4>3. CASE l = Len(inbox) + 1
          BY <1>2, <3>2, <3>5, <3>6, <4>1, <4>3
        <4> QED
          BY <3>4, <4>2, <4>3
      <3>9. ASSUME NEW v \in (Heard(r) + 1)..(n + 1)
            PROVE  \E k \in EventsOf(j)' : inbox'[k].seq = v
        <4>1. CASE v = n + 1
          BY <3>4, <3>6, <4>1
        <4>2. CASE v # n + 1
          <5>1. v \in (Heard(r) + 1)..there[j].seq
            BY <1>2, <3>2, <3>3, <4>2
          <5> QED
            BY <3>1, <3>4, <3>5, <5>1 DEF Contiguous
        <4> QED
          BY <4>1, <4>2
      <3>10. Heard(r) <= n + 1
        BY <1>2, <3>2, <3>3
      <3> QED
        BY <3>2, <3>3, <3>7, <3>8, <3>9, <3>10 DEF Contiguous
    <2>8. Absent(j)'
      BY <1>1, <1>10 DEF Tidy, Absent, OfSession
    <2>9. Behind(j)'
      BY <1>t, <1>1, <1>2, <1>3, <1>10 DEF Tidy, Behind
    <2> QED
      BY <2>2, <2>3, <2>6, <2>7, <2>8, <2>9 DEF Tidy
  <1> QED
    BY <1>9, <1>10

LEMMA HangsUpTidy ==
  ASSUME NEW j \in Ids, Tidy(j), HangsUp
  PROVE  Tidy(j)'
  <1>1. /\ hung' = TRUE /\ outbox' = <<>>
        /\ UNCHANGED <<future, inbox, there, request, registered, task, bookmark>>
    BY DEF HangsUp, loop
  <1>2. OfSession(j)' = {}
    BY <1>1 DEF OfSession
  <1>3. OneAsk(j)' /\ OpensFresh(j)' /\ PartsForGood(j)' /\ Absent(j)'
    BY <1>1, <1>2 DEF OneAsk, OpensFresh, PartsForGood, Absent
  <1>4. HolderListens(j)' /\ Follows(j)' /\ Denied(j)' /\ Behind(j)'
    BY <1>1 DEF Tidy, HolderListens, Holds, Follows, Denied, Behind, Granted, Refused,
                Contiguous, Heard, EventsOf
  <1> QED
    BY <1>3, <1>4 DEF Tidy

(***************************************************************************)
(* The invariant is kept                                                   *)
(***************************************************************************)
LEMMA TidyKept ==
  ASSUME TypeOK, TypeOK', Consistent, Consistent', AllTidy, [Next]_vars
  PROVE  AllTidy'
  <1> SUFFICES ASSUME reader' = "on", NEW j \in Ids \ mixed'
               PROVE  Tidy(j)'
    BY DEF AllTidy
  <1>1. reader = "on" /\ j \notin mixed /\ ~Overruns /\ ~ReaderEnds /\ ~Close
    BY DEF Next, OpenSession, ListSessions, Returns, Cancelled, Leaves, Reads, Overruns,
           ReaderEnds, Close, Handles, Emits, HangsUp, vars, loop, daemon
  <1>2. Tidy(j)
    BY <1>1 DEF AllTidy
  <1>3. ASSUME NEW t \in Tasks, NEW i \in Ids, NEW resume \in BOOLEAN,
               NEW from \in {0, bookmark[i]}, OpenSession(t, i, resume, from)
        PROVE  Tidy(j)'
    BY <1>2, <1>3, OpenTidy
  <1>4. ASSUME NEW t \in Tasks, ListSessions(t)
        PROVE  Tidy(j)'
    BY <1>2, <1>4, ListTidy
  <1>5. ASSUME NEW t \in Tasks, Returns(t)
        PROVE  Tidy(j)'
    BY <1>2, <1>5, ReturnsTidy
  <1>6. ASSUME NEW t \in Tasks, Cancelled(t)
        PROVE  Tidy(j)'
    BY <1>2, <1>6, CancelledTidy
  <1>7. ASSUME NEW t \in Tasks, NEW delete \in BOOLEAN, Leaves(t, delete)
        PROVE  Tidy(j)'
    BY <1>2, <1>7, LeavesTidy
  <1>8. CASE Reads
    BY <1>2, <1>8, ReadsTidy
  <1>9. CASE Handles
    BY <1>2, <1>9, HandlesTidy
  <1>10. ASSUME NEW i \in Ids, Emits(i)
         PROVE  Tidy(j)'
    BY <1>2, <1>10, EmitsTidy
  <1>11. CASE HangsUp
    BY <1>2, <1>11, HangsUpTidy
  <1>12. CASE UNCHANGED vars
    BY <1>2, <1>12
    DEF vars, loop, daemon, Tidy, HolderListens, OneAsk, OpensFresh, PartsForGood, Follows,
        Denied, Absent, Behind, Holds, OfSession, EventsOf, Granted, Refused, Contiguous, Heard
  <1> QED
    BY <1>1, <1>3, <1>4, <1>5, <1>6, <1>7, <1>8, <1>9, <1>10, <1>11, <1>12 DEF Next

(* When the connection ends, whoever has a session is registered, and told. *)
LEMMA EndedKept ==
  ASSUME TypeOK, TypeOK', Consistent, AllTidy, Ended, [Next]_vars
  PROVE  Ended'
  <1> SUFFICES ASSUME reader' = "eof"
               PROVE  hung' /\ \A t \in Tasks, i \in Ids \ mixed' :
                                  Holds(t, i)' => request'[task'[t].req].ended
    BY DEF Ended
  <1>t. task \in [Tasks -> TaskType(Len(request))]
    BY Types
  <1>1. ASSUME reader = "eof", hung' = hung, mixed \subseteq mixed',
               \A t \in Tasks, i \in Ids : Holds(t, i)' =>
                  Holds(t, i) /\ request'[task'[t].req] = request[task[t].req]
        PROVE  hung' /\ \A t \in Tasks, i \in Ids \ mixed' :
                            Holds(t, i)' => request'[task'[t].req].ended
    BY <1>1 DEF Ended
  <1>2. CASE ReaderEnds
    <2>1. /\ hung /\ UNCHANGED <<hung, task, mixed, registered>> /\ reader = "on"
          /\ request' = Terminated
      BY <1>2 DEF ReaderEnds, daemon
    <2>2. SameRequests
          /\ \A r \in DOMAIN request : (\E i \in Ids : registered[i] = r) => request'[r].ended
      BY <2>1, EndRequests
    <2>3. ASSUME NEW t \in Tasks, NEW i \in Ids \ mixed', Holds(t, i)'
          PROVE  request'[task'[t].req].ended
      <3>1. Holds(t, i) /\ task[t].req \in DOMAIN request
        BY <2>1, <2>2, <2>3 DEF Holds, SameRequests, Consistent, Assigned
      <3>2. registered[i] = task[t].req
        BY <2>1, <3>1 DEF AllTidy, Tidy, HolderListens
      <3> QED
        BY <2>1, <2>2, <3>1, <3>2
    <2> QED
      BY <2>1, <2>3
  <1>3. CASE ~ReaderEnds
    <2>1. reader = "eof" /\ hung
      BY <1>3 DEF Ended, Next, OpenSession, ListSessions, Returns, Cancelled, Leaves, Reads,
                  Overruns, Close, Handles, Emits, HangsUp, vars, loop, daemon
    <2>2. hung' = hung /\ mixed \subseteq mixed'
      BY <1>3, <2>1 DEF Next, OpenSession, ListSessions, Returns, Cancelled, Leaves, Reads,
                  Overruns, Close, Handles, Emits, HangsUp, vars, loop, daemon
    <2>3. \A t \in Tasks : task[t].at # "idle" => task[t].req \in DOMAIN request
      BY DEF Consistent, Assigned
    <2>4. \A t \in Tasks, i \in Ids : Holds(t, i)' =>
             Holds(t, i) /\ request'[task'[t].req] = request[task[t].req]
      <3>1. ASSUME task' = task, \A r \in DOMAIN request : request'[r] = request[r]
            PROVE  \A t \in Tasks, i \in Ids : Holds(t, i)' =>
                     Holds(t, i) /\ request'[task'[t].req] = request[task[t].req]
        BY <2>3, <3>1 DEF Holds
      <3>2. ASSUME NEW t \in Tasks, request' = request, \A u \in Tasks \ {t} : task'[u] = task[u],
                   \/ task'[t].at = "idle"
                   \/ task[t].at # "idle" /\ task'[t].req = task[t].req
            PROVE  \A u \in Tasks, i \in Ids : Holds(u, i)' =>
                     Holds(u, i) /\ request'[task'[u].req] = request[task[u].req]
        BY <3>2 DEF Holds
      <3>3. ASSUME NEW t \in Tasks, NEW r, NEW frame, Asks(t, r, frame)
            PROVE  task' = task /\ \A k \in DOMAIN request : request'[k] = request[k]
        <4>1. request \in Seq(RequestType) /\ request' = Append(request, r)
          BY <3>3, Types DEF Asks
        <4>2. \A k \in DOMAIN request : request'[k] = request[k]
          BY <4>1
        <4> QED
          BY <2>1, <3>3, <4>2 DEF Asks
      <3>4. ASSUME NEW t \in Tasks, NEW i \in Ids, NEW resume \in BOOLEAN,
                   NEW from \in {0, bookmark[i]}, OpenSession(t, i, resume, from)
            PROVE  task' = task /\ \A k \in DOMAIN request : request'[k] = request[k]
        BY <3>3, <3>4 DEF OpenSession
      <3>5. ASSUME NEW t \in Tasks, ListSessions(t)
            PROVE  task' = task /\ \A k \in DOMAIN request : request'[k] = request[k]
        BY <3>3, <3>5 DEF ListSessions
      <3>6. ASSUME NEW t \in Tasks, Returns(t)
            PROVE  /\ request' = request /\ \A u \in Tasks \ {t} : task'[u] = task[u]
                   /\ \/ task'[t].at = "idle"
                      \/ task[t].at # "idle" /\ task'[t].req = task[t].req
        BY <1>t, <3>6 DEF Returns, Resting
      <3>7. ASSUME NEW t \in Tasks, Cancelled(t)
            PROVE  /\ request' = request /\ \A u \in Tasks \ {t} : task'[u] = task[u]
                   /\ task'[t].at = "idle"
        BY <1>t, <3>7 DEF Cancelled, Resting
      <3>8. ASSUME NEW t \in Tasks, NEW delete \in BOOLEAN, Leaves(t, delete)
            PROVE  /\ request' = request /\ \A u \in Tasks \ {t} : task'[u] = task[u]
                   /\ task'[t].at = "idle"
        BY <1>t, <3>8 DEF Leaves, Resting
      <3>9. CASE UNCHANGED vars
        BY <3>1, <3>9 DEF vars
      <3>10. ~Reads /\ ~Overruns /\ ~Close /\ ~Handles /\ ~HangsUp /\ \A i \in Ids : ~Emits(i)
        BY <2>1 DEF Reads, Overruns, Close, Handles, HangsUp, Emits
      <3>11. CASE \E t \in Tasks, i \in Ids, resume \in BOOLEAN :
                   \E from \in {0, bookmark[i]} : OpenSession(t, i, resume, from)
        BY <3>1, <3>4, <3>11
      <3>12. CASE \E t \in Tasks : ListSessions(t)
        BY <3>1, <3>5, <3>12
      <3>13. CASE \E t \in Tasks : Returns(t)
        <4>1. PICK t \in Tasks : Returns(t)
          BY <3>13
        <4> QED
          BY <3>2, <3>6, <4>1
      <3>14. CASE \E t \in Tasks : Cancelled(t)
        <4>1. PICK t \in Tasks : Cancelled(t)
          BY <3>14
        <4> QED
          BY <3>2, <3>7, <4>1
      <3>15. CASE \E t \in Tasks, delete \in BOOLEAN : Leaves(t, delete)
        <4>1. PICK t \in Tasks, delete \in BOOLEAN : Leaves(t, delete)
          BY <3>15
        <4> QED
          BY <3>2, <3>8, <4>1
      <3> QED
        BY <1>3, <3>9, <3>10, <3>11, <3>12, <3>13, <3>14, <3>15 DEF Next
    <2> QED
      BY <1>1, <2>1, <2>2, <2>4
  <1> QED
    BY <1>2, <1>3

LEMMA InvInit ==
  ASSUME Init
  PROVE  Inv
  <1>1. TypeOK
    BY InitTypes
  <1>2. Consistent /\ Ended
    BY DEF Init, Resting, Consistent, Assigned, Listening, Asked, Told, Ended
  <1>3. AllTidy
    BY DEF Init, Resting, AllTidy, Tidy, HolderListens, OneAsk, OpensFresh, PartsForGood, Follows,
           Denied, Absent, Behind, Holds, OfSession
  <1> QED
    BY <1>1, <1>2, <1>3 DEF Inv

LEMMA InvKept ==
  ASSUME Inv, [Next]_vars
  PROVE  Inv'
  <1>1. TypeOK' /\ Consistent'
    BY TypesKept, ConsistentKept DEF Inv
  <1>2. AllTidy' /\ Ended'
    BY <1>1, TidyKept, EndedKept DEF Inv
  <1> QED
    BY <1>1, <1>2 DEF Inv

LEMMA InvHolds == Spec => []Inv
  BY InvInit, InvKept, PTL DEF Spec

LEMMA InvHears ==
  ASSUME Inv
  PROVE  SessionsHear
  <1> SUFFICES ASSUME NEW t \in Tasks, task[t].at = "in",
                      request[task[t].req].id \notin mixed
               PROVE  LET r == task[t].req
                          s == request[r]
                          next == EventsOf(s.id)
                          heard == Larger(s.last, s.from) IN
                      /\ reader = "on" =>
                           /\ next = {} => heard = there[s.id].seq
                           /\ \A k \in next : (\A j \in next : k <= j) => inbox[k].seq = heard + 1
                      /\ reader = "eof" => s.ended
    BY DEF SessionsHear
  <1> DEFINE r == task[t].req
             i == request[r].id
  <1>t. TypeOK /\ there \in [Ids -> [open : BOOLEAN, seq : 0..MaxSeq]]
        /\ Len(future) = Len(request) /\ future \in Seq(Outcome)
        /\ inbox \in Seq(TellType(Len(request)))
    BY Types DEF Inv
  <1>1. r \in DOMAIN request /\ request[r] \in RequestType /\ future[r] = "opened"
    BY <1>t, Fields DEF Inv, Consistent, Assigned
  <1>2. i \in Ids \ mixed /\ r \in DOMAIN future /\ r # 0
    BY <1>t, <1>1, Fields, LenProperties DEF RequestType
  <1>3. Holds(t, i)
    BY <1>1, <1>2 DEF Inv, Consistent, Listening, Holds
  <1>4. reader = "eof" => request[r].ended
    BY <1>2, <1>3 DEF Inv, Ended
  <1>5. ASSUME reader = "on"
        PROVE  /\ EventsOf(i) = {} => Heard(r) = there[i].seq
               /\ \A k \in EventsOf(i) : (\A j \in EventsOf(i) : k <= j)
                                        => inbox[k].seq = Heard(r) + 1
    <2>1. Tidy(i)
      BY <1>2, <1>5 DEF Inv, AllTidy
    <2>2. registered[i] = r /\ Granted(r)
      BY <1>1, <1>3, <2>1 DEF Tidy, HolderListens, Granted
    <2>3. Contiguous(i, r)
      BY <1>1, <1>2, <2>1, <2>2 DEF Tidy, Follows, Granted
    <2>4. Heard(r) \in Nat /\ there[i].seq \in Nat
      BY <1>t, <1>1, <1>2 DEF Heard, Larger, RequestType
    <2>5. ASSUME EventsOf(i) = {}, Heard(r) # there[i].seq
          PROVE  FALSE
      <3>1. Heard(r) + 1 \in (Heard(r) + 1)..there[i].seq
        BY <2>3, <2>4, <2>5 DEF Contiguous
      <3> QED
        BY <2>3, <2>5, <3>1 DEF Contiguous
    <2>6. ASSUME NEW k \in EventsOf(i), \A j \in EventsOf(i) : k <= j
          PROVE  inbox[k].seq = Heard(r) + 1
      <3>1. inbox[k].seq \in (Heard(r) + 1)..there[i].seq
        BY <2>3 DEF Contiguous
      <3>2. Heard(r) + 1 \in (Heard(r) + 1)..there[i].seq
        BY <2>4, <3>1
      <3>3. PICK l \in EventsOf(i) : inbox[l].seq = Heard(r) + 1
        BY <2>3, <3>2 DEF Contiguous
      <3>4. k \in Nat /\ l \in Nat
        BY <1>t, LenProperties DEF EventsOf
      <3>5. CASE k < l
        <4>1. inbox[k].seq < inbox[l].seq
          BY <2>3, <3>5 DEF Contiguous
        <4> QED
          BY <2>4, <3>1, <3>3, <4>1
      <3>6. k = l \/ k < l
        BY <2>6, <3>4
      <3> QED
        BY <3>3, <3>5, <3>6
    <2> QED
      BY <2>5, <2>6
  <1> QED
    BY <1>4, <1>5 DEF Heard

(***************************************************************************)
(* Theorems                                                                *)
(***************************************************************************)
(* The variables keep their types, for every number of requests: there is  *)
(* one future for each request made, and what is pending, registered,      *)
(* waited for or named in a frame is a request that was made               *)
(* (client.py:108-126, 206-210).                                           *)
THEOREM TypeCorrect == Spec => []TypeOK
  BY InvHolds, PTL DEF Inv

(* No two tasks wait with one request, and a task is in a session only on  *)
(* an open that was granted.  Only an open is answered as one, and only    *)
(* the open of an id registers a Session there.  What the daemon is asked, *)
(* and says of an open, names an open of that id                           *)
(* (client.py:166-183, 206-239).                                           *)
THEOREM RequestsMatch == Spec => []Consistent
  BY InvHolds, PTL DEF Inv

(* A session in use hears every event from its bookmark on, once and in    *)
(* order, while the client reads, and is told when the connection ends: as *)
(* long as nobody opens an id that has a Session, or frames under way      *)
(* (client.py:88-92, 166-167, 237-245).                                    *)
THEOREM EverySessionHears == Spec => []SessionsHear
  BY InvHolds, InvHears, PTL
=============================================================================
