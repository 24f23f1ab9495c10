------------------------- MODULE AgentProcess_proofs -------------------------
(***************************************************************************)
(* Proofs about AgentProcess, for any sessions, connections and bounds:    *)
(* its turns are those of Turns, so that a turn which ends is closed by a  *)
(* frame, and by one, and a session has one turn at a time on the process  *)
(* that lives.                                                             *)
(*                                                                         *)
(* How a turn is closed is a matter of each turn by itself (Sound): what   *)
(* its task has reported so far is what its phase says.  That there is one *)
(* needs the chain from a session to its turn: the process knows a session *)
(* by one state (OneKnows), a state has one turn (OwnState) and is the     *)
(* turn's own session's (ItsSession), and a turn that still has its        *)
(* process and its state is the one its session's next prompt would find   *)
(* (Backed), so that a turn which misses its state when its task first     *)
(* runs is one that its session let go of.  The task of such a turn may    *)
(* read another's state; its own is then none that the process knows.      *)
(* And a turn that a cancel hits by mistake comes after the one            *)
(* that it was meant for, because the state that the handler of a cancel   *)
(* looks at is never another session's (CancelFollows).                    *)
(***************************************************************************)
EXTENDS AgentProcess, SequenceTheorems, TLAPS

TurnType(m, n) ==
  [session : Sessions, state : 0..m, process : 0..n,
   phase : {"created", "unbegun", "prompting", "draining", "thrown", "done"},
   reads : 0..m, cancelled : BOOLEAN, notified : BOOLEAN, torn : BOOLEAN, gone : BOOLEAN,
   stray : BOOLEAN, missed : BOOLEAN, stranded : BOOLEAN, frames : 0..2]

HandlerType(m, n) ==
  {Free} \cup [op : {"cancel"}, state : 1..m, turn : 1..MaxTurns]
         \cup [op : {"open", "prompt"}, s : Sessions, at : {"start", "load"},
               process : 0..n, gone : BOOLEAN]

(* What a turn's record says of it, whoever else there is.                 *)
Sound(r) ==
  /\ r.phase # "done" =>
       /\ r.state = 0 => r.stranded
       /\ r.reads # 0 => ~r.notified /\ r.missed
       /\ r.frames = (IF r.notified THEN 1 ELSE 0)
       /\ r.notified => r.phase = "thrown"
  /\ r.phase = "unbegun" => r.stray
  /\ r.phase = "thrown" => r.cancelled \/ r.notified \/ r.stray
  /\ r.phase = "done" =>
       /\ r.frames <= 1 \/ r.cancelled
       /\ r.torn \/ r.missed \/ r.frames >= 1 \/ (r.stray /\ ~r.cancelled)

EachSound == \A t \in DOMAIN turns : Sound(turns[t])

(* A state has one turn, and is the state of one session, the turn's.      *)
OwnState ==
  \A t, u \in DOMAIN turns :
    Live(t) /\ Live(u) /\ turns[t].state = turns[u].state /\ turns[t].state # 0 => t = u

OneKnows ==
  \A s, r \in Sessions : known[s] = known[r] /\ known[s] # 0 => s = r

ItsSession ==
  \A t \in DOMAIN turns, s \in Sessions :
    Live(t) /\ turns[t].state = known[s] /\ known[s] # 0 => turns[t].session = s

(* A turn on the living process, under which no load took its state away,  *)
(* is on the state that the process knows its session by.                  *)
Backed ==
  \A t \in DOMAIN turns :
    Live(t) /\ ~turns[t].stranded /\ ~LostTurn(t) => known[turns[t].session] = turns[t].state

(* A turn that is told of a crash has lost its process.                    *)
ToldAreLost == \A t \in DOMAIN turns : Live(t) /\ turns[t].notified => LostTurn(t)

(* A turn that its session holds is on the living process, and not         *)
(* stranded.  None is that missed its state; and one that reads another is *)
(* on a state that the process does not know.                              *)
HeldBy(r) == ~r.stranded /\ proc = "up" /\ r.process = starts
Elsewhere(r) == \A s \in Sessions : known[s] = r.state => known[s] = 0

MissedLetGo == \A t \in DOMAIN turns : Live(t) /\ turns[t].missed => ~HeldBy(turns[t])
ElsewhereIfAstray == \A t \in DOMAIN turns : Live(t) /\ turns[t].reads # 0 => Elsewhere(turns[t])

(* A turn of its session that came before it was cancelled.                *)
Follows(t) ==
  \E u \in 1..(t - 1) : turns[u].session = turns[t].session /\ turns[u].cancelled

StrayFollows == \A t \in DOMAIN turns : turns[t].stray => Follows(t)

(* The state that the handler of a cancel will look at is the session's of *)
(* a turn u that was cancelled, and the turn on it, if any, is u or later. *)
CancelsOn(g, u) ==
  /\ turns[u].cancelled
  /\ \A s \in Sessions : known[s] = g => s = turns[u].session
  /\ \A t \in DOMAIN turns :
       Live(t) /\ turns[t].state = g => turns[t].session = turns[u].session /\ u <= t

CancelFollows ==
  \A c \in Conns :
    doing[c].op = "cancel" =>
      doing[c].turn \in DOMAIN turns /\ CancelsOn(doing[c].state, doing[c].turn)

(* The types, as the proofs use them.                                      *)
ProcessTyped ==
  /\ proc \in {"down", "up", "exited"}
  /\ starts \in 0..MaxStarts /\ object \in {1, 2} /\ made \in 0..MaxLoads
  /\ known \in [Sessions -> 0..made]

TurnsTyped == turns \in Seq(TurnType(made, starts)) /\ Len(turns) <= MaxTurns

SessionTyped ==
  /\ table \subseteq Sessions
  /\ handle \in [Sessions -> 0..object]
  /\ owner \in [Sessions -> Conns \cup {NoConn}]
  /\ parked \subseteq Sessions /\ softKill \subseteq Sessions
  /\ owned \in [Conns -> SUBSET Sessions]
  /\ finishing \in [Sessions -> BOOLEAN]

DoingTyped == doing \in [Conns -> HandlerType(made, starts)]

(* Of the turns and the states that the process knows.                     *)
TurnInv ==
  /\ TurnsTyped /\ EachSound /\ OwnState /\ OneKnows /\ ItsSession /\ Backed
  /\ ToldAreLost /\ StrayFollows /\ MissedLetGo /\ ElsewhereIfAstray

Inv == ProcessTyped /\ SessionTyped /\ DoingTyped /\ TurnInv /\ CancelFollows

(* What every step does: it keeps Inv, and is a step of Turns or none.  It *)
(* is shown of the turns and of the handlers apart; only Cancel leaves the *)
(* handler of a cancel where there was none.                               *)
StepKept == Inv' /\ [Promised!Next]_TurnsSeen

NoNewCancel == \A c \in Conns : doing'[c].op = "cancel" => doing'[c] = doing[c]

DoingKept == DoingTyped' /\ NoNewCancel

TurnsKept == TurnInv' /\ (NoNewCancel => CancelFollows') /\ [Promised!Next]_TurnsSeen

LEMMA InvTypes == Inv => TypeOK
  <1> SUFFICES ASSUME Inv PROVE TypeOK
    OBVIOUS
  <1>1. ASSUME NEW c \in Conns
        PROVE  \/ Idle(c)
               \/ doing[c] \in [op : {"cancel"}, state : 1..made, turn : 1..MaxTurns]
               \/ doing[c] \in [op : {"open", "prompt"}, s : Sessions, at : {"start", "load"},
                                process : 0..starts, gone : BOOLEAN]
    BY DEF Inv, DoingTyped, HandlerType, Idle
  <1> QED
    BY <1>1 DEF Inv, TypeOK, ProcessTyped, SessionTyped, TurnInv, TurnsTyped, TurnType

(***************************************************************************)
(* Sequences                                                               *)
(***************************************************************************)
LEMMA Mapped ==
  ASSUME NEW S, NEW T, NEW q \in Seq(S), NEW p, p \in [DOMAIN q -> T]
  PROVE  p \in Seq(T) /\ Len(p) = Len(q) /\ DOMAIN p = DOMAIN q
  <1>1. DOMAIN q = 1..Len(q) /\ Len(q) \in Nat
    BY LenProperties
  <1>2. p \in Seq(T)
    BY <1>1, SeqDef
  <1> QED
    BY <1>1, <1>2, LenProperties

LEMMA Appends ==
  ASSUME NEW S, NEW q \in Seq(S), NEW x \in S
  PROVE  /\ Append(q, x) \in Seq(S)
         /\ Len(Append(q, x)) = Len(q) + 1
         /\ DOMAIN Append(q, x) = DOMAIN q \cup {Len(q) + 1}
         /\ Append(q, x)[Len(q) + 1] = x
         /\ \A k \in DOMAIN q : Append(q, x)[k] = q[k] /\ k # Len(q) + 1
  OBVIOUS

LEMMA Wider ==
  ASSUME NEW m \in Nat, NEW n \in Nat, NEW j \in Nat, NEW k \in Nat, m <= j, n <= k
  PROVE  TurnType(m, n) \subseteq TurnType(j, k) /\ HandlerType(m, n) \subseteq HandlerType(j, k)
  <1>1. 0..m \subseteq 0..j /\ 1..m \subseteq 1..j /\ 0..n \subseteq 0..k
    OBVIOUS
  <1>2. TurnType(m, n) \subseteq TurnType(j, k)
    BY <1>1 DEF TurnType
  <1>3. [op : {"cancel"}, state : 1..m, turn : 1..MaxTurns] \subseteq [op : {"cancel"}, state : 1..j, turn : 1..MaxTurns]
    BY <1>1
  <1>4. [op : {"open", "prompt"}, s : Sessions, at : {"start", "load"},
         process : 0..n, gone : BOOLEAN]
        \subseteq [op : {"open", "prompt"}, s : Sessions, at : {"start", "load"},
                   process : 0..k, gone : BOOLEAN]
    BY <1>1
  <1> QED
    BY <1>2, <1>3, <1>4 DEF HandlerType

(***************************************************************************)
(* One turn: what each of the ways it goes on leaves of its record         *)
(***************************************************************************)
(* The turn r moves on to q: not at all if it is over, and on its state,   *)
(* if it is still live.                                                    *)
Moves(r, q) ==
  /\ q \in TurnType(made, starts) /\ Sound(q)
  /\ q.session = r.session
  /\ r.cancelled => q.cancelled
  /\ r.phase = "done" => q = r
  /\ q.missed => r.missed \/ (r.phase = "created" /\ ~HeldBy(r))
  /\ q.phase # "done" =>
       /\ q.state = r.state /\ q.process = r.process
       /\ r.stranded => q.stranded
       /\ r.notified => q.notified
       /\ q.notified => r.notified \/ proc # "up"
       /\ q.phase \in {"created", "unbegun"} => r.phase \in {"created", "unbegun"}
       /\ q.reads # 0 => r.reads # 0 \/ Elsewhere(r)
  /\ q.phase = "done" /\ r.phase # "done" =>
       /\ q.cancelled = r.cancelled /\ q.stray = r.stray
       /\ q.frames \in {r.frames, r.frames + 1}

(* ... and is hit by no cancel that it did not ask for; or it is, after a  *)
(* turn of its session that did.                                           *)
Goes(r, q) == Moves(r, q) /\ (q.stray => r.stray)

MayStray(t, q) == Moves(turns[t], q) /\ (q.stray => turns[t].stray \/ Follows(t))

LEMMA Stays ==
  ASSUME NEW r \in TurnType(made, starts), Sound(r)
  PROVE  Goes(r, r)
  BY DEF Goes, Moves

LEMMA OverType ==
  ASSUME NEW r \in TurnType(made, starts), made \in Nat, starts \in Nat,
         r.phase # "done", Sound(r), NEW n \in {0, 1}
  PROVE  /\ Over(r, n) \in TurnType(made, starts)
         /\ Over(r, n).session = r.session /\ Over(r, n).phase = "done"
         /\ Over(r, n).frames = n + (IF r.notified THEN 1 ELSE 0)
         /\ Over(r, n).frames \in {r.frames, r.frames + 1}
         /\ Over(r, n).cancelled = r.cancelled /\ Over(r, n).missed = r.missed
         /\ Over(r, n).stray = r.stray /\ Over(r, n).torn = r.torn
  <1> DEFINE f == r.frames + n
  <1> DEFINE q == [r EXCEPT !.phase = "done", !.frames = f, !.state = 0, !.process = 0, !.reads = 0,
                            !.notified = FALSE, !.gone = FALSE, !.stranded = FALSE]
  <1>1. f = n + (IF r.notified THEN 1 ELSE 0) /\ f \in 0..2 /\ f \in {r.frames, r.frames + 1}
    BY DEF Sound, TurnType
  <1>2. 0 \in 0..made /\ 0 \in 0..starts
    OBVIOUS
  <1>3. Over(r, n) = q
    BY DEF Over
  <1> HIDE DEF f
  <1>4. q \in TurnType(made, starts)
    BY <1>1, <1>2 DEF TurnType
  <1>5. /\ q.session = r.session /\ q.phase = "done" /\ q.frames = f
        /\ q.cancelled = r.cancelled /\ q.stray = r.stray /\ q.torn = r.torn
        /\ q.missed = r.missed
    BY DEF TurnType
  <1> QED
    BY <1>1, <1>3, <1>4, <1>5

LEMMA OverGoes ==
  ASSUME NEW r \in TurnType(made, starts), made \in Nat, starts \in Nat,
         r.phase # "done", Sound(r), NEW n \in {0, 1},
         n = 1 => ~r.notified \/ r.cancelled,
         n = 0 => r.notified \/ r.missed \/ (r.stray /\ ~r.cancelled)
  PROVE  Goes(r, Over(r, n))
  <1> DEFINE q == Over(r, n)
  <1>1. /\ q \in TurnType(made, starts) /\ q.session = r.session /\ q.phase = "done"
        /\ q.frames = n + (IF r.notified THEN 1 ELSE 0)
        /\ q.frames \in {r.frames, r.frames + 1}
        /\ q.cancelled = r.cancelled /\ q.stray = r.stray /\ q.missed = r.missed
    BY OverType
  <1> HIDE DEF q
  <1>2. Sound(q)
    BY <1>1 DEF Sound, TurnType
  <1>3. Goes(r, q)
    BY <1>1, <1>2 DEF Goes, Moves
  <1> QED
    BY <1>3 DEF q

LEMMA TornGoes ==
  ASSUME NEW r \in TurnType(made, starts), made \in Nat, starts \in Nat,
         r.phase # "done", Sound(r)
  PROVE  LET q == [Over(r, IF Reports(r) THEN 1 ELSE 0) EXCEPT !.torn = TRUE]
         IN  Goes(r, q) /\ q.phase = "done"
  <1> DEFINE n == IF Reports(r) THEN 1 ELSE 0
  <1> DEFINE o == Over(r, n)
  <1> DEFINE q == [o EXCEPT !.torn = TRUE]
  <1>1. n \in {0, 1} /\ (n = 1 => r.cancelled)
    BY DEF Reports
  <1>2. /\ o \in TurnType(made, starts) /\ o.session = r.session /\ o.phase = "done"
        /\ o.frames = n + (IF r.notified THEN 1 ELSE 0) /\ o.cancelled = r.cancelled
        /\ o.frames \in {r.frames, r.frames + 1} /\ o.stray = r.stray /\ o.missed = r.missed
    BY <1>1, OverType
  <1> HIDE DEF o, n
  <1>3. /\ q \in TurnType(made, starts) /\ q.session = o.session /\ q.phase = "done"
        /\ q.frames = o.frames /\ q.cancelled = o.cancelled /\ q.torn /\ q.stray = o.stray
        /\ q.missed = o.missed
    BY <1>2 DEF TurnType
  <1> HIDE DEF q
  <1>4. Sound(q)
    BY <1>1, <1>2, <1>3 DEF Sound
  <1>5. Goes(r, q)
    BY <1>2, <1>3, <1>4 DEF Goes, Moves
  <1> QED
    BY <1>3, <1>5 DEF q, o, n

LEMMA MissedGoes ==
  ASSUME NEW r \in TurnType(made, starts), made \in Nat, starts \in Nat,
         r.phase = "created", Sound(r), ~HeldBy(r)
  PROVE  Goes(r, Missed(r)) /\ Missed(r).phase = "done"
  <1> DEFINE o == Over(r, 0)
             q == [o EXCEPT !.missed = TRUE]
  <1>1. /\ o \in TurnType(made, starts) /\ o.session = r.session /\ o.phase = "done"
        /\ o.frames = 0 /\ o.cancelled = r.cancelled
        /\ o.frames \in {r.frames, r.frames + 1} /\ o.stray = r.stray
    <2>1. ~r.notified
      BY DEF Sound
    <2> QED
      BY <2>1, OverType
  <1> HIDE DEF o
  <1>2. /\ q \in TurnType(made, starts) /\ q.session = o.session /\ q.phase = "done"
        /\ q.frames = o.frames /\ q.cancelled = o.cancelled /\ q.missed /\ q.stray = o.stray
    BY <1>1 DEF TurnType
  <1>3. Missed(r) = q
    BY DEF Missed, o
  <1> HIDE DEF q
  <1>4. Sound(q)
    BY <1>1, <1>2 DEF Sound
  <1> QED
    BY <1>1, <1>2, <1>3, <1>4 DEF Goes, Moves

(* A turn that its session, or its state, no longer counts.                *)
LEMMA LetGoGoes ==
  ASSUME NEW r \in TurnType(made, starts), Sound(r), r.phase # "done"
  PROVE  LET q == [r EXCEPT !.stranded = TRUE]
         IN  Goes(r, q) /\ q.stranded /\ q.phase = r.phase
  <1> DEFINE q == [r EXCEPT !.stranded = TRUE]
  <1>1. q \in TurnType(made, starts) /\ q.stranded /\ q.phase = r.phase
        /\ q.session = r.session /\ q.state = r.state
        /\ q.process = r.process /\ q.cancelled = r.cancelled
        /\ q.notified = r.notified /\ q.torn = r.torn
        /\ q.stray = r.stray /\ q.frames = r.frames
        /\ q.missed = r.missed /\ q.reads = r.reads
    BY DEF TurnType
  <1> HIDE DEF q
  <1>2. Sound(q)
    BY <1>1 DEF Sound
  <1>3. Goes(r, q)
    BY <1>1, <1>2 DEF Goes, Moves
  <1> QED
    BY <1>1, <1>3 DEF q

LEMMA GoneGoes ==
  ASSUME NEW r \in TurnType(made, starts), NEW q, Goes(r, q), r.phase # "done"
  PROVE  /\ Goes(r, [q EXCEPT !.gone = TRUE])
         /\ [q EXCEPT !.gone = TRUE].phase = q.phase
         /\ [q EXCEPT !.gone = TRUE].stranded = q.stranded
  <1> DEFINE p == [q EXCEPT !.gone = TRUE]
  <1>1. q \in TurnType(made, starts)
    BY DEF Goes, Moves
  <1>2. /\ p \in TurnType(made, starts) /\ p.session = q.session /\ p.state = q.state
        /\ p.process = q.process /\ p.phase = q.phase /\ p.cancelled = q.cancelled
        /\ p.notified = q.notified /\ p.torn = q.torn /\ p.stray = q.stray
        /\ p.stranded = q.stranded /\ p.frames = q.frames
        /\ p.missed = q.missed /\ p.reads = q.reads
    BY <1>1 DEF TurnType
  <1> HIDE DEF p
  <1>3. Goes(r, p)
    BY <1>2 DEF Goes, Moves, Sound
  <1> QED
    BY <1>2, <1>3 DEF p

(***************************************************************************)
(* All turns: TurnInv is kept by what lets each turn go on, leaves of the  *)
(* states known before those it does not drop, and keeps those of turns    *)
(* that it neither ends nor strands; and by a new turn.  Each is a step of *)
(* Turns.                                                                  *)
(***************************************************************************)
LEMMA Facts ==
  ASSUME Inv
  PROVE  /\ made \in Nat /\ starts \in Nat /\ object \in Nat
         /\ known \in [Sessions -> 0..made]
         /\ turns \in Seq(TurnType(made, starts))
         /\ DOMAIN turns = 1..Len(turns) /\ Len(turns) \in Nat
         /\ \A t \in DOMAIN turns :
              turns[t] \in TurnType(made, starts) /\ Sound(turns[t])
  <1>1. made \in Nat /\ starts \in Nat /\ object \in Nat /\ known \in [Sessions -> 0..made]
    BY DEF Inv, ProcessTyped
  <1>2. turns \in Seq(TurnType(made, starts))
    BY DEF Inv, TurnInv, TurnsTyped
  <1>3. \A t \in DOMAIN turns : Sound(turns[t])
    BY DEF Inv, TurnInv, EachSound
  <1>4. DOMAIN turns = 1..Len(turns) /\ Len(turns) \in Nat
        /\ \A t \in DOMAIN turns : turns[t] \in TurnType(made, starts)
    BY <1>2, LenProperties, ElementOfSeq
  <1> QED
    BY <1>1, <1>2, <1>3, <1>4

(* A turn that has lost its process does not get it back.                  *)
StaysLost(t) == Live(t)' /\ LostTurn(t) => LostTurn(t)'

(* A turn that goes on is one that goes on in Turns.                       *)
LEMMA GoesOnSeen ==
  ASSUME Inv, NEW t \in DOMAIN turns, t \in DOMAIN turns', ToldAreLost',
         Moves(turns[t], turns'[t]), StaysLost(t), Live(t)'
  PROVE  Promised!GoesOn(t)
  <1> DEFINE r == turns[t]
             q == turns'[t]
             holds == Holds(t)
             held == Holds(t)'
             begins == Begun(t)
             begun == Begun(t)'
  <1>1. r \in TurnType(made, starts) /\ Sound(r) /\ q \in TurnType(made, starts) /\ Sound(q)
    BY Facts DEF Moves
  <1>2. Live(t) /\ r.phase # "done" /\ q.phase # "done"
    BY DEF Moves, Live
  <1>3. TurnsSeen[t] = [session |-> r.session, outcome |-> "running", asked |-> r.cancelled,
                        held |-> holds, begun |-> begins, frames |-> r.frames]
    BY <1>2 DEF TurnsSeen, Outcome
  <1>4. TurnsSeen'[t] = [session |-> q.session, outcome |-> "running", asked |-> q.cancelled,
                         held |-> held, begun |-> begun, frames |-> q.frames]
    BY <1>2 DEF TurnsSeen, Outcome, Live
  <1>5. q.session = r.session /\ q.cancelled \in {r.cancelled, TRUE}
    BY <1>1 DEF Moves, TurnType
  <1>6. held \in {holds, FALSE}
    BY <1>2 DEF Holds, Moves, StaysLost, Live
  <1>7. q.frames \in {r.frames, 1}
    BY <1>1, <1>2 DEF Sound, Moves
  <1>8. q.frames = 1 => ~held
    BY <1>1, <1>2 DEF Sound, ToldAreLost, Holds
  <1>b. begun \in {begins, TRUE}
    BY <1>1, <1>2 DEF Begun, Moves, TurnType
  <1> HIDE DEF held, holds, begun, begins
  <1>9. /\ TurnsSeen[t].outcome = "running" /\ TurnsSeen[t].asked = r.cancelled
        /\ TurnsSeen[t].held = holds /\ TurnsSeen[t].frames = r.frames
        /\ TurnsSeen[t].session = r.session /\ TurnsSeen[t].begun = begins
    BY <1>3
  <1>10. TurnsSeen'[t] = Promised!Turn(TurnsSeen[t].session, "running", q.cancelled, held,
                                       begun, q.frames)
    BY <1>4, <1>5, <1>9 DEF Promised!Turn
  <1> QED
    BY <1>5, <1>6, <1>7, <1>8, <1>9, <1>10, <1>b DEF Promised!GoesOn, Promised!Running

(* A turn that ends is one that ends in Turns.                             *)
LEMMA EndsSeen ==
  ASSUME Inv, NEW t \in DOMAIN turns, t \in DOMAIN turns',
         Moves(turns[t], turns'[t]), Live(t), ~Live(t)'
  PROVE  Promised!Ends(t)
  <1> DEFINE r == turns[t]
             q == turns'[t]
             holds == Holds(t)
             begins == Begun(t)
             begun == Begun(t)'
             outcome == Outcome(t)'
  <1>1. r \in TurnType(made, starts) /\ Sound(r) /\ q \in TurnType(made, starts) /\ Sound(q)
    BY Facts DEF Moves
  <1>2. r.phase # "done" /\ q.phase = "done" /\ ~Holds(t)'
    BY DEF Live, Holds
  <1>3. TurnsSeen[t] = [session |-> r.session, outcome |-> "running", asked |-> r.cancelled,
                        held |-> holds, begun |-> begins, frames |-> r.frames]
    BY <1>2 DEF TurnsSeen, Outcome
  <1>4. TurnsSeen'[t] = [session |-> q.session, outcome |-> outcome, asked |-> q.cancelled,
                         held |-> FALSE, begun |-> begun, frames |-> q.frames]
    BY <1>2 DEF TurnsSeen, Holds
  <1>5. /\ q.session = r.session /\ q.cancelled = r.cancelled /\ q.stray = r.stray
        /\ q.frames \in {r.frames, r.frames + 1}
    BY <1>2 DEF Moves
  <1>6. outcome = IF q.torn THEN "torn" ELSE IF q.frames > 0 THEN "closed" ELSE "unclosed"
    BY <1>2 DEF Outcome, Live
  <1>7. q.frames \in 0..2 /\ q.torn \in BOOLEAN /\ q.cancelled \in BOOLEAN
    BY <1>1 DEF TurnType
  <1>8. /\ outcome \in {"closed", "torn", "unclosed"}
        /\ outcome = "closed" => q.frames >= 1
        /\ outcome = "unclosed" => q.frames = 0 /\ ~q.torn
    BY <1>6, <1>7
  <1>9. q.frames > 1 => r.cancelled
    BY <1>1, <1>2, <1>5, <1>7 DEF Sound
  <1>10. outcome = "unclosed" => (r.stray /\ ~r.cancelled) \/ q.missed
    BY <1>1, <1>2, <1>5, <1>7, <1>8 DEF Sound
  <1>11. /\ TurnsSeen[t].outcome = "running" /\ TurnsSeen[t].asked = r.cancelled
         /\ TurnsSeen[t].session = r.session /\ TurnsSeen[t].frames = r.frames
         /\ TurnsSeen[t].held = holds /\ TurnsSeen[t].begun = begins
    BY <1>3
  <1>m. ASSUME q.missed PROVE Promised!LetGo(t)
    <2>1. r.missed \/ (r.phase = "created" /\ ~HeldBy(r))
      BY <1>m DEF Moves
    <2>2. ~HeldBy(r)
      BY <2>1 DEF Inv, TurnInv, MissedLetGo
    <2>3. ~holds /\ ~begins
      BY <2>1, <2>2 DEF Holds, HeldBy, LostTurn, Begun
    <2> QED
      BY <1>11, <2>3 DEF Promised!LetGo
  <1>12. ASSUME outcome = "unclosed", ~q.missed PROVE Promised!Mistaken(t)
    <2>1. PICK u \in 1..(t - 1) : turns[u].session = r.session /\ turns[u].cancelled
      BY <1>10, <1>12 DEF Inv, TurnInv, StrayFollows, Follows
    <2>2. u \in DOMAIN turns
      BY <2>1, Facts
    <2>3. TurnsSeen[u].session = turns[u].session /\ TurnsSeen[u].asked = turns[u].cancelled
      BY <2>2 DEF TurnsSeen
    <2> QED
      BY <1>10, <1>11, <1>12, <2>1, <2>3 DEF Promised!Mistaken
  <1>b. begun \in BOOLEAN
    BY <1>1 DEF Begun, TurnType
  <1> HIDE DEF outcome, holds, begun, begins
  <1>13. TurnsSeen'[t] = Promised!Turn(TurnsSeen[t].session, outcome, TurnsSeen[t].asked,
                                       FALSE, begun, q.frames)
    BY <1>4, <1>5, <1>11 DEF Promised!Turn
  <1> QED
    <2>1. Promised!Running(t)
      BY <1>11 DEF Promised!Running
    <2>2. /\ outcome \in {"closed", "torn", "unclosed"}
          /\ q.frames \in {TurnsSeen[t].frames, TurnsSeen[t].frames + 1}
          /\ q.frames > 1 => TurnsSeen[t].asked
      BY <1>5, <1>8, <1>9, <1>11
    <2> QED
      BY <1>8, <1>12, <1>m, <1>b, <1>13, <2>1, <2>2 DEF Promised!Ends

LEMMA ProceedSeen ==
  ASSUME Inv, DOMAIN turns' = DOMAIN turns, ToldAreLost',
         \A t \in DOMAIN turns : Moves(turns[t], turns'[t]) /\ StaysLost(t)
  PROVE  Promised!Proceed
  <1>1. DOMAIN TurnsSeen' = DOMAIN turns /\ DOMAIN TurnsSeen = DOMAIN turns
    BY DEF TurnsSeen
  <1>2. ASSUME NEW t \in DOMAIN turns, ~Live(t)
        PROVE  TurnsSeen'[t] = TurnsSeen[t]
    <2>1. turns'[t] = turns[t]
      BY <1>2 DEF Moves, Live
    <2> QED
      BY <1>2, <2>1 DEF TurnsSeen, Outcome, Holds, Begun, Live
  <1> QED
    BY <1>1, <1>2, GoesOnSeen, EndsSeen DEF Promised!Proceed

(* A turn that is not ended or stranded and keeps its process keeps what   *)
(* the process knows its session by.                                       *)
KeepsBacked(t) ==
  Live(t)' /\ ~turns'[t].stranded /\ ~LostTurn(t)'
    => known'[turns[t].session] = known[turns[t].session]

(* The states known are the same, but for those dropped and new ones.      *)
KnownOrNew ==
  /\ \A s \in Sessions : known'[s] = known[s] \/ known'[s] = 0 \/ known'[s] > made
  /\ \A s, r \in Sessions : known'[s] = known'[r] /\ known'[s] > made => s = r

LEMMA CancelsStay ==
  ASSUME Inv, NoNewCancel, DOMAIN turns' = DOMAIN turns, KnownOrNew,
         \A t \in DOMAIN turns : Moves(turns[t], turns'[t])
  PROVE  CancelFollows'
  <1> SUFFICES ASSUME NEW c \in Conns, doing'[c].op = "cancel"
               PROVE  doing'[c].turn \in DOMAIN turns'
                      /\ CancelsOn(doing[c].state, doing[c].turn)'
    BY DEF CancelFollows
  <1>1. doing'[c] = doing[c] /\ doing[c].op = "cancel"
    BY DEF NoNewCancel
  <1>2. doing[c] \in HandlerType(made, starts)
    BY DEF Inv, DoingTyped
  <1> DEFINE g == doing[c].state
             u == doing[c].turn
  <1>3. g \in 1..made /\ made \in Nat
    BY <1>1, <1>2, Facts DEF HandlerType, Free
  <1>4. u \in DOMAIN turns /\ CancelsOn(g, u)
    BY <1>1 DEF Inv, CancelFollows
  <1>5. turns'[u].cancelled /\ turns'[u].session = turns[u].session
    BY <1>4 DEF CancelsOn, Moves
  <1>6. \A s \in Sessions : known'[s] = g => known[s] = g
    BY <1>3 DEF KnownOrNew
  <1>7. \A t \in DOMAIN turns :
          Live(t)' /\ turns'[t].state = g
            => Live(t) /\ turns[t].state = g /\ turns'[t].session = turns[t].session
    BY DEF Moves, Live
  <1> HIDE DEF g, u
  <1>8. \A s \in Sessions : known'[s] = g => s = turns'[u].session
    BY <1>4, <1>5, <1>6 DEF CancelsOn
  <1>9. \A t \in DOMAIN turns' :
          Live(t)' /\ turns'[t].state = g => turns'[t].session = turns'[u].session /\ u <= t
    BY <1>4, <1>5, <1>7 DEF CancelsOn
  <1>10. g' = g /\ u' = u
    BY <1>1 DEF g, u
  <1> QED
    BY <1>4, <1>5, <1>8, <1>9, <1>10 DEF CancelsOn, g, u

LEMMA GoKeeps ==
  ASSUME Inv, ProcessTyped', made <= made', starts <= starts',
         turns' \in [DOMAIN turns -> TurnType(made, starts)],
         \A t \in DOMAIN turns :
           MayStray(t, turns'[t]) /\ StaysLost(t) /\ KeepsBacked(t),
         KnownOrNew
  PROVE  TurnsKept
  <1>0. \A t \in DOMAIN turns : Moves(turns[t], turns'[t])
    BY DEF MayStray
  <1>1. made \in Nat /\ starts \in Nat /\ made' \in Nat /\ starts' \in Nat
    BY Facts DEF ProcessTyped
  <1>2. /\ turns' \in Seq(TurnType(made, starts)) /\ Len(turns') = Len(turns)
        /\ DOMAIN turns' = DOMAIN turns
    BY Facts, Mapped
  <1>3. TurnType(made, starts) \subseteq TurnType(made', starts')
    BY <1>1, Wider
  <1>4. TurnsTyped'
    BY <1>2, <1>3, SeqMonotonic DEF TurnsTyped, Inv, TurnInv
  <1>5. EachSound'
    BY <1>0, <1>2 DEF EachSound, Moves
  <1>6. \A t \in DOMAIN turns :
          /\ turns'[t].session = turns[t].session /\ turns[t].session \in Sessions
          /\ turns[t].state \in 0..made
          /\ Live(t)' => /\ Live(t) /\ turns'[t].state = turns[t].state
                         /\ turns[t].stranded => turns'[t].stranded
    BY <1>0, Facts DEF Moves, Live, TurnType
  <1>7. OwnState'
    BY <1>2, <1>6 DEF OwnState, Inv, TurnInv
  <1>8. \A s \in Sessions : known[s] \in 0..made
    BY Facts
  <1>9. OneKnows'
    BY <1>1, <1>8 DEF KnownOrNew, OneKnows, Inv, TurnInv
  <1>10. ItsSession'
    BY <1>1, <1>2, <1>6 DEF KnownOrNew, ItsSession, Inv, TurnInv
  <1>11. Backed'
    BY <1>2, <1>6 DEF Backed, KeepsBacked, StaysLost, Inv, TurnInv
  <1>12. ToldAreLost'
    <2> SUFFICES ASSUME NEW t \in DOMAIN turns, Live(t)', turns'[t].notified
                 PROVE  LostTurn(t)'
      BY <1>2 DEF ToldAreLost
    <2>1. Live(t) /\ (turns[t].notified \/ proc # "up")
      BY <1>0 DEF Moves, Live
    <2>2. LostTurn(t)
      BY <2>1 DEF LostTurn, ToldAreLost, Inv, TurnInv
    <2> QED
      BY <2>2 DEF StaysLost
  <1>13. StrayFollows'
    <2> SUFFICES ASSUME NEW t \in DOMAIN turns, turns'[t].stray
                 PROVE  Follows(t)'
      BY <1>2 DEF StrayFollows
    <2>1. Follows(t)
      BY DEF MayStray, StrayFollows, Inv, TurnInv
    <2>2. PICK u \in 1..(t - 1) : turns[u].session = turns[t].session /\ turns[u].cancelled
      BY <2>1 DEF Follows
    <2>3. u \in DOMAIN turns
      BY Facts
    <2>4. turns'[u].session = turns'[t].session /\ turns'[u].cancelled
      BY <1>0, <2>2, <2>3 DEF Moves
    <2> QED
      BY <2>4 DEF Follows
  <1>14. MissedLetGo'
    <2> SUFFICES ASSUME NEW t \in DOMAIN turns, Live(t)', turns'[t].missed
                 PROVE  ~HeldBy(turns[t])'
      BY <1>2 DEF MissedLetGo
    <2>1. ~HeldBy(turns[t]) /\ Live(t)
      BY <1>0 DEF Moves, Live, MissedLetGo, Inv, TurnInv
    <2>2. turns[t].stranded => turns'[t].stranded
      BY <1>6
    <2> QED
      BY <2>1, <2>2 DEF HeldBy, StaysLost, LostTurn
  <1>15. ElsewhereIfAstray'
    <2> SUFFICES ASSUME NEW t \in DOMAIN turns, Live(t)', turns'[t].reads # 0
                 PROVE  Elsewhere(turns[t])'
      BY <1>2 DEF ElsewhereIfAstray
    <2>1. Elsewhere(turns[t]) /\ turns'[t].state = turns[t].state /\ turns[t].state \in 0..made
      BY <1>0, <1>6 DEF Moves, Live, ElsewhereIfAstray, Inv, TurnInv
    <2>2. ASSUME NEW s \in Sessions, known'[s] = turns'[t].state
          PROVE  known'[s] = 0
      BY <1>1, <2>1, <2>2 DEF Elsewhere, KnownOrNew
    <2> QED
      BY <2>2 DEF Elsewhere
  <1>16. NoNewCancel => CancelFollows'
    BY <1>0, <1>2, CancelsStay
  <1>17. Promised!Next
    BY <1>0, <1>2, <1>12, ProceedSeen DEF Promised!Next
  <1> QED
    BY <1>4, <1>5, <1>7, <1>9, <1>10, <1>11, <1>12, <1>13, <1>14, <1>15, <1>16, <1>17
    DEF TurnInv, TurnsKept

LEMMA GoesMayStray ==
  ASSUME NEW t, NEW q, Goes(turns[t], q)
  PROVE  MayStray(t, q)
  BY DEF Goes, MayStray

(* ... where no state is made and no process started.                      *)
LEMMA DropKeeps ==
  ASSUME Inv, ProcessTyped', UNCHANGED <<made, starts>>, proc' = "up" => proc = "up",
         turns' \in [DOMAIN turns -> TurnType(made, starts)],
         \A t \in DOMAIN turns : Goes(turns[t], turns'[t]) /\ KeepsBacked(t),
         \A s \in Sessions : known'[s] = known[s] \/ known'[s] = 0
  PROVE  TurnsKept
  <1>1. made \in Nat /\ starts \in Nat /\ \A s \in Sessions : known[s] \in 0..made
    BY Facts
  <1>2. made <= made' /\ starts <= starts'
    BY <1>1
  <1>3. \A s \in Sessions : ~(known'[s] > made)
    BY <1>1
  <1>4. KnownOrNew
    BY <1>3 DEF KnownOrNew
  <1>5. \A t \in DOMAIN turns : MayStray(t, turns'[t])
    BY GoesMayStray
  <1>6. \A t \in DOMAIN turns : StaysLost(t)
    BY DEF StaysLost, LostTurn, Goes, Moves, Live
  <1> QED
    BY <1>2, <1>4, <1>5, <1>6, GoKeeps

(* Nothing changes but turns.                                              *)
LEMMA ChangeKeeps ==
  ASSUME Inv, UNCHANGED process, DOMAIN turns' = DOMAIN turns,
         turns' = [u \in DOMAIN turns' |-> turns'[u]],
         \A u \in DOMAIN turns : MayStray(u, turns'[u])
  PROVE  TurnsKept
  <1> USE Facts
  <1>1. UNCHANGED <<proc, starts, object, made, known>>
    BY DEF process
  <1>2. ProcessTyped'
    BY <1>1 DEF ProcessTyped, Inv
  <1>3. turns' \in [DOMAIN turns -> TurnType(made, starts)]
    BY DEF MayStray, Moves
  <1>4. \A u \in DOMAIN turns : KeepsBacked(u) /\ StaysLost(u)
    BY <1>1 DEF KeepsBacked, StaysLost, LostTurn, MayStray, Moves, Live
  <1>5. made <= made' /\ starts <= starts' /\ KnownOrNew
    BY <1>1 DEF KnownOrNew
  <1> QED
    BY <1>2, <1>3, <1>4, <1>5, GoKeeps

(* ... but one.                                                            *)
LEMMA OneChangeKeeps ==
  ASSUME Inv, UNCHANGED process, NEW t \in DOMAIN turns, NEW q, MayStray(t, q),
         turns' = [turns EXCEPT ![t] = q]
  PROVE  TurnsKept
  <1> USE Facts
  <1>1. \A u \in DOMAIN turns : MayStray(u, turns[u])
    BY Stays, GoesMayStray
  <1>2. DOMAIN turns' = DOMAIN turns /\ turns' = [u \in DOMAIN turns' |-> turns'[u]]
    OBVIOUS
  <1>3. \A u \in DOMAIN turns : MayStray(u, turns'[u])
    BY <1>1
  <1> QED
    BY <1>2, <1>3, ChangeKeeps

LEMMA SameKeeps ==
  ASSUME Inv, UNCHANGED <<process, turns>>
  PROVE  TurnsKept
  <1>1. UNCHANGED <<proc, starts, object, known, made, turns>>
    BY DEF process
  <1>2. TurnInv'
    BY <1>1 DEF Inv, TurnInv, TurnsTyped, EachSound, OwnState, OneKnows, ItsSession, Backed,
                ToldAreLost, StrayFollows, Follows, MissedLetGo, ElsewhereIfAstray, HeldBy, Elsewhere,
                Live, LostTurn
  <1>3. NoNewCancel => CancelFollows'
    BY <1>1 DEF Inv, CancelFollows, CancelsOn, NoNewCancel, Live
  <1>4. TurnsSeen' = TurnsSeen
    BY <1>1 DEF TurnsSeen, Outcome, Holds, Begun, Live, LostTurn
  <1> QED
    BY <1>2, <1>3, <1>4 DEF TurnsKept

(* A stranded turn that a new one displaces from its state.                *)
LEMMA Displaced ==
  ASSUME NEW r \in TurnType(made, starts), Sound(r), r.stranded, made \in Nat
  PROVE  LET q == [r EXCEPT !.state = 0]
         IN  /\ q \in TurnType(made, starts) /\ Sound(q) /\ q.state = 0
             /\ q.session = r.session /\ q.phase = r.phase /\ q.process = r.process
             /\ q.cancelled = r.cancelled /\ q.notified = r.notified /\ q.stray = r.stray
             /\ q.stranded = r.stranded /\ q.frames = r.frames /\ q.torn = r.torn
             /\ q.missed = r.missed /\ q.reads = r.reads
  <1> DEFINE q == [r EXCEPT !.state = 0]
  <1>1. 0 \in 0..made
    OBVIOUS
  <1>2. q \in TurnType(made, starts)
    BY <1>1 DEF TurnType
  <1>3. /\ q.session = r.session /\ q.phase = r.phase /\ q.process = r.process
        /\ q.cancelled = r.cancelled /\ q.notified = r.notified /\ q.stray = r.stray
        /\ q.stranded = r.stranded /\ q.frames = r.frames /\ q.torn = r.torn
        /\ q.missed = r.missed /\ q.reads = r.reads /\ q.state = 0
    BY DEF TurnType
  <1> HIDE DEF q
  <1>4. Sound(q)
    BY <1>3 DEF Sound
  <1> QED
    BY <1>2, <1>3, <1>4 DEF q

LEMMA SubmitKeeps ==
  ASSUME Inv, NEW s \in Sessions, NEW gone \in BOOLEAN, Submit(s, gone), proc = "up",
         UNCHANGED process
  PROVE  TurnsKept
  <1> USE Facts
  <1>0. UNCHANGED <<proc, starts, known, made>>
    BY DEF process
  <1>1. CASE UNCHANGED turns
    BY <1>1, SameKeeps
  <1>2. CASE known[s] # 0 /\ ~ActiveOn(known[s]) /\ NewTurn(s, known[s], gone)
    <2> DEFINE x == [session |-> s, state |-> known[s], process |-> starts,
                     phase |-> "created", reads |-> 0, cancelled |-> FALSE, notified |-> FALSE,
                     torn |-> FALSE, gone |-> gone, stray |-> FALSE, missed |-> FALSE,
                     stranded |-> FALSE, frames |-> 0]
               off(r) == [r EXCEPT !.state = 0]
               T == [t \in DOMAIN turns |->
                       IF On(t, known[s]) THEN off(turns[t]) ELSE turns[t]]
    <2>0. PICK n : n = Len(turns) + 1
      OBVIOUS
    <2>1. turns' = Append(T, x) /\ Len(turns) < MaxTurns
      BY <1>2 DEF NewTurn
    <2>2. x \in TurnType(made, starts)
      BY DEF TurnType
    <2>3. /\ Sound(x) /\ x.session = s /\ x.state = known[s] /\ x.phase = "created"
          /\ x.process = starts /\ ~x.notified /\ ~x.stray /\ ~x.stranded /\ x.cancelled = FALSE
          /\ x.frames = 0 /\ ~x.missed /\ x.reads = 0
      BY <1>2 DEF Sound
    <2> HIDE DEF x
    <2>r. ASSUME NEW k \in DOMAIN turns
          PROVE  /\ T[k] \in TurnType(made, starts) /\ Sound(T[k])
                 /\ T[k].session = turns[k].session /\ T[k].phase = turns[k].phase
                 /\ T[k].process = turns[k].process /\ T[k].cancelled = turns[k].cancelled
                 /\ T[k].notified = turns[k].notified /\ T[k].stray = turns[k].stray
                 /\ T[k].stranded = turns[k].stranded /\ T[k].frames = turns[k].frames
                 /\ T[k].torn = turns[k].torn /\ T[k].missed = turns[k].missed
                 /\ T[k].reads = turns[k].reads
                 /\ T[k].state = turns[k].state \/ (T[k].state = 0 /\ turns[k].stranded)
                 /\ Live(k) => T[k].state # known[s]
      <3>1. turns[k] \in TurnType(made, starts) /\ Sound(turns[k])
        OBVIOUS
      <3>2. CASE On(k, known[s])
        <4> DEFINE q == off(turns[k])
        <4>1. turns[k].stranded
          BY <1>2, <3>2 DEF ActiveOn
        <4>2. /\ q \in TurnType(made, starts) /\ Sound(q)
              /\ q.session = turns[k].session /\ q.phase = turns[k].phase
              /\ q.process = turns[k].process /\ q.cancelled = turns[k].cancelled
              /\ q.notified = turns[k].notified /\ q.stray = turns[k].stray
              /\ q.stranded = turns[k].stranded /\ q.frames = turns[k].frames
              /\ q.torn = turns[k].torn /\ q.missed = turns[k].missed
              /\ q.reads = turns[k].reads /\ q.state = 0
          BY <3>1, <4>1, Displaced
        <4> HIDE DEF off
        <4>3. T[k] = q
          BY <3>2
        <4> HIDE DEF q, T
        <4>5. q.state # known[s]
          BY <1>2, <4>2
        <4>6. q.state = 0 /\ turns[k].stranded
          BY <4>1, <4>2
        <4> QED
          BY <4>2, <4>3, <4>5, <4>6
      <3>3. CASE ~On(k, known[s])
        <4>1. T[k] = turns[k]
          BY <3>3
        <4> QED
          BY <1>2, <3>1, <3>3, <4>1 DEF On
      <3> QED
        BY <3>2, <3>3
    <2>t. T \in Seq(TurnType(made, starts)) /\ Len(T) = Len(turns) /\ DOMAIN T = DOMAIN turns
      <3>1. T \in [DOMAIN turns -> TurnType(made, starts)]
        BY <2>r
      <3> QED
        BY <3>1, Mapped
    <2> HIDE DEF T
    <2>4. /\ turns' \in Seq(TurnType(made, starts)) /\ Len(turns') = n
          /\ DOMAIN turns' = DOMAIN turns \cup {n}
          /\ turns'[n] = x
          /\ \A k \in DOMAIN turns : turns'[k] = T[k] /\ k # n
      BY <2>0, <2>1, <2>2, <2>t, Appends
    <2>5. n <= MaxTurns /\ \A k \in DOMAIN turns : k <= n
      BY <2>0, <2>1, BoundsAssumption
    <2>6. n \in Nat \ {0} /\ DOMAIN turns = 1..(n - 1)
      BY <2>0
    <2>7. TurnsTyped'
      BY <1>0, <2>4, <2>5 DEF TurnsTyped
    <2>8. EachSound'
      BY <2>3, <2>4, <2>r DEF EachSound
    <2>9. \A u \in DOMAIN turns : Live(u) => turns'[u].state # known[s]
      BY <2>4, <2>r
    <2>10. /\ turns'[n].phase # "done"
           /\ \A u \in DOMAIN turns : /\ Live(u)' <=> Live(u)
                                      /\ LostTurn(u)' <=> LostTurn(u)
                                      /\ HeldBy(turns[u])' <=> HeldBy(turns[u])
      BY <1>0, <2>3, <2>4, <2>r DEF Live, LostTurn, HeldBy
    <2>e. \A u \in DOMAIN turns :
            turns'[u].state # 0 => turns'[u].state = turns[u].state
      BY <2>4, <2>r
    <2>11. OwnState'
      BY <2>3, <2>4, <2>9, <2>10, <2>e DEF OwnState, Live, Inv, TurnInv
    <2>12. OneKnows'
      BY <1>0 DEF OneKnows, Inv, TurnInv
    <2>13. ItsSession'
      <3>1. \A u \in DOMAIN turns : turns'[u].session = turns[u].session
        BY <2>4, <2>r
      <3> QED
        BY <1>0, <1>2, <2>3, <2>4, <2>10, <2>e, <3>1 DEF ItsSession, OneKnows, Live, Inv, TurnInv
    <2>14. Backed'
      <3>1. ASSUME NEW u \in DOMAIN turns, Live(u)', ~turns'[u].stranded, ~LostTurn(u)'
            PROVE  known'[turns'[u].session] = turns'[u].state
        <4>1. turns'[u].session = turns[u].session /\ turns'[u].stranded = turns[u].stranded
              /\ turns'[u].state = turns[u].state
          BY <2>4, <2>r, <3>1
        <4> QED
          BY <1>0, <2>10, <3>1, <4>1 DEF Backed, Inv, TurnInv
      <3>2. known'[turns'[n].session] = turns'[n].state
        BY <1>0, <2>3, <2>4
      <3> QED
        BY <2>4, <3>1, <3>2 DEF Backed
    <2>15. ToldAreLost' /\ MissedLetGo' /\ ElsewhereIfAstray'
      <3>1. \A u \in DOMAIN turns :
              /\ turns'[u].notified = turns[u].notified /\ turns'[u].missed = turns[u].missed
              /\ turns'[u].reads = turns[u].reads
        BY <2>4, <2>r
      <3>2. ASSUME NEW u \in DOMAIN turns, Elsewhere(turns[u])
            PROVE  Elsewhere(turns[u])'
        BY <1>0, <2>e, <3>2 DEF Elsewhere
      <3>3. ToldAreLost'
        BY <2>3, <2>4, <2>10, <3>1 DEF ToldAreLost, Inv, TurnInv
      <3>4. MissedLetGo'
        BY <2>3, <2>4, <2>10, <3>1 DEF MissedLetGo, Inv, TurnInv
      <3>5. ElsewhereIfAstray'
        BY <2>3, <2>4, <2>10, <3>1, <3>2 DEF ElsewhereIfAstray, Inv, TurnInv
      <3> QED
        BY <3>3, <3>4, <3>5
    <2>16. StrayFollows'
      <3>1. ASSUME NEW t \in DOMAIN turns, turns'[t].stray
            PROVE  Follows(t)'
        <4>1. PICK u \in 1..(t - 1) : turns[u].session = turns[t].session /\ turns[u].cancelled
          BY <2>4, <2>r, <3>1 DEF StrayFollows, Follows, Inv, TurnInv
        <4>2. u \in DOMAIN turns
          BY <2>6
        <4> QED
          BY <2>4, <2>r, <4>1, <4>2 DEF Follows
      <3> QED
        BY <2>3, <2>4, <3>1 DEF StrayFollows
    <2>17. ASSUME NoNewCancel PROVE CancelFollows'
      <3> SUFFICES ASSUME NEW c \in Conns, doing'[c].op = "cancel"
                   PROVE  doing'[c].turn \in DOMAIN turns'
                          /\ CancelsOn(doing[c].state, doing[c].turn)'
        BY DEF CancelFollows
      <3>1. doing'[c] = doing[c]
        BY <2>17 DEF NoNewCancel
      <3>0. PICK u : u = doing[c].turn
        OBVIOUS
      <3>2. u \in DOMAIN turns /\ CancelsOn(doing[c].state, u)
        BY <3>0, <3>1 DEF Inv, CancelFollows
      <3>3. turns'[u].session = turns[u].session /\ turns'[u].cancelled /\ u <= n
        BY <2>4, <2>5, <2>r, <3>2 DEF CancelsOn
      <3>g. doing[c].state # 0
        <4>1. doing[c] \in HandlerType(made, starts)
          BY DEF Inv, DoingTyped
        <4> QED
          BY <3>1, <4>1 DEF HandlerType, Free
      <3>4. \A t \in DOMAIN turns' :
              Live(t)' /\ turns'[t].state = doing'[c].state
                => turns'[t].session = turns'[u].session /\ u <= t
        <4> SUFFICES ASSUME NEW t \in DOMAIN turns', Live(t)', turns'[t].state = doing[c].state
                     PROVE  turns'[t].session = turns'[u].session /\ u <= t
          BY <3>1
        <4>1. CASE t = n
          BY <2>3, <2>4, <3>2, <3>3, <4>1 DEF CancelsOn
        <4>2. CASE t # n
          <5>1. t \in DOMAIN turns /\ turns'[t].session = turns[t].session
                /\ turns[t].state = doing[c].state
            BY <2>4, <2>e, <2>r, <3>g, <4>2
          <5> QED
            BY <2>10, <3>2, <3>3, <5>1 DEF CancelsOn
        <4> QED
          BY <4>1, <4>2
      <3> QED
        BY <1>0, <2>4, <3>0, <3>1, <3>2, <3>3, <3>4 DEF CancelsOn
    <2>18. TurnInv'
      BY <2>7, <2>8, <2>11, <2>12, <2>13, <2>14, <2>15, <2>16 DEF TurnInv
    <2>19. Promised!Begin(s)
      <3> DEFINE y == [session |-> s, outcome |-> "running", asked |-> FALSE,
                       held |-> TRUE, begun |-> FALSE, frames |-> 0]
                 R == {TurnsSeen'[t] : t \in DOMAIN turns'}
      <3>1. DOMAIN turns' = 1..n /\ DOMAIN TurnsSeen' = 1..n /\ DOMAIN TurnsSeen = 1..(n - 1)
        BY <2>4, <2>6 DEF TurnsSeen
      <3>2. Holds(n)' = TRUE /\ Outcome(n)' = "running" /\ Begun(n)' = FALSE
        BY <1>0, <2>3, <2>4 DEF Holds, Outcome, Begun, Live, LostTurn
      <3>3. TurnsSeen'[n] = y
        <4>1. TurnsSeen'[n] =
                [session |-> turns'[n].session, outcome |-> Outcome(n)',
                 asked |-> turns'[n].cancelled, held |-> Holds(n)', begun |-> Begun(n)',
                 frames |-> turns'[n].frames]
          BY <2>4 DEF TurnsSeen
        <4> QED
          BY <2>3, <2>4, <3>2, <4>1
      <3>4. \A t \in DOMAIN turns : TurnsSeen'[t] = TurnsSeen[t]
        <4> SUFFICES ASSUME NEW t \in DOMAIN turns PROVE TurnsSeen'[t] = TurnsSeen[t]
          OBVIOUS
        <4>1. t \in DOMAIN turns'
              /\ (Live(t)' <=> Live(t)) /\ (LostTurn(t)' <=> LostTurn(t))
          BY <2>4, <2>10
        <4>2. /\ turns'[t].session = turns[t].session /\ turns'[t].phase = turns[t].phase
              /\ turns'[t].cancelled = turns[t].cancelled /\ turns'[t].frames = turns[t].frames
              /\ turns'[t].stranded = turns[t].stranded /\ turns'[t].torn = turns[t].torn
              /\ turns'[t].missed = turns[t].missed
          BY <2>4, <2>r
        <4>3. Outcome(t)' = Outcome(t)
          BY <4>1, <4>2 DEF Outcome
        <4>4. Holds(t)' = Holds(t)
          BY <4>1, <4>2 DEF Holds
        <4>5. Begun(t)' = Begun(t)
          BY <4>1, <4>2 DEF Begun
        <4> QED
          BY <4>1, <4>2, <4>3, <4>4, <4>5 DEF TurnsSeen
      <3> HIDE DEF y, R
      <3>5. \A t \in 1..n : TurnsSeen'[t] \in R
        BY <3>1 DEF R
      <3>6. TurnsSeen' \in Seq(R) /\ Len(TurnsSeen') = n
        <4>1. TurnsSeen' = [t \in 1..n |-> TurnsSeen'[t]]
          BY <3>1 DEF TurnsSeen
        <4>2. TurnsSeen' \in [1..n -> R]
          BY <3>5, <4>1
        <4> QED
          BY <2>6, <4>2, SeqDef, LenProperties
      <3>7. TurnsSeen \in Seq(R) /\ Len(TurnsSeen) = Len(turns)
        <4>1. TurnsSeen = [t \in DOMAIN turns |-> TurnsSeen[t]]
          BY DEF TurnsSeen
        <4>2. \A t \in DOMAIN turns : TurnsSeen[t] \in R
          BY <2>4, <3>4 DEF R
        <4>3. TurnsSeen \in [DOMAIN turns -> R]
          BY <4>1, <4>2
        <4>4. turns \in Seq(TurnType(made, starts))
          BY Facts
        <4> QED
          BY <4>3, <4>4, Mapped
      <3>8. y \in R
        BY <2>6, <3>3, <3>5
      <3>9. TurnsSeen' = Append(TurnsSeen, y)
        <4>1. /\ Append(TurnsSeen, y) \in Seq(R) /\ Len(Append(TurnsSeen, y)) = Len(TurnsSeen) + 1
              /\ Append(TurnsSeen, y)[Len(TurnsSeen) + 1] = y
              /\ \A k \in DOMAIN TurnsSeen : Append(TurnsSeen, y)[k] = TurnsSeen[k]
          BY <3>7, <3>8, Appends
        <4>2. Len(TurnsSeen) + 1 = n
          BY <2>0, <3>7
        <4>3. \A k \in 1..n : TurnsSeen'[k] = Append(TurnsSeen, y)[k]
          BY <2>6, <3>1, <3>3, <3>4, <4>1, <4>2
        <4> QED
          BY <3>6, <4>1, <4>2, <4>3, SeqEqual
      <3>10. \A t \in DOMAIN TurnsSeen : ~(TurnsSeen[t].session = s /\ TurnsSeen[t].held)
        <4> SUFFICES ASSUME NEW t \in DOMAIN turns, turns[t].session = s, Holds(t)
                     PROVE  FALSE
          BY <2>6, <3>1 DEF TurnsSeen
        <4>1. known[s] = turns[t].state /\ Live(t) /\ ~turns[t].stranded
          BY DEF Holds, Backed, Inv, TurnInv
        <4> QED
          BY <1>2, <4>1 DEF ActiveOn, On
      <3> QED
        BY <2>1, <3>7, <3>9, <3>10 DEF Promised!Begin, Promised!Turn, y
    <2> QED
      BY <2>17, <2>18, <2>19 DEF TurnsKept, Promised!Next
  <1> QED
    BY <1>1, <1>2 DEF Submit

(* What a load does to the turns.                                          *)
LEMMA StrandedGoes ==
  ASSUME Inv, NEW s \in Sessions
  PROVE  /\ Stranded(s) \in [DOMAIN turns -> TurnType(made, starts)]
         /\ \A t \in DOMAIN turns :
              /\ Goes(turns[t], Stranded(s)[t])
              /\ Stranded(s)[t].phase = turns[t].phase
              /\ Live(t) /\ turns[t].state = known[s] => Stranded(s)[t].stranded
  <1> SUFFICES ASSUME NEW t \in DOMAIN turns
               PROVE  /\ Goes(turns[t], Stranded(s)[t])
                      /\ Stranded(s)[t].phase = turns[t].phase
                      /\ Live(t) /\ turns[t].state = known[s] => Stranded(s)[t].stranded
    BY DEF Stranded, Goes, Moves
  <1>1. turns[t] \in TurnType(made, starts) /\ Sound(turns[t])
    BY Facts
  <1>2. CASE Live(t) /\ turns[t].state = known[s]
    <2> DEFINE q == [turns[t] EXCEPT !.stranded = TRUE]
    <2>1. Stranded(s)[t] = q
      BY <1>2 DEF Stranded
    <2>2. Goes(turns[t], q) /\ q.stranded /\ q.phase = turns[t].phase
      BY <1>1, <1>2, LetGoGoes DEF Live
    <2> HIDE DEF q
    <2> QED
      BY <2>1, <2>2
  <1>3. CASE ~(Live(t) /\ turns[t].state = known[s])
    BY <1>1, <1>3, Stays DEF Stranded
  <1> QED
    BY <1>2, <1>3

(* What a teardown does to them.                                           *)
LEMMA TornDownGoes ==
  ASSUME Inv, NEW G
  PROVE  /\ TornDown(G) \in [DOMAIN turns -> TurnType(made, starts)]
         /\ \A t \in DOMAIN turns :
              /\ Goes(turns[t], TornDown(G)[t])
              /\ t \in Torn(G) => TornDown(G)[t].phase = "done"
              /\ t \notin Torn(G) => TornDown(G)[t] = turns[t]
  <1> SUFFICES ASSUME NEW t \in DOMAIN turns
               PROVE  /\ Goes(turns[t], TornDown(G)[t])
                      /\ t \in Torn(G) => TornDown(G)[t].phase = "done"
                      /\ t \notin Torn(G) => TornDown(G)[t] = turns[t]
    BY DEF TornDown, Goes, Moves
  <1>1. turns[t] \in TurnType(made, starts) /\ Sound(turns[t]) /\ made \in Nat /\ starts \in Nat
    BY Facts
  <1>2. CASE t \in Torn(G)
    <2> DEFINE q == [Over(turns[t], IF Reports(turns[t]) THEN 1 ELSE 0) EXCEPT !.torn = TRUE]
    <2>1. TornDown(G)[t] = q
      BY <1>2 DEF TornDown
    <2>2. turns[t].phase # "done"
      BY <1>2 DEF Torn, On, Live
    <2>3. Goes(turns[t], q) /\ q.phase = "done"
      BY <1>1, <2>2, TornGoes
    <2> HIDE DEF q
    <2> QED
      BY <1>2, <2>1, <2>3
  <1>3. CASE t \notin Torn(G)
    BY <1>1, <1>3, Stays DEF TornDown
  <1> QED
    BY <1>2, <1>3

LEMMA LoadKeeps ==
  ASSUME Inv, NEW c, NEW op, NEW s \in Sessions, NEW gone, Load(c, op, s, gone),
         UNCHANGED <<proc, starts, object>>
  PROVE  ProcessTyped' /\ TurnsKept /\ made' = made + 1
  <1> USE Facts
  <1>1. /\ made < MaxLoads /\ made' = made + 1
        /\ known' = [known EXCEPT ![s] = made + 1]
        /\ turns' = Stranded(s)
    BY DEF Load
  <1>2. made' \in 0..MaxLoads /\ known' \in [Sessions -> 0..made']
    BY <1>1, BoundsAssumption
  <1>3. ProcessTyped'
    BY <1>2 DEF ProcessTyped, Inv
  <1>4. \A t \in DOMAIN turns : KeepsBacked(t)
    <2> SUFFICES ASSUME NEW t \in DOMAIN turns, Live(t)', ~turns'[t].stranded, ~LostTurn(t)'
                 PROVE  known'[turns[t].session] = known[turns[t].session]
      BY DEF KeepsBacked
    <2>1. Goes(turns[t], turns'[t]) /\ turns'[t].phase = turns[t].phase
          /\ (Live(t) /\ turns[t].state = known[s] => turns'[t].stranded)
      BY <1>1, StrandedGoes
    <2>2. Live(t) /\ ~LostTurn(t) /\ ~turns[t].stranded
      BY <2>1 DEF Live, LostTurn, Goes, Moves
    <2>3. known[turns[t].session] = turns[t].state
      BY <2>2 DEF Inv, TurnInv, Backed
    <2>4. turns[t].session # s
      BY <2>1, <2>2, <2>3
    <2> QED
      BY <1>1, <2>4
  <1>5. \A r \in Sessions : known'[r] = known[r] \/ (r = s /\ known'[r] = made + 1)
    BY <1>1
  <1>6. \A r \in Sessions : known[r] <= made
    OBVIOUS
  <1>7. KnownOrNew
    BY <1>5, <1>6 DEF KnownOrNew
  <1>8. turns' \in [DOMAIN turns -> TurnType(made, starts)]
        /\ \A t \in DOMAIN turns : Goes(turns[t], turns'[t])
    BY <1>1, StrandedGoes
  <1>9. \A t \in DOMAIN turns : MayStray(t, turns'[t]) /\ StaysLost(t)
    BY <1>8, GoesMayStray DEF StaysLost, LostTurn, Goes, Moves, Live
  <1>10. TurnsKept
    BY <1>1, <1>3, <1>4, <1>7, <1>8, <1>9, GoKeeps
  <1> QED
    BY <1>1, <1>3, <1>10

(* Removing a session.  K and T are what the refused load that it undoes,  *)
(* if any, has left of the known states and of the turns.                  *)
Undone(s, K, T) ==
  \/ K = known /\ T = turns
  \/ K = [known EXCEPT ![s] = 0] /\ T = Stranded(s)
  \/ K = [r \in Sessions |-> 0] /\ T = turns /\ proc # "up"

LEMMA UndoneGoes ==
  ASSUME Inv, NEW s \in Sessions, NEW K, NEW T, Undone(s, K, T)
  PROVE  /\ T \in [DOMAIN turns -> TurnType(made, starts)]
         /\ \A t \in DOMAIN turns :
              /\ Goes(turns[t], T[t])
              /\ \/ T[t].stranded
                 \/ K[turns[t].session] = known[turns[t].session]
                 \/ ~Live(t) \/ LostTurn(t)
         /\ K \in [Sessions -> 0..made]
         /\ \A r \in Sessions : K[r] = known[r] \/ K[r] = 0
  <1> USE Facts
  <1>1. /\ turns \in [DOMAIN turns -> TurnType(made, starts)]
        /\ \A t \in DOMAIN turns : Goes(turns[t], turns[t])
    BY Stays
  <1>2. \A t \in DOMAIN turns : turns[t].session \in Sessions
    BY DEF TurnType
  <1>3. CASE K = known /\ T = turns
    BY <1>1, <1>3
  <1>4. CASE K = [known EXCEPT ![s] = 0] /\ T = Stranded(s)
    <2>1. ASSUME NEW t \in DOMAIN turns
          PROVE  \/ T[t].stranded
                 \/ K[turns[t].session] = known[turns[t].session]
                 \/ ~Live(t) \/ LostTurn(t)
      <3>1. CASE turns[t].session # s
        BY <1>2, <1>4, <3>1
      <3>2. CASE turns[t].session = s /\ Live(t) /\ ~LostTurn(t)
        <4>1. CASE turns[t].stranded
          BY <1>4, <3>2, <4>1, StrandedGoes DEF Goes, Moves, Live
        <4>2. CASE ~turns[t].stranded
          <5>1. known[s] = turns[t].state
            BY <3>2, <4>2 DEF Inv, TurnInv, Backed
          <5> QED
            BY <1>4, <3>2, <5>1, StrandedGoes
        <4> QED
          BY <4>1, <4>2
      <3> QED
        BY <3>1, <3>2
    <2>2. K \in [Sessions -> 0..made] /\ \A r \in Sessions : K[r] = known[r] \/ K[r] = 0
      BY <1>4
    <2>3. /\ T \in [DOMAIN turns -> TurnType(made, starts)]
          /\ \A t \in DOMAIN turns : Goes(turns[t], T[t])
      BY <1>4, StrandedGoes
    <2> QED
      BY <2>1, <2>2, <2>3
  <1>5. CASE K = [r \in Sessions |-> 0] /\ T = turns /\ proc # "up"
    BY <1>1, <1>5 DEF LostTurn
  <1> QED
    BY <1>3, <1>4, <1>5 DEF Undone

LEMMA RemoveKeeps ==
  ASSUME Inv, NEW s \in Sessions, NEW K, NEW T, Undone(s, K, T), Remove(s, K, T),
         UNCHANGED <<proc, starts, object, made>>
  PROVE  ProcessTyped' /\ TurnsKept
  <1> USE Facts
  <1> DEFINE closed == IF handle[s] # 0 /\ handle[s] = object THEN {K[s]} ELSE {}
  <1>1. /\ known' = IF closed = {} THEN K ELSE [K EXCEPT ![s] = 0]
        /\ turns' = [t \in DOMAIN turns |->
                       IF turns[t].session = s /\ Live(t) /\ t \notin Torn(closed)
                         THEN [T[t] EXCEPT !.gone = TRUE] ELSE TornDown(closed)[t]]
    BY DEF Remove
  <1>2. closed = {} \/ closed = {K[s]}
    OBVIOUS
  <1> HIDE DEF closed
  <1>3. /\ known' \in [Sessions -> 0..made]
        /\ \A r \in Sessions : known'[r] = known[r] \/ known'[r] = 0
        /\ \A r \in Sessions : r # s => known'[r] = K[r]
        /\ closed = {} => known'[s] = K[s]
    BY <1>1, UndoneGoes
  <1>4. ProcessTyped'
    BY <1>3 DEF ProcessTyped, Inv
  <1>5. ASSUME NEW t \in DOMAIN turns
        PROVE  Goes(turns[t], turns'[t]) /\ KeepsBacked(t)
    <2>1. turns[t] \in TurnType(made, starts) /\ turns[t].session \in Sessions
      BY DEF TurnType
    <2>2. Goes(turns[t], T[t])
      BY UndoneGoes
    <2>3. CASE turns[t].session = s /\ Live(t) /\ t \notin Torn(closed)
      <3>1. turns'[t] = [T[t] EXCEPT !.gone = TRUE]
        BY <1>1, <2>3
      <3>2. Goes(turns[t], turns'[t]) /\ turns'[t].phase = T[t].phase
            /\ turns'[t].stranded = T[t].stranded
        BY <2>1, <2>2, <2>3, <3>1, GoneGoes DEF Live
      <3>3. ASSUME Live(t)', ~turns'[t].stranded, ~LostTurn(t)'
            PROVE  known'[turns[t].session] = known[turns[t].session]
        <4>1. ~LostTurn(t)
          BY <3>2, <3>3 DEF LostTurn, Goes, Moves, Live
        <4>2. K[s] = known[s] /\ ~turns[t].stranded
          BY <2>2, <2>3, <3>2, <3>3, <4>1, UndoneGoes DEF Goes, Moves, Live
        <4>3. known[s] = turns[t].state
          BY <2>3, <4>1, <4>2 DEF Inv, TurnInv, Backed
        <4>g. turns[t].state # 0
          BY <2>3, <4>2 DEF Sound, Live
        <4>4. closed = {}
          BY <1>2, <2>3, <4>2, <4>3, <4>g DEF Torn, On
        <4> QED
          BY <1>3, <2>3, <4>1, <4>2, <4>4
      <3> QED
        BY <3>2, <3>3 DEF KeepsBacked
    <2>4. CASE ~(turns[t].session = s /\ Live(t) /\ t \notin Torn(closed))
      <3>1. turns'[t] = TornDown(closed)[t]
        BY <1>1, <2>4
      <3>2. Goes(turns[t], turns'[t])
        BY <3>1, TornDownGoes
      <3>3. ASSUME Live(t)', ~turns'[t].stranded, ~LostTurn(t)'
            PROVE  known'[turns[t].session] = known[turns[t].session]
        <4>1. Live(t) /\ ~LostTurn(t)
          BY <3>2, <3>3 DEF LostTurn, Goes, Moves, Live
        <4>2. t \notin Torn(closed) /\ turns'[t] = turns[t]
          BY <3>1, <3>3, <4>1, TornDownGoes DEF Live
        <4>3. turns[t].session # s
          BY <2>4, <4>1, <4>2
        <4>4. CASE K[turns[t].session] = known[turns[t].session]
          BY <1>3, <2>1, <4>1, <4>3, <4>4
        <4>5. CASE K[turns[t].session] # known[turns[t].session]
          BY <2>1, <4>1, <4>3, <4>5 DEF Undone, LostTurn
        <4> QED
          BY <4>4, <4>5
      <3> QED
        BY <3>2, <3>3 DEF KeepsBacked
    <2> QED
      BY <2>3, <2>4
  <1>6. turns' \in [DOMAIN turns -> TurnType(made, starts)]
    BY <1>1, <1>5 DEF Goes, Moves
  <1>7. TurnsKept
    BY <1>3, <1>4, <1>5, <1>6, DropKeeps
  <1> QED
    BY <1>4, <1>7

LEMMA RemoveTypes ==
  ASSUME Inv, NEW s \in Sessions, NEW K, NEW T, Remove(s, K, T), UNCHANGED object,
         owned' \in [Conns -> SUBSET Sessions]
  PROVE  SessionTyped'
  BY Facts DEF Remove, SessionTyped, Inv

(***************************************************************************)
(* The handlers that connections are suspended in                          *)
(***************************************************************************)
LEMMA HandlerKeeps ==
  ASSUME Inv, ProcessTyped', made <= made', starts <= starts', NEW c \in Conns,
         NEW h, h \in HandlerType(made', starts'),
         doing' = [doing EXCEPT ![c] = h],
         h.op # "cancel"
  PROVE  DoingKept
  <1>1. HandlerType(made, starts) \subseteq HandlerType(made', starts')
    BY Facts, Wider DEF ProcessTyped
  <1>2. doing \in [Conns -> HandlerType(made', starts')]
    BY <1>1 DEF Inv, DoingTyped
  <1>3. NoNewCancel
    BY <1>2 DEF NoNewCancel
  <1> QED
    BY <1>2, <1>3 DEF DoingTyped, DoingKept

LEMMA FreedKeeps ==
  ASSUME Inv, UNCHANGED <<made, starts>>, NEW c \in Conns, doing' = [doing EXCEPT ![c] = Free]
  PROVE  DoingKept
  <1>1. Free \in HandlerType(made, starts)
    BY DEF HandlerType
  <1>2. doing \in [Conns -> HandlerType(made, starts)]
    BY DEF Inv, DoingTyped
  <1>3. doing' \in [Conns -> HandlerType(made, starts)]
    BY <1>1, <1>2
  <1>4. NoNewCancel
    BY <1>2 DEF NoNewCancel, Free
  <1> QED
    BY <1>3, <1>4 DEF DoingTyped, DoingKept

LEMMA OrphanedKeeps ==
  ASSUME NEW D \in [Conns -> HandlerType(made, starts)], NEW s \in Sessions,
         UNCHANGED <<made, starts>>, doing' = Orphaned(D, s),
         \A c \in Conns : D[c].op = "cancel" => D[c] = doing[c]
  PROVE  DoingKept
  <1>1. ASSUME NEW c \in Conns
        PROVE  Orphaned(D, s)[c] \in HandlerType(made, starts)
    <2>1. D[c] \in HandlerType(made, starts)
      OBVIOUS
    <2>2. CASE D[c].op \in {"open", "prompt"} /\ D[c].s = s
      <3>1. D[c] \in [op : {"open", "prompt"}, s : Sessions, at : {"start", "load"},
                      process : 0..starts, gone : BOOLEAN]
        BY <2>1, <2>2 DEF HandlerType, Free
      <3>2. [D[c] EXCEPT !.gone = TRUE]
              \in [op : {"open", "prompt"}, s : Sessions, at : {"start", "load"},
                   process : 0..starts, gone : BOOLEAN]
        BY <3>1
      <3> QED
        BY <2>2, <3>2 DEF HandlerType, Orphaned
    <2>3. CASE ~(D[c].op \in {"open", "prompt"} /\ D[c].s = s)
      BY <2>1, <2>3 DEF Orphaned
    <2> QED
      BY <2>2, <2>3
  <1>2. ASSUME NEW c \in Conns, doing'[c].op = "cancel"
        PROVE  doing'[c] = D[c]
    <2>1. D[c] \in HandlerType(made, starts)
      OBVIOUS
    <2>2. CASE D[c].op \in {"open", "prompt"} /\ D[c].s = s
      <3>1. D[c] \in [op : {"open", "prompt"}, s : Sessions, at : {"start", "load"},
                      process : 0..starts, gone : BOOLEAN]
        BY <2>1, <2>2 DEF HandlerType, Free
      <3>2. Orphaned(D, s)[c].op = D[c].op
        BY <2>2, <3>1 DEF Orphaned
      <3> QED
        BY <1>2, <2>2, <3>2
    <2>3. CASE ~(D[c].op \in {"open", "prompt"} /\ D[c].s = s)
      BY <2>3 DEF Orphaned
    <2> QED
      BY <2>2, <2>3
  <1>3. NoNewCancel
    BY <1>2 DEF NoNewCancel
  <1> QED
    BY <1>1, <1>3 DEF DoingTyped, DoingKept, Orphaned

LEMMA InvOf ==
  ASSUME ProcessTyped', SessionTyped', DoingKept, TurnsKept
  PROVE  StepKept
  BY DEF Inv, StepKept, DoingKept, TurnsKept

LEMMA Suspended ==
  ASSUME Inv, NEW c \in Conns
  PROVE  /\ Starting(c) \/ Loading(c) =>
              /\ doing[c] \in [op : {"open", "prompt"}, s : Sessions, at : {"start", "load"},
                               process : 0..starts, gone : BOOLEAN]
              /\ doing[c].s \in Sessions /\ doing[c].gone \in BOOLEAN
              /\ doing[c].op \in {"open", "prompt"}
         /\ Free \in HandlerType(made, starts)
  <1>1. doing[c] \in HandlerType(made, starts)
    BY DEF Inv, DoingTyped
  <1> QED
    BY <1>1 DEF HandlerType, Free, Starting, Loading

LEMMA SameTypes ==
  ASSUME Inv
  PROVE  /\ UNCHANGED process => ProcessTyped'
         /\ UNCHANGED <<session, object>> => SessionTyped'
         /\ UNCHANGED <<doing, made, starts>> => DoingKept
  BY DEF Inv, ProcessTyped, SessionTyped, DoingTyped, DoingKept, NoNewCancel, process, session

(***************************************************************************)
(* The steps of a spawn                                                    *)
(***************************************************************************)
LEMMA LoadInv ==
  ASSUME Inv, NEW c \in Conns, NEW op \in {"open", "prompt"}, NEW s \in Sessions,
         NEW gone \in BOOLEAN, Load(c, op, s, gone), UNCHANGED <<proc, starts, object>>
  PROVE  ProcessTyped' /\ TurnsKept /\ DoingKept
  <1>1. ProcessTyped' /\ TurnsKept /\ made' = made + 1
    BY LoadKeeps
  <1> DEFINE h == [op |-> op, s |-> s, at |-> "load", process |-> starts, gone |-> gone]
  <1>2. doing' = [doing EXCEPT ![c] = h]
    BY DEF Load
  <1>3. h \in HandlerType(made', starts') /\ h.op # "cancel"
    BY Facts DEF HandlerType
  <1> HIDE DEF h
  <1>4. made <= made' /\ starts <= starts'
    BY <1>1, Facts
  <1> QED
    BY <1>1, <1>2, <1>3, <1>4, HandlerKeeps

LEMMA SpawnInv ==
  ASSUME Inv, NEW c \in Conns, NEW op \in {"open", "prompt"}, NEW s \in Sessions,
         Spawn(c, op, s), UNCHANGED <<proc, starts, object>>
  PROVE  ProcessTyped' /\ TurnsKept /\ DoingKept
  <1>1. CASE Load(c, op, s, FALSE)
    BY <1>1, LoadInv
  <1>2. CASE /\ doing' = [doing EXCEPT ![c] =
                    [op |-> op, s |-> s, at |-> "start", process |-> 0, gone |-> FALSE]]
             /\ UNCHANGED <<known, made, turns>>
    <2> DEFINE h == [op |-> op, s |-> s, at |-> "start", process |-> 0, gone |-> FALSE]
    <2>1. h \in HandlerType(made', starts') /\ h.op # "cancel"
      BY <1>2, Facts DEF HandlerType
    <2> HIDE DEF h
    <2>2. UNCHANGED process /\ made <= made' /\ starts <= starts'
      BY <1>2, Facts DEF process
    <2>3. ProcessTyped' /\ TurnsKept
      BY <1>2, <2>2, SameTypes, SameKeeps
    <2> QED
      BY <1>2, <2>1, <2>2, <2>3, HandlerKeeps DEF h
  <1> QED
    BY <1>1, <1>2 DEF Spawn

LEMMA StartProcessInv ==
  ASSUME Inv, NEW c \in Conns, StartProcess(c)
  PROVE  StepKept
  <1> USE Facts
  <1>1. /\ starts < MaxStarts /\ made < MaxLoads
        /\ proc' = "up" /\ starts' = starts + 1 /\ made' = made + 1
        /\ known' = [s \in Sessions |-> IF s = doing[c].s THEN made + 1 ELSE 0]
        /\ doing' = [doing EXCEPT ![c] = [doing[c] EXCEPT !.at = "load", !.process = starts + 1]]
        /\ object' = object /\ session' = session /\ proc # "up"
        /\ turns' = [t \in DOMAIN turns |->
                       IF turns[t].phase = "created" THEN Missed(turns[t]) ELSE turns[t]]
    BY DEF StartProcess
  <1>2. starts' \in 0..MaxStarts /\ made' \in 0..MaxLoads
    BY <1>1, BoundsAssumption
  <1>3. known' \in [Sessions -> 0..made']
    BY <1>1
  <1>4. ProcessTyped'
    BY <1>1, <1>2, <1>3 DEF ProcessTyped, Inv
  <1>5. SessionTyped'
    BY <1>1, SameTypes
  <1>6. doing[c] \in [op : {"open", "prompt"}, s : Sessions, at : {"start", "load"},
                     process : 0..starts, gone : BOOLEAN]
    BY Suspended DEF StartProcess
  <1>7. /\ [doing[c] EXCEPT !.at = "load", !.process = starts + 1] \in HandlerType(made', starts')
        /\ [doing[c] EXCEPT !.at = "load", !.process = starts + 1].op # "cancel"
    <2>1. starts' = starts + 1 /\ starts + 1 \in 0..starts'
      BY <1>1
    <2>2. [doing[c] EXCEPT !.at = "load", !.process = starts + 1]
            \in [op : {"open", "prompt"}, s : Sessions, at : {"start", "load"},
                 process : 0..starts', gone : BOOLEAN]
      BY <1>6, <2>1
    <2> QED
      BY <1>6, <2>2 DEF HandlerType
  <1>8. made <= made' /\ starts <= starts'
    BY <1>1
  <1>9. DoingKept
    BY <1>1, <1>4, <1>7, <1>8, HandlerKeeps
  <1>10. \A t \in DOMAIN turns : MayStray(t, turns'[t]) /\ StaysLost(t) /\ KeepsBacked(t)
    <2> SUFFICES ASSUME NEW t \in DOMAIN turns
                 PROVE  MayStray(t, turns'[t]) /\ StaysLost(t) /\ KeepsBacked(t)
      OBVIOUS
    <2>1. turns[t].process \in 0..starts
      BY DEF TurnType
    <2>2. CASE turns[t].phase = "created"
      <3>1. turns'[t] = Missed(turns[t])
        BY <1>1, <2>2
      <3>2. Goes(turns[t], turns'[t]) /\ ~Live(t)'
        BY <1>1, <2>2, <3>1, MissedGoes DEF HeldBy, Live
      <3> QED
        BY <3>2, GoesMayStray DEF KeepsBacked, StaysLost
    <2>3. CASE turns[t].phase # "created"
      <3>1. turns'[t] = turns[t]
        BY <1>1, <2>3
      <3>2. turns'[t].process # starts'
        BY <1>1, <2>1, <3>1
      <3> QED
        BY <3>1, <3>2, Stays, GoesMayStray DEF KeepsBacked, StaysLost, LostTurn
    <2> QED
      BY <2>2, <2>3
  <1>11. turns' \in [DOMAIN turns -> TurnType(made, starts)]
    BY <1>1, <1>10 DEF MayStray, Moves
  <1>12. KnownOrNew
    BY <1>1 DEF KnownOrNew
  <1>13. TurnsKept
    BY <1>4, <1>8, <1>10, <1>11, <1>12, GoKeeps
  <1> QED
    BY <1>4, <1>5, <1>9, <1>13, InvOf

LEMMA StartedInv ==
  ASSUME Inv, NEW c \in Conns, Started(c)
  PROVE  StepKept
  <1>1. Load(c, doing[c].op, doing[c].s, doing[c].gone)
        /\ UNCHANGED <<proc, starts, object, session>> /\ Starting(c)
    BY DEF Started
  <1>2. ProcessTyped' /\ TurnsKept /\ DoingKept
    BY <1>1, Suspended, LoadInv
  <1>3. SessionTyped'
    BY <1>1, SameTypes
  <1> QED
    BY <1>2, <1>3, InvOf

LEMMA LoadedInv ==
  ASSUME Inv, NEW c \in Conns, Loaded(c)
  PROVE  StepKept
  <1> DEFINE s == doing[c].s
  <1>1. Loading(c) /\ UNCHANGED process /\ UNCHANGED <<table, finishing, softKill>>
        /\ doing' = [doing EXCEPT ![c] = Free]
        /\ handle' = [handle EXCEPT ![s] = IF doing[c].gone THEN @ ELSE object]
        /\ proc = "up"
    BY DEF Loaded, Lost
  <1>2. UNCHANGED <<proc, starts, object, made, known>>
    BY <1>1 DEF process
  <1>3. s \in Sessions /\ doing[c].gone \in BOOLEAN /\ Free \in HandlerType(made, starts)
    BY <1>1, Suspended
  <1> HIDE DEF s
  <1>4. ProcessTyped'
    BY <1>1, SameTypes
  <1>5. DoingKept
    BY <1>1, <1>2, FreedKeeps
  <1>6. handle' \in [Sessions -> 0..object']
    BY <1>1, <1>2, <1>3, Facts DEF Inv, SessionTyped
  <1>7. CASE /\ owned' = [owned EXCEPT ![c] = @ \cup {s}]
             /\ owner' = [owner EXCEPT ![s] = IF doing[c].gone THEN @ ELSE c]
             /\ parked' = (IF doing[c].gone THEN parked ELSE parked \ {s})
             /\ UNCHANGED turns
    <2>1. TurnsKept
      BY <1>1, <1>7, SameKeeps
    <2>2. SessionTyped'
      BY <1>1, <1>3, <1>6, <1>7 DEF SessionTyped, Inv
    <2> QED
      BY <1>4, <1>5, <2>1, <2>2, InvOf
  <1>8. CASE Submit(s, doing[c].gone) /\ UNCHANGED <<owned, owner, parked>>
    <2>1. TurnsKept
      BY <1>1, <1>3, <1>8, SubmitKeeps
    <2>2. SessionTyped'
      BY <1>1, <1>6, <1>8 DEF SessionTyped, Inv
    <2> QED
      BY <1>4, <1>5, <2>1, <2>2, InvOf
  <1> QED
    BY <1>7, <1>8 DEF Loaded, s

LEMMA SpawnFailsInv ==
  ASSUME Inv, NEW c \in Conns, SpawnFails(c)
  PROVE  StepKept
  <1> USE Facts
  <1> DEFINE s == doing[c].s
             K == IF Starting(c) THEN [r \in Sessions |-> 0] ELSE [known EXCEPT ![s] = 0]
             T == IF Starting(c) THEN turns ELSE Stranded(s)
             D == [doing EXCEPT ![c] = Free]
  <1>1. (Starting(c) /\ proc # "up") \/ Loading(c)
    BY DEF SpawnFails
  <1>2. UNCHANGED <<proc, starts, object, made, owned>>
    BY DEF SpawnFails
  <1>3. s \in Sessions /\ Free \in HandlerType(made, starts)
    BY <1>1, Suspended
  <1>4. Undone(s, K, T)
    BY <1>1 DEF Undone, Starting, Loading
  <1>5. /\ D \in [Conns -> HandlerType(made, starts)]
        /\ \A d \in Conns : D[d].op = "cancel" => D[d] = doing[d]
    BY <1>3 DEF Inv, DoingTyped, Free
  <1>6. \/ Remove(s, K, T) /\ doing' = Orphaned(D, s)
        \/ /\ known' = K /\ turns' = T /\ doing' = D
           /\ UNCHANGED <<table, handle, owner, parked, finishing, softKill>>
    BY DEF SpawnFails
  <1> HIDE DEF s, K, T, D
  <1>7. CASE Remove(s, K, T) /\ doing' = Orphaned(D, s)
    <2>1. ProcessTyped' /\ TurnsKept
      BY <1>2, <1>3, <1>4, <1>7, RemoveKeeps
    <2>2. SessionTyped'
      BY <1>2, <1>3, <1>7, RemoveTypes DEF SessionTyped, Inv
    <2>3. DoingKept
      BY <1>2, <1>3, <1>5, <1>7, OrphanedKeeps
    <2> QED
      BY <2>1, <2>2, <2>3, InvOf
  <1>8. CASE /\ known' = K /\ turns' = T /\ doing' = D
             /\ UNCHANGED <<table, handle, owner, parked, finishing, softKill>>
    <2>1. /\ known' \in [Sessions -> 0..made]
          /\ \A r \in Sessions : known'[r] = known[r] \/ known'[r] = 0
          /\ turns' \in [DOMAIN turns -> TurnType(made, starts)]
          /\ \A t \in DOMAIN turns :
               /\ Goes(turns[t], turns'[t])
               /\ \/ turns'[t].stranded
                  \/ known'[turns[t].session] = known[turns[t].session]
                  \/ ~Live(t) \/ LostTurn(t)
      BY <1>3, <1>4, <1>8, UndoneGoes
    <2>2. ProcessTyped'
      BY <1>2, <2>1 DEF ProcessTyped, Inv
    <2>3. \A t \in DOMAIN turns : KeepsBacked(t)
      BY <1>2, <2>1 DEF KeepsBacked, Goes, Moves, Live, LostTurn
    <2>4. TurnsKept
      BY <1>2, <2>1, <2>2, <2>3, DropKeeps
    <2>5. SessionTyped'
      BY <1>2, <1>8, SameTypes DEF session
    <2>6. DoingKept
      BY <1>2, <1>5, <1>8 DEF DoingTyped, DoingKept, NoNewCancel
    <2> QED
      BY <2>2, <2>4, <2>5, <2>6, InvOf
  <1> QED
    BY <1>6, <1>7, <1>8

LEMMA SpawnBreaksInv ==
  ASSUME Inv, NEW c \in Conns, SpawnBreaks(c)
  PROVE  StepKept
  <1>1. doing' = [doing EXCEPT ![c] = Free] /\ UNCHANGED <<process, turns, session>>
    BY DEF SpawnBreaks
  <1>2. UNCHANGED <<made, starts, object>>
    BY <1>1 DEF process
  <1>3. ProcessTyped' /\ SessionTyped' /\ TurnsKept
    BY <1>1, <1>2, SameTypes, SameKeeps
  <1>4. DoingKept
    BY <1>1, <1>2, FreedKeeps
  <1> QED
    BY <1>3, <1>4, InvOf

(***************************************************************************)
(* Opening, attaching and prompting                                        *)
(***************************************************************************)
LEMMA TakesTypes ==
  ASSUME Inv, NEW c \in Conns, NEW s \in Sessions
  PROVE  /\ TakenFrom(s, c) \in [Conns -> SUBSET Sessions]
         /\ TakeOver(c, s) =>
              /\ owner' \in [Sessions -> Conns \cup {NoConn}]
              /\ parked' \subseteq Sessions
              /\ owned' \in [Conns -> SUBSET Sessions]
  <1>1. TakenFrom(s, c) \in [Conns -> SUBSET Sessions]
    BY DEF TakenFrom, Inv, SessionTyped
  <1> QED
    BY <1>1 DEF TakeOver, Inv, SessionTyped

LEMMA OpenInv ==
  ASSUME Inv, NEW c \in Conns, NEW s \in Sessions, Open(c, s)
  PROVE  StepKept
  <1>1. table' = table \cup {s} /\ UNCHANGED <<proc, starts, object, handle, finishing, softKill>>
    BY DEF Open
  <1>2. CASE TakeOver(c, s) /\ UNCHANGED <<known, made, turns, doing>>
    <2>1. SessionTyped'
      BY <1>1, <1>2, TakesTypes DEF SessionTyped, Inv
    <2>2. ProcessTyped' /\ TurnsKept /\ DoingKept
      BY <1>1, <1>2, SameTypes, SameKeeps DEF process
    <2> QED
      BY <2>1, <2>2, InvOf
  <1>3. CASE Spawn(c, "open", s) /\ owned' = TakenFrom(s, c) /\ UNCHANGED <<owner, parked>>
    <2>1. SessionTyped'
      BY <1>1, <1>3, TakesTypes DEF SessionTyped, Inv
    <2>2. ProcessTyped' /\ TurnsKept /\ DoingKept
      BY <1>1, <1>3, SpawnInv
    <2> QED
      BY <2>1, <2>2, InvOf
  <1> QED
    BY <1>2, <1>3 DEF Open

LEMMA AttachInv ==
  ASSUME Inv, NEW c \in Conns, NEW s \in Sessions, Attach(c, s)
  PROVE  StepKept
  <1>1. TakeOver(c, s) /\ UNCHANGED <<process, turns, table, handle, finishing, softKill, doing>>
    BY DEF Attach
  <1>2. SessionTyped'
    BY <1>1, TakesTypes DEF SessionTyped, Inv, process
  <1>3. ProcessTyped' /\ TurnsKept /\ DoingKept
    BY <1>1, SameTypes, SameKeeps DEF process
  <1> QED
    BY <1>2, <1>3, InvOf

LEMMA PromptInv ==
  ASSUME Inv, NEW c \in Conns, NEW s \in Sessions, Prompt(c, s)
  PROVE  StepKept
  <1>1. UNCHANGED <<proc, starts, object, session>>
    BY DEF Prompt
  <1>2. SessionTyped'
    BY <1>1, SameTypes
  <1>3. CASE Spawn(c, "prompt", s)
    BY <1>1, <1>2, <1>3, SpawnInv, InvOf
  <1>4. CASE Running(s) /\ Submit(s, FALSE) /\ UNCHANGED <<known, made, doing>>
    <2>1. ProcessTyped' /\ TurnsKept /\ DoingKept
      BY <1>1, <1>4, SameTypes, SubmitKeeps DEF process, Running
    <2> QED
      BY <1>2, <2>1, InvOf
  <1> QED
    BY <1>3, <1>4 DEF Prompt

(***************************************************************************)
(* The steps of a turn                                                     *)
(***************************************************************************)
LEMMA EndedGoes ==
  ASSUME Inv, NEW t \in DOMAIN turns, Live(t), NEW n, Goes(turns[t], Over(turns[t], n))
  PROVE  /\ DOMAIN Ended(t, n) = DOMAIN turns
         /\ Ended(t, n) = [u \in DOMAIN Ended(t, n) |-> Ended(t, n)[u]]
         /\ \A u \in DOMAIN turns : MayStray(u, Ended(t, n)[u])
  <1>1. ASSUME NEW u \in DOMAIN turns
        PROVE  Goes(turns[u], Ended(t, n)[u])
    <2>1. turns[u] \in TurnType(made, starts) /\ Sound(turns[u])
      BY Facts
    <2>2. CASE u = t
      BY <2>2 DEF Ended
    <2>3. CASE u # t /\ On(u, turns[t].reads)
      <3>1. Goes(turns[u], [turns[u] EXCEPT !.stranded = TRUE])
        BY <2>1, <2>3, LetGoGoes DEF On, Live
      <3> QED
        BY <2>3, <3>1 DEF Ended
    <2>4. CASE u # t /\ ~On(u, turns[t].reads)
      BY <2>1, <2>4, Stays DEF Ended
    <2> QED
      BY <2>2, <2>3, <2>4
  <1> QED
    BY <1>1, GoesMayStray DEF Ended

(* Of a step that ends a turn, with its result, and nothing of the process. *)
LEMMA EndingInv ==
  ASSUME Inv, UNCHANGED <<process, table, handle, owner, parked, owned, doing>>,
         NEW t \in DOMAIN turns, Live(t), NEW n, Goes(turns[t], Over(turns[t], n)),
         turns' = Ended(t, n),
         (\E S \in SUBSET Sessions : AfterResult(S, softKill)) \/ UNCHANGED <<finishing, softKill>>
  PROVE  StepKept
  <1>1. softKill' \subseteq Sessions /\ finishing' \in [Sessions -> BOOLEAN]
    BY DEF AfterResult, Inv, SessionTyped
  <1>2. SessionTyped'
    BY <1>1 DEF SessionTyped, Inv, process
  <1>3. ProcessTyped' /\ DoingKept
    BY SameTypes DEF process
  <1>4. TurnsKept
    BY EndedGoes, ChangeKeeps
  <1> QED
    BY <1>2, <1>3, <1>4, InvOf

LEMMA ReachedTypes ==
  ASSUME Inv, NEW t \in DOMAIN turns
  PROVE  Reached(t) \in SUBSET Sessions
  <1>1. turns[t].session \in Sessions
    BY Facts DEF TurnType
  <1> QED
    BY <1>1 DEF Reached

(* Of a step that changes one turn and nothing else but a handler.         *)
LEMMA QuietStepInv ==
  ASSUME Inv, UNCHANGED <<process, session>>, DoingKept,
         NEW t \in DOMAIN turns, NEW q, MayStray(t, q), turns' = [turns EXCEPT ![t] = q]
  PROVE  StepKept
  <1>1. ProcessTyped' /\ SessionTyped'
    BY SameTypes DEF process
  <1>2. TurnsKept
    BY OneChangeKeeps
  <1> QED
    BY <1>1, <1>2, InvOf

LEMMA TurnRunsInv ==
  ASSUME Inv, NEW t \in DOMAIN turns, TurnRuns(t)
  PROVE  StepKept
  <1> DEFINE r == turns[t]
             g == known[r.session]
  <1>1. r \in TurnType(made, starts) /\ Sound(r) /\ r.phase = "created" /\ Live(t)
        /\ made \in Nat /\ starts \in Nat
    BY Facts DEF TurnRuns, Live
  <1>2. UNCHANGED <<process, session, doing>>
    BY DEF TurnRuns
  <1>3. DoingKept
    BY <1>2, SameTypes DEF process
  <1>4. g \in 0..made
    BY <1>1, Facts DEF TurnType
  <1>5. ~r.notified
    BY <1>1 DEF Sound
  <1>6. HeldBy(r) => g = r.state /\ r.state # 0
    BY <1>1 DEF HeldBy, LostTurn, Inv, TurnInv, Backed, Sound
  <1>7. g # r.state => Elsewhere(r)
    BY <1>1 DEF Elsewhere, Inv, TurnInv, ItsSession
  <1>8. CASE g = 0 /\ turns' = [turns EXCEPT ![t] = Missed(r)]
    BY <1>1, <1>2, <1>3, <1>6, <1>8, MissedGoes, GoesMayStray, QuietStepInv
  <1>9. CASE g = r.state /\ turns' = [turns EXCEPT ![t].phase = "prompting"]
    <2> DEFINE q == [r EXCEPT !.phase = "prompting"]
    <2>1. /\ q \in TurnType(made, starts) /\ q.phase = "prompting" /\ q.session = r.session
          /\ q.state = r.state /\ q.process = r.process
          /\ q.cancelled = r.cancelled /\ q.notified = r.notified
          /\ q.stray = r.stray /\ q.stranded = r.stranded
          /\ q.frames = r.frames /\ q.missed = r.missed /\ q.reads = r.reads
      BY <1>1 DEF TurnType
    <2>2. turns' = [turns EXCEPT ![t] = q]
      BY <1>9
    <2> HIDE DEF q
    <2>3. MayStray(t, q)
      BY <1>1, <1>5, <2>1 DEF MayStray, Moves, Sound
    <2> QED
      BY <1>2, <1>3, <2>2, <2>3, QuietStepInv
  <1>10. CASE /\ g \notin {0, r.state}
              /\ \E gone \in BOOLEAN : turns' = [turns EXCEPT ![t] = Astray(r, g, gone)]
    <2>1. PICK gone \in BOOLEAN : turns' = [turns EXCEPT ![t] = Astray(r, g, gone)]
      BY <1>10
    <2>g. PICK k : k = g
      OBVIOUS
    <2> DEFINE q == [r EXCEPT !.phase = "prompting", !.missed = TRUE, !.reads = k,
                              !.gone = gone]
    <2>2. k \in 0..made
      BY <1>4, <2>g
    <2>3. turns' = [turns EXCEPT ![t] = q]
      BY <2>1, <2>g DEF Astray
    <2> HIDE DEF g
    <2>4. /\ q \in TurnType(made, starts) /\ q.phase = "prompting" /\ q.session = r.session
          /\ q.state = r.state /\ q.process = r.process
          /\ q.cancelled = r.cancelled /\ q.notified = r.notified
          /\ q.stray = r.stray /\ q.stranded = r.stranded
          /\ q.frames = r.frames /\ q.missed = TRUE /\ q.reads = k
      BY <1>1, <2>2 DEF TurnType
    <2>5. Elsewhere(r) /\ ~HeldBy(r)
      BY <1>6, <1>7, <1>10
    <2> HIDE DEF q
    <2>6. MayStray(t, q)
      BY <1>1, <1>5, <2>4, <2>5 DEF MayStray, Moves, Sound
    <2> QED
      BY <1>2, <1>3, <2>3, <2>6, QuietStepInv
  <1> QED
    BY <1>8, <1>9, <1>10 DEF TurnRuns

LEMMA AgentAnswersInv ==
  ASSUME Inv, NEW t \in DOMAIN turns, AgentAnswers(t)
  PROVE  StepKept
  <1> DEFINE q == [turns[t] EXCEPT !.phase = "draining"]
  <1>1. turns[t] \in TurnType(made, starts) /\ Sound(turns[t]) /\ turns[t].phase = "prompting"
    BY Facts DEF AgentAnswers
  <1>2. turns' = [turns EXCEPT ![t] = q] /\ UNCHANGED <<process, session, doing>>
    BY DEF AgentAnswers
  <1>3. /\ q \in TurnType(made, starts) /\ q.phase = "draining" /\ q.session = turns[t].session
        /\ q.state = turns[t].state /\ q.process = turns[t].process
        /\ q.cancelled = turns[t].cancelled /\ q.notified = turns[t].notified
        /\ q.stray = turns[t].stray /\ q.stranded = turns[t].stranded
        /\ q.frames = turns[t].frames /\ q.missed = turns[t].missed
        /\ q.reads = turns[t].reads
    BY <1>1 DEF TurnType
  <1> HIDE DEF q
  <1>4. MayStray(t, q)
    BY <1>1, <1>3 DEF MayStray, Moves, Sound
  <1>5. DoingKept
    BY <1>2, SameTypes DEF process
  <1> QED
    BY <1>2, <1>4, <1>5, QuietStepInv

LEMMA DrainedInv ==
  ASSUME Inv, NEW t \in DOMAIN turns, Drained(t)
  PROVE  StepKept
  <1>1. turns[t] \in TurnType(made, starts) /\ Sound(turns[t]) /\ turns[t].phase = "draining"
        /\ made \in Nat /\ starts \in Nat
    BY Facts DEF Drained
  <1>2. turns' = Ended(t, 1) /\ AfterResult(Reached(t), softKill)
        /\ UNCHANGED <<process, table, handle, owner, parked, owned, doing>>
    BY DEF Drained
  <1>3. ~turns[t].notified
    BY <1>1 DEF Sound
  <1>4. Goes(turns[t], Over(turns[t], 1))
    BY <1>1, <1>3, OverGoes
  <1> QED
    BY <1>1, <1>2, <1>4, ReachedTypes, EndingInv DEF Live

LEMMA PromptRaisesInv ==
  ASSUME Inv, NEW t \in DOMAIN turns, PromptRaises(t)
  PROVE  StepKept
  <1>1. turns[t] \in TurnType(made, starts) /\ Sound(turns[t]) /\ turns[t].phase = "prompting"
        /\ made \in Nat /\ starts \in Nat
    BY Facts DEF PromptRaises
  <1>2. ~turns[t].notified /\ (turns[t].reads # 0 => turns[t].missed)
    BY <1>1 DEF Sound
  <1>3. PICK n \in {0, 1} : turns' = Ended(t, n) /\ (n = 0 => turns[t].reads # 0)
    BY <1>2 DEF PromptRaises
  <1>4. Goes(turns[t], Over(turns[t], n))
    BY <1>1, <1>2, <1>3, OverGoes
  <1>5. UNCHANGED <<process, session, doing>>
    BY DEF PromptRaises
  <1> QED
    BY <1>1, <1>3, <1>4, <1>5, EndingInv DEF Live, session

LEMMA CancelledErrorRaisedInv ==
  ASSUME Inv, NEW t \in DOMAIN turns, CancelledErrorRaised(t)
  PROVE  StepKept
  <1>1. turns[t] \in TurnType(made, starts) /\ Sound(turns[t]) /\ turns[t].phase = "thrown"
        /\ made \in Nat /\ starts \in Nat
    BY Facts DEF CancelledErrorRaised
  <1>2. PICK asked \in (IF turns[t].reads = 0 THEN {turns[t].cancelled} ELSE BOOLEAN) :
          /\ turns' = Ended(t, IF asked THEN 1 ELSE 0)
          /\ AfterResult(IF asked THEN Reached(t) ELSE {}, softKill)
    BY DEF CancelledErrorRaised
  <1>3. UNCHANGED <<process, table, handle, owner, parked, owned, doing>>
    BY DEF CancelledErrorRaised
  <1> DEFINE n == IF asked THEN 1 ELSE 0
             S == IF asked THEN Reached(t) ELSE {}
  <1>4. S \in SUBSET Sessions
    BY ReachedTypes
  <1>5. n \in {0, 1} /\ (n = 1 => turns[t].cancelled \/ ~turns[t].notified)
        /\ (n = 0 => turns[t].notified \/ turns[t].missed
                     \/ (turns[t].stray /\ ~turns[t].cancelled))
    BY <1>1, <1>2 DEF Sound, TurnType
  <1>6. turns' = Ended(t, n) /\ AfterResult(S, softKill)
    BY <1>2
  <1> HIDE DEF n, S
  <1>7. Goes(turns[t], Over(turns[t], n))
    BY <1>1, <1>5, OverGoes
  <1> QED
    BY <1>1, <1>3, <1>4, <1>6, <1>7, EndingInv DEF Live

(* The turn that is found on a state.                                      *)
LEMMA TurnFound ==
  ASSUME NEW g, ActiveOn(g)
  PROVE  TurnOn(g) \in DOMAIN turns /\ On(TurnOn(g), g)
  BY DEF ActiveOn, TurnOn

(* The handler of the cancel of turn t, on whose state it is.              *)
LEMMA CancelsOwn ==
  ASSUME Inv, UNCHANGED process, NEW c \in Conns, NEW t \in DOMAIN turns, Live(t), NEW q,
         turns' = [turns EXCEPT ![t] = q],
         q.session = turns[t].session, q.state = turns[t].state, q.phase = turns[t].phase,
         q.cancelled, NEW h, h.state = turns[t].state, h.turn = t,
         turns[t].state # 0, doing' = [doing EXCEPT ![c] = h]
  PROVE  CancelFollows'
  <1>1. UNCHANGED known
    BY DEF process
  <1>2. /\ DOMAIN turns' = DOMAIN turns
        /\ \A u \in DOMAIN turns :
             /\ turns'[u].session = turns[u].session /\ turns'[u].state = turns[u].state
             /\ turns'[u].phase = turns[u].phase
             /\ turns[u].cancelled => turns'[u].cancelled
        /\ turns'[t].cancelled
    OBVIOUS
  <1>3. DOMAIN turns \subseteq Nat
    BY Facts
  <1> SUFFICES ASSUME NEW d \in Conns, doing'[d].op = "cancel"
               PROVE  doing'[d].turn \in DOMAIN turns'
                      /\ CancelsOn(doing[d].state, doing[d].turn)'
    BY <1>2 DEF CancelFollows
  <1>4. CASE d = c
    <2>1. doing'[d].state = turns[t].state /\ doing'[d].turn = t
      BY <1>4 DEF Inv, DoingTyped
    <2>2. \A s \in Sessions : known'[s] = turns[t].state => s = turns'[t].session
      BY <1>1, <1>2 DEF Inv, TurnInv, ItsSession
    <2>3. \A u \in DOMAIN turns : Live(u)' /\ turns'[u].state = turns[t].state => u = t
      BY <1>2 DEF Inv, TurnInv, OwnState, Live
    <2>4. CancelsOn(doing[d].state, doing[d].turn)'
      BY <1>2, <1>3, <2>1, <2>2, <2>3 DEF CancelsOn
    <2> QED
      BY <1>2, <2>1, <2>4
  <1>5. CASE d # c
    <2>1. doing'[d] = doing[d]
      BY <1>5 DEF Inv, DoingTyped
    <2>2. doing[d].turn \in DOMAIN turns /\ CancelsOn(doing[d].state, doing[d].turn)
      BY <2>1 DEF Inv, CancelFollows
    <2>3. CancelsOn(doing[d].state, doing[d].turn)'
      BY <1>1, <1>2, <2>1, <2>2 DEF CancelsOn, Live
    <2> QED
      BY <1>2, <2>1, <2>2, <2>3
  <1> QED
    BY <1>4, <1>5

LEMMA CancelInv ==
  ASSUME Inv, NEW c \in Conns, NEW s \in Sessions, Cancel(c, s)
  PROVE  StepKept
  <1> DEFINE t == TurnOn(known[s])
             q == [turns[t] EXCEPT !.cancelled = TRUE]
             h == [op |-> "cancel", state |-> known[s], turn |-> t]
  <1>1. Active(s) /\ turns' = [turns EXCEPT ![t].cancelled = TRUE]
        /\ doing' = [doing EXCEPT ![c] = h] /\ UNCHANGED <<process, session>>
    BY DEF Cancel
  <1>2. ActiveOn(known[s])
    BY <1>1 DEF Active, ActiveOn, On, StateOf
  <1>3. t \in DOMAIN turns /\ Live(t) /\ turns[t].state = known[s] /\ known[s] # 0
    BY <1>2, TurnFound DEF On
  <1> HIDE DEF t
  <1>4. turns[t] \in TurnType(made, starts) /\ Sound(turns[t])
    BY <1>3, Facts
  <1>5. turns' = [turns EXCEPT ![t] = q]
    BY <1>1, <1>3
  <1>6. /\ q \in TurnType(made, starts) /\ q.phase = turns[t].phase
        /\ q.session = turns[t].session /\ q.state = turns[t].state
        /\ q.process = turns[t].process /\ q.cancelled = TRUE
        /\ q.notified = turns[t].notified /\ q.torn = turns[t].torn
        /\ q.stray = turns[t].stray /\ q.stranded = turns[t].stranded
        /\ q.frames = turns[t].frames /\ q.missed = turns[t].missed
        /\ q.reads = turns[t].reads
    BY <1>4 DEF TurnType
  <1> HIDE DEF q
  <1>7. MayStray(t, q)
    BY <1>3, <1>4, <1>6 DEF MayStray, Moves, Sound, Live
  <1>8. known[s] \in 1..made /\ t \in 1..MaxTurns
    BY <1>3, Facts, BoundsAssumption DEF Inv, TurnInv, TurnsTyped
  <1>9. UNCHANGED <<made, starts>>
    BY <1>1 DEF process
  <1>10. h \in HandlerType(made, starts) /\ h.op = "cancel" /\ h.state = known[s] /\ h.turn = t
    BY <1>8 DEF HandlerType
  <1> HIDE DEF h
  <1>11. doing' \in [Conns -> HandlerType(made, starts)]
    BY <1>1, <1>10 DEF Inv, DoingTyped
  <1>12. DoingTyped'
    BY <1>9, <1>11 DEF DoingTyped
  <1>13. ProcessTyped' /\ SessionTyped'
    BY <1>1, SameTypes DEF process
  <1>14. TurnsKept
    BY <1>1, <1>3, <1>5, <1>7, OneChangeKeeps
  <1>15. CancelFollows'
    <2>1. UNCHANGED process /\ doing' = [doing EXCEPT ![c] = h]
      BY <1>1
    <2>2. q.session = turns[t].session /\ q.state = turns[t].state /\ q.phase = turns[t].phase
          /\ q.cancelled
      BY <1>6
    <2>3. h.state = turns[t].state /\ h.turn = t /\ turns[t].state # 0
      BY <1>3, <1>10
    <2> QED
      BY <1>3, <1>5, <2>1, <2>2, <2>3, CancelsOwn
  <1> QED
    BY <1>12, <1>13, <1>14, <1>15 DEF Inv, StepKept, TurnsKept

LEMMA ThrownMoves ==
  ASSUME NEW r \in TurnType(made, starts), Sound(r), r.phase # "done"
  PROVE  /\ Moves(r, Thrown(r))
         /\ Thrown(r).stray => r.stray \/ r.phase = "created" \/ ~r.cancelled
  <1>1. CASE r.phase = "created"
    <2> DEFINE q == [r EXCEPT !.phase = "unbegun", !.stray = TRUE]
    <2>1. /\ q \in TurnType(made, starts) /\ q.phase = "unbegun" /\ q.stray = TRUE
          /\ q.session = r.session /\ q.cancelled = r.cancelled
          /\ q.state = r.state /\ q.process = r.process
          /\ q.frames = r.frames /\ q.notified = r.notified
          /\ q.stranded = r.stranded /\ q.missed = r.missed /\ q.reads = r.reads
      BY DEF TurnType
    <2>2. Thrown(r) = q
      BY <1>1 DEF Thrown
    <2> HIDE DEF q
    <2> QED
      BY <1>1, <2>1, <2>2 DEF Moves, Sound
  <1>2. CASE r.phase = "unbegun"
    <2>1. Thrown(r) = r
      BY <1>2 DEF Thrown
    <2> QED
      BY <2>1, Stays DEF Goes
  <1>3. CASE r.phase \notin {"created", "unbegun"}
    <2> DEFINE z == ~r.cancelled
    <2>z. z \in BOOLEAN
      OBVIOUS
    <2> HIDE DEF z
    <2> DEFINE q == [r EXCEPT !.phase = "thrown", !.stray = z]
    <2>1. /\ q \in TurnType(made, starts) /\ q.phase = "thrown" /\ q.stray = z
          /\ q.session = r.session /\ q.cancelled = r.cancelled
          /\ q.state = r.state /\ q.process = r.process
          /\ q.frames = r.frames /\ q.notified = r.notified
          /\ q.stranded = r.stranded /\ q.missed = r.missed /\ q.reads = r.reads
      BY <2>z DEF TurnType
    <2>2. Thrown(r) = q
      BY <1>3 DEF Thrown, z
    <2> HIDE DEF q
    <2> QED
      BY <1>3, <2>1, <2>2 DEF Moves, Sound, z
  <1> QED
    BY <1>1, <1>2, <1>3

LEMMA CancelSentInv ==
  ASSUME Inv, NEW c \in Conns, CancelSent(c)
  PROVE  StepKept
  <1> DEFINE g == doing[c].state
             u == doing[c].turn
  <1>1. /\ turns' = [t \in DOMAIN turns |->
                      IF On(t, g) THEN Thrown(turns[t]) ELSE turns[t]]
        /\ doing' = [doing EXCEPT ![c] = Free]
        /\ UNCHANGED <<process, session>>
        /\ turns[u].phase # "created"
    BY DEF CancelSent
  <1>2. DoingKept
    BY <1>1, FreedKeeps DEF process
  <1>3. u \in DOMAIN turns /\ CancelsOn(g, u)
    BY DEF CancelSent, Inv, CancelFollows
  <1> HIDE DEF g, u
  <1>4. ASSUME NEW t \in DOMAIN turns
        PROVE  MayStray(t, turns'[t])
    <2>1. turns[t] \in TurnType(made, starts) /\ Sound(turns[t])
      BY Facts
    <2>2. CASE On(t, g)
      <3>1. turns'[t] = Thrown(turns[t])
        BY <1>1, <2>2
      <3>2. /\ Moves(turns[t], turns'[t])
            /\ turns'[t].stray
                 => turns[t].stray \/ turns[t].phase = "created" \/ ~turns[t].cancelled
        BY <2>1, <2>2, <3>1, ThrownMoves DEF On, Live
      <3>3. turns[u].cancelled /\ turns[t].session = turns[u].session /\ u <= t
        BY <1>3, <2>2 DEF CancelsOn, On
      <3>4. ASSUME turns[t].phase = "created" \/ ~turns[t].cancelled
            PROVE  Follows(t)
        <4>1. u # t /\ u \in Nat /\ t \in Nat /\ 1 <= u
          BY <1>1, <1>3, <3>3, <3>4, Facts
        <4>2. u \in 1..(t - 1)
          BY <3>3, <4>1
        <4> QED
          BY <3>3, <4>2 DEF Follows
      <3> QED
        BY <3>2, <3>4 DEF MayStray
    <2>3. CASE ~On(t, g)
      BY <1>1, <2>1, <2>3, Stays, GoesMayStray
    <2> QED
      BY <2>2, <2>3
  <1>5. DOMAIN turns' = DOMAIN turns /\ turns' = [t \in DOMAIN turns' |-> turns'[t]]
    BY <1>1
  <1>6. ProcessTyped' /\ SessionTyped' /\ TurnsKept
    BY <1>1, <1>4, <1>5, SameTypes, ChangeKeeps DEF process
  <1> QED
    BY <1>2, <1>6, InvOf

(***************************************************************************)
(* The crash                                                               *)
(***************************************************************************)
LEMMA CrashInv ==
  ASSUME Inv, Crash
  PROVE  StepKept
  <1>1. proc = "up" /\ proc' = "exited"
        /\ UNCHANGED <<starts, object, known, made, turns, session, doing>>
    BY DEF Crash
  <1>2. ProcessTyped' /\ SessionTyped' /\ DoingKept
    BY <1>1, SameTypes DEF ProcessTyped, Inv
  <1>3. \A t \in DOMAIN turns : Goes(turns[t], turns'[t]) /\ KeepsBacked(t)
    BY <1>1, Stays, Facts DEF KeepsBacked
  <1>4. turns' \in [DOMAIN turns -> TurnType(made, starts)]
    BY <1>1, Facts
  <1>5. TurnsKept
    BY <1>1, <1>2, <1>3, <1>4, DropKeeps
  <1> QED
    BY <1>2, <1>5, InvOf

LEMMA CrashedGoes ==
  ASSUME NEW r \in TurnType(made, starts), Sound(r), r.phase # "done", r.reads = 0,
         proc # "up", made \in Nat, starts \in Nat
  PROVE  Goes(r, Crashed(r))
  <1>1. CASE r.phase \in {"created", "unbegun"}
    <2>1. ~r.notified
      BY <1>1 DEF Sound
    <2> QED
      BY <1>1, <2>1, OverGoes DEF Crashed
  <1>2. CASE r.phase \notin {"created", "unbegun"}
    <2> DEFINE f == IF r.notified THEN r.frames ELSE r.frames + 1
               q == [r EXCEPT !.phase = "thrown", !.notified = TRUE, !.frames = f]
    <2>1. f = 1 /\ f \in 0..2
      BY DEF Sound, TurnType
    <2>2. Crashed(r) = q
      BY <1>2 DEF Crashed
    <2> HIDE DEF f
    <2>3. /\ q \in TurnType(made, starts) /\ q.phase = "thrown" /\ q.notified
          /\ q.frames = 1 /\ q.session = r.session /\ q.state = r.state
          /\ q.process = r.process /\ q.stranded = r.stranded
          /\ q.cancelled = r.cancelled /\ q.stray = r.stray
          /\ q.missed = r.missed /\ q.reads = r.reads
      BY <2>1 DEF TurnType
    <2> HIDE DEF q
    <2> QED
      BY <1>2, <2>2, <2>3 DEF Goes, Moves, Sound
  <1> QED
    BY <1>1, <1>2

LEMMA WatchExitInv ==
  ASSUME Inv, WatchExit
  PROVE  StepKept
  <1> USE Facts
  <1>0. proc = "exited" /\ proc' = "down" /\ known' = [s \in Sessions |-> 0]
        /\ UNCHANGED <<starts, object, made, session, doing>>
    BY DEF WatchExit
  <1>1. turns' = [t \in DOMAIN turns |->
                   IF t \in CrashedTurns THEN Crashed(turns[t]) ELSE turns[t]]
    BY DEF WatchExit
  <1>2. ProcessTyped' /\ SessionTyped' /\ DoingKept
    <2>1. ProcessTyped'
      BY <1>0 DEF ProcessTyped, Inv
    <2> QED
      BY <1>0, <2>1, SameTypes
  <1>3. ASSUME NEW t \in DOMAIN turns
        PROVE  Goes(turns[t], turns'[t])
    <2>1. turns[t] \in TurnType(made, starts) /\ Sound(turns[t])
      OBVIOUS
    <2>2. CASE t \in CrashedTurns
      <3>1. Live(t) /\ \E s \in Sessions : known[s] = turns[t].state /\ known[s] # 0
        BY <2>2 DEF CrashedTurns, Torn, On
      <3>2. turns[t].reads = 0
        BY <3>1 DEF Inv, TurnInv, ElsewhereIfAstray, Elsewhere
      <3>3. turns'[t] = Crashed(turns[t])
        BY <1>1, <2>2
      <3> QED
        BY <1>0, <2>1, <3>1, <3>2, <3>3, CrashedGoes DEF Live
    <2>3. CASE t \notin CrashedTurns
      BY <1>1, <2>1, <2>3, Stays
    <2> QED
      BY <2>2, <2>3
  <1>4. \A t \in DOMAIN turns : KeepsBacked(t)
    BY <1>0 DEF KeepsBacked, LostTurn
  <1>5. turns' \in [DOMAIN turns -> TurnType(made, starts)]
    BY <1>1, <1>3 DEF Goes, Moves
  <1>6. UNCHANGED <<made, starts>> /\ proc' # "up" /\ \A s \in Sessions : known'[s] = 0
    BY <1>0
  <1>7. TurnsKept
    BY <1>2, <1>3, <1>4, <1>5, <1>6, DropKeeps
  <1> QED
    BY <1>2, <1>7, InvOf

(***************************************************************************)
(* Leaving and closing                                                     *)
(***************************************************************************)
LEMMA DisconnectInv ==
  ASSUME Inv, NEW c \in Conns, Disconnect(c)
  PROVE  StepKept
  <1> USE Facts
  <1>1. /\ owned' = [owned EXCEPT ![c] = {}]
        /\ owner' = [s \in Sessions |-> IF s \in Held(c) THEN NoConn ELSE owner[s]]
        /\ parked' = parked \cup Held(c)
        /\ finishing' = [s \in Sessions |-> finishing[s] \/ s \in Kept(c)]
        /\ handle' = [s \in Sessions |-> IF s \in Let(c) THEN 0 ELSE handle[s]]
        /\ known' = [s \in Sessions |-> IF s \in Let(c) /\ Running(s) THEN 0 ELSE known[s]]
        /\ UNCHANGED <<proc, starts, object, made, turns, table, softKill, doing>>
    BY DEF Disconnect
  <1>2. Held(c) \subseteq Sessions
    BY DEF Held
  <1>3. known' \in [Sessions -> 0..made]
    BY <1>1
  <1>4. ProcessTyped' /\ DoingKept
    BY <1>1, <1>3, SameTypes DEF ProcessTyped, Inv
  <1>5. /\ owned' \in [Conns -> SUBSET Sessions]
        /\ owner' \in [Sessions -> Conns \cup {NoConn}]
        /\ handle' \in [Sessions -> 0..object]
        /\ finishing' \in [Sessions -> BOOLEAN]
    BY <1>1 DEF SessionTyped, Inv
  <1>6. SessionTyped'
    BY <1>1, <1>2, <1>5 DEF SessionTyped, Inv
  <1>7. ASSUME NEW t \in DOMAIN turns
        PROVE  Goes(turns[t], turns'[t]) /\ KeepsBacked(t)
    <2>1. turns[t] \in TurnType(made, starts) /\ turns[t].session \in Sessions
      BY DEF TurnType
    <2>2. Goes(turns[t], turns'[t])
      BY <1>1, <2>1, Stays
    <2>3. ASSUME Live(t)', ~turns'[t].stranded, ~LostTurn(t)',
                 known'[turns[t].session] # known[turns[t].session]
          PROVE  FALSE
      <3> DEFINE s == turns[t].session
      <3>1. s \in Let(c) /\ Running(s)
        BY <1>1, <2>1, <2>3
      <3>2. ~Active(s) /\ StateOf(s) = known[s]
        BY <3>1 DEF Let, Kept, Running, StateOf
      <3>3. Live(t) /\ known[s] = turns[t].state
        BY <1>1, <2>3 DEF Live, LostTurn, Inv, TurnInv, Backed
      <3>4. turns[t].state # 0 /\ ~turns[t].stranded
        BY <1>1, <2>3, <3>3 DEF Sound, Live
      <3> QED
        BY <3>2, <3>3, <3>4 DEF Active, ActiveOn, On
    <2> QED
      BY <2>2, <2>3 DEF KeepsBacked
  <1>8. \A s \in Sessions : known'[s] = known[s] \/ known'[s] = 0
    BY <1>1
  <1>9. turns' \in [DOMAIN turns -> TurnType(made, starts)] /\ UNCHANGED <<made, starts>>
    BY <1>1
  <1>10. TurnsKept
    BY <1>1, <1>4, <1>7, <1>8, <1>9, DropKeeps
  <1> QED
    BY <1>4, <1>6, <1>10, InvOf

LEMMA DetachInv ==
  ASSUME Inv, NEW c \in Conns, NEW s \in Sessions, Detach(c, s)
  PROVE  StepKept
  <1>1. /\ owned' = [owned EXCEPT ![c] = @ \ {s}]
        /\ owner' = [owner EXCEPT ![s] = IF @ = c THEN NoConn ELSE @]
        /\ parked' = IF owner[s] = c THEN parked \cup {s} ELSE parked
        /\ UNCHANGED <<process, turns, table, handle, finishing, softKill, doing>>
    BY DEF Detach
  <1>2. SessionTyped'
    BY <1>1 DEF SessionTyped, Inv, process
  <1>3. ProcessTyped' /\ TurnsKept /\ DoingKept
    BY <1>1, SameTypes, SameKeeps DEF process
  <1> QED
    BY <1>2, <1>3, InvOf

LEMMA SoftKillInv ==
  ASSUME Inv, NEW s \in Sessions, SoftKill(s)
  PROVE  StepKept
  <1> USE Facts
  <1> DEFINE G == {StateOf(s)}
             S == {turns[t].session : t \in {u \in Torn(G) : Reports(turns[u])}}
  <1>1. /\ known' = [known EXCEPT ![s] = IF StateOf(s) # 0 THEN 0 ELSE @]
        /\ turns' = TornDown(G) /\ AfterResult(S, softKill \ {s})
        /\ UNCHANGED <<proc, starts, object, made, table, handle, owner, parked, owned, doing>>
    BY DEF SoftKill
  <1>2. S \subseteq Sessions
    BY DEF Torn, TurnType
  <1> HIDE DEF S
  <1>3. softKill' \subseteq Sessions /\ finishing' \in [Sessions -> BOOLEAN]
    BY <1>1, <1>2 DEF AfterResult, Inv, SessionTyped
  <1>4. SessionTyped'
    BY <1>1, <1>3 DEF SessionTyped, Inv
  <1>5. known' \in [Sessions -> 0..made]
    BY <1>1
  <1>6. ProcessTyped' /\ DoingKept
    BY <1>1, <1>5, SameTypes DEF ProcessTyped, Inv
  <1>7. turns' \in [DOMAIN turns -> TurnType(made, starts)]
        /\ \A t \in DOMAIN turns : Goes(turns[t], turns'[t])
    BY <1>1, TornDownGoes
  <1>8. ASSUME NEW t \in DOMAIN turns, Live(t)', ~turns'[t].stranded, ~LostTurn(t)'
        PROVE  known'[turns[t].session] = known[turns[t].session]
    <2>1. Live(t) /\ ~LostTurn(t)
      BY <1>1, <1>7, <1>8 DEF Live, LostTurn, Goes, Moves
    <2>2. t \notin Torn(G) /\ turns'[t] = turns[t]
      BY <1>1, <1>8, <2>1, TornDownGoes DEF Live
    <2>5. turns[t].state # 0
      BY <1>8, <2>1, <2>2 DEF Sound, Live
    <2>6. turns[t].state # StateOf(s)
      BY <2>1, <2>2, <2>5 DEF Torn, On
    <2>3. known[turns[t].session] = turns[t].state
      BY <1>8, <2>1, <2>2 DEF Inv, TurnInv, Backed
    <2>4. StateOf(s) = known[s] \/ StateOf(s) = 0
      BY DEF StateOf
    <2> QED
      BY <1>1, <2>3, <2>4, <2>6
  <1>9. \A r \in Sessions : known'[r] = known[r] \/ known'[r] = 0
    BY <1>1
  <1>10. \A t \in DOMAIN turns : KeepsBacked(t)
    BY <1>8 DEF KeepsBacked
  <1>11. UNCHANGED <<made, starts>>
    BY <1>1
  <1>12. TurnsKept
    BY <1>1, <1>6, <1>7, <1>9, <1>10, <1>11, DropKeeps
  <1> QED
    BY <1>4, <1>6, <1>12, InvOf

(* Close and Reap                                                          *)
LEMMA RemovedInv ==
  ASSUME Inv, NEW s \in Sessions, Remove(s, known, turns), doing' = Orphaned(doing, s),
         owned' \in [Conns -> SUBSET Sessions], UNCHANGED <<proc, starts, object, made>>
  PROVE  StepKept
  <1>1. Undone(s, known, turns)
    BY DEF Undone
  <1>2. ProcessTyped' /\ TurnsKept
    BY <1>1, RemoveKeeps
  <1>3. SessionTyped'
    BY RemoveTypes
  <1>4. DoingKept
    BY OrphanedKeeps DEF Inv, DoingTyped
  <1> QED
    BY <1>2, <1>3, <1>4, InvOf

LEMMA CloseInv ==
  ASSUME Inv, NEW c \in Conns, NEW s \in Sessions, Close(c, s)
  PROVE  StepKept
  <1>1. owned' \in [Conns -> SUBSET Sessions]
    BY DEF Close, Inv, SessionTyped
  <1> QED
    BY <1>1, RemovedInv DEF Close

LEMMA ReapInv ==
  ASSUME Inv, NEW s \in Sessions, Reap(s)
  PROVE  StepKept
  <1>1. owned' \in [Conns -> SUBSET Sessions]
    BY DEF Reap, Inv, SessionTyped
  <1> QED
    BY <1>1, RemovedInv DEF Reap

LEMMA StopProfileInv ==
  ASSUME Inv, StopProfile
  PROVE  StepKept
  <1> USE Facts
  <1> DEFINE G == {known[s] : s \in Sessions}
             S == {turns[t].session : t \in {u \in Torn(G) : Reports(turns[u]) /\ ~turns[u].gone}}
  <1>1. /\ object = 1 /\ object' = object + 1 /\ proc' = "down"
        /\ known' = [s \in Sessions |-> 0]
        /\ turns' = TornDown(G) /\ AfterResult(S, softKill)
        /\ UNCHANGED <<starts, made, table, handle, owner, parked, owned, doing>>
    BY DEF StopProfile
  <1>2. S \subseteq Sessions
    BY DEF Torn, TurnType
  <1> HIDE DEF S, G
  <1>3. softKill' \subseteq Sessions /\ finishing' \in [Sessions -> BOOLEAN]
    BY <1>1, <1>2 DEF AfterResult, Inv, SessionTyped
  <1>4. handle' \in [Sessions -> 0..object']
    BY <1>1 DEF Inv, SessionTyped
  <1>5. SessionTyped'
    BY <1>1, <1>3, <1>4 DEF SessionTyped, Inv
  <1>6. ProcessTyped' /\ DoingKept
    BY <1>1, SameTypes DEF ProcessTyped, Inv
  <1>7. turns' \in [DOMAIN turns -> TurnType(made, starts)]
        /\ \A t \in DOMAIN turns : Goes(turns[t], turns'[t])
    BY <1>1, TornDownGoes
  <1>8. \A t \in DOMAIN turns : KeepsBacked(t)
    BY <1>1 DEF KeepsBacked, LostTurn
  <1>9. UNCHANGED <<made, starts>> /\ proc' # "up" /\ \A s \in Sessions : known'[s] = 0
    BY <1>1
  <1>10. TurnsKept
    BY <1>6, <1>7, <1>8, <1>9, DropKeeps
  <1> QED
    BY <1>5, <1>6, <1>10, InvOf

(***************************************************************************)
(* Inv holds at the start and every step preserves it.                     *)
(***************************************************************************)
LEMMA InitInv == Init => Inv /\ Promised!Init
  <1> SUFFICES ASSUME Init PROVE Inv /\ Promised!Init
    OBVIOUS
  <1>1. /\ proc = "down" /\ starts = 0 /\ object = 1 /\ made = 0
        /\ known = [s \in Sessions |-> 0] /\ turns = <<>>
    BY DEF Init
  <1>2. 0 \in 0..MaxStarts /\ 0 \in 0..MaxLoads /\ 0 <= MaxTurns
    BY BoundsAssumption
  <1>3. ProcessTyped
    BY <1>1, <1>2 DEF ProcessTyped
  <1>4. SessionTyped
    BY DEF Init, SessionTyped
  <1>5. DoingTyped
    BY DEF Init, DoingTyped, HandlerType
  <1>6. turns \in Seq(TurnType(made, starts)) /\ Len(turns) = 0 /\ DOMAIN turns = {}
    BY <1>1, EmptySeq
  <1>7. TurnInv
    BY <1>1, <1>2, <1>6 DEF TurnInv, TurnsTyped, EachSound, OwnState, OneKnows, ItsSession,
                            Backed, ToldAreLost, StrayFollows, MissedLetGo, ElsewhereIfAstray
  <1>8. CancelFollows
    BY DEF Init, CancelFollows, Free
  <1>9. TurnsSeen = <<>>
    BY <1>1, <1>6 DEF TurnsSeen
  <1> QED
    BY <1>3, <1>4, <1>5, <1>7, <1>8, <1>9 DEF Inv, Promised!Init

LEMMA StepInv == Inv /\ [Next]_vars => StepKept
  <1> SUFFICES ASSUME Inv, [Next]_vars PROVE StepKept
    OBVIOUS
  <1>1. ASSUME NEW c \in Conns,
               StartProcess(c) \/ Started(c) \/ Loaded(c) \/ SpawnFails(c) \/ SpawnBreaks(c)
        PROVE  StepKept
    BY <1>1, StartProcessInv, StartedInv, LoadedInv, SpawnFailsInv, SpawnBreaksInv
  <1>2. ASSUME NEW c \in Conns, NEW s \in Sessions,
               Open(c, s) \/ Attach(c, s) \/ Prompt(c, s)
        PROVE  StepKept
    BY <1>2, OpenInv, AttachInv, PromptInv
  <1>3. ASSUME NEW t \in DOMAIN turns,
               TurnRuns(t) \/ AgentAnswers(t) \/ Drained(t) \/ PromptRaises(t) \/ CancelledErrorRaised(t)
        PROVE  StepKept
    BY <1>3, TurnRunsInv, AgentAnswersInv, DrainedInv, PromptRaisesInv, CancelledErrorRaisedInv
  <1>4. ASSUME NEW c \in Conns, NEW s \in Sessions,
               Cancel(c, s) \/ Detach(c, s) \/ Close(c, s)
        PROVE  StepKept
    BY <1>4, CancelInv, DetachInv, CloseInv
  <1>5. ASSUME NEW c \in Conns, CancelSent(c) \/ Disconnect(c)
        PROVE  StepKept
    BY <1>5, CancelSentInv, DisconnectInv
  <1>6. ASSUME NEW s \in Sessions, SoftKill(s) \/ Reap(s)
        PROVE  StepKept
    BY <1>6, SoftKillInv, ReapInv
  <1>7. CASE Crash \/ WatchExit \/ StopProfile
    BY <1>7, CrashInv, WatchExitInv, StopProfileInv
  <1>8. CASE UNCHANGED vars
    <2>1. UNCHANGED <<process, turns, session, doing>>
      BY <1>8 DEF vars
    <2>2. ProcessTyped' /\ SessionTyped' /\ DoingKept /\ TurnsKept
      BY <2>1, SameTypes, SameKeeps DEF process
    <2> QED
      BY <2>2, InvOf
  <1> QED
    BY <1>1, <1>2, <1>3, <1>4, <1>5, <1>6, <1>7, <1>8 DEF Next

LEMMA InvHolds == Spec => []Inv
  <1>1. Inv /\ [Next]_vars => Inv'
    BY StepInv DEF StepKept
  <1> QED
    BY <1>1, InitInv, PTL DEF Spec

(***************************************************************************)
(* Theorems                                                                *)
(***************************************************************************)
(* Every variable has its type: a handle is never on a process object that *)
(* is yet to be made, a state that is known has been made, and no turn is  *)
(* closed more than twice, whatever the clients and the process do.        *)
THEOREM TypeCorrect == Spec => []TypeOK
  BY InvHolds, InvTypes, PTL

(* _run_turn and _watch_exit (acp.py:409-443 and 286-300): a turn that     *)
(* ends, and is not torn down, was closed by a frame, its result, its      *)
(* error or the report of the crash; but for a turn that the cancel of     *)
(* another has hit, and one whose task first ran when its session's state  *)
(* was gone or replaced (acp.py:409-412).  And by one frame: the exit      *)
(* watcher and the turn's own task do not both report the crash            *)
(* (notified_crash, acp.py:291, 432).                                      *)
THEOREM EveryTurnIsClosed == Spec => []TurnsClose
  <1>1. Inv => TurnsClose
    <2> SUFFICES ASSUME Inv, NEW t \in DOMAIN turns
                 PROVE  /\ turns[t].frames <= 1 \/ turns[t].cancelled
                        /\ ~HasTask(t) /\ ~turns[t].torn /\ ~turns[t].stray /\ ~turns[t].missed
                             => turns[t].frames >= 1
      BY DEF TurnsClose
    <2>1. turns[t] \in TurnType(made, starts) /\ Sound(turns[t])
      BY Facts
    <2> QED
      BY <2>1 DEF Sound, HasTask, TurnType
  <1> QED
    BY <1>1, InvHolds, PTL

(* turn_active (acp.py:400): a session has one turn at a time on a process *)
(* that lives, through respawns, closes and takeovers; but for a turn that *)
(* a load, or one that was refused, has parted from its session's state.   *)
THEOREM OneTurnAtATime == Spec => []OneTurn
  <1>1. Inv => OneTurn
    BY DEF Inv, TurnInv, EachSound, Sound, Live, Backed, OwnState, OneTurn
  <1> QED
    BY <1>1, InvHolds, PTL

(* The turns are those of Turns, and so what a client may count on is what *)
(* Turns says: whatever owners, processes and loads do (submit, _run_turn, *)
(* cancel, _watch_exit and close of acp.py), no turn begins beside one     *)
(* that its session holds, nothing more happens to a turn that has ended,  *)
(* and it ends without a frame only by a cancel that came late for the     *)
(* turn before it, or if its session let go of it before the agent was     *)
(* asked: _run_turn finds no state of the session, and returns.            *)
THEOREM TurnsAsPromised == Spec => ImplementsTurns
  <1>1. Inv /\ [Next]_vars => [Promised!Next]_TurnsSeen
    BY StepInv DEF StepKept
  <1> QED
    BY <1>1, InitInv, InvHolds, PTL DEF Spec, ImplementsTurns, Promised!Spec
==============================================================================
