---------------------------- MODULE Daemon_proofs ----------------------------
(***************************************************************************)
(* Proofs about the two modules of daemon.py alone, Lifecycle and          *)
(* Connection.                                                             *)
(*                                                                         *)
(* Lifecycle, for any daemons, connections, turns and number of starts: a  *)
(* daemon that serves is not displaced, and a shutdown gives the turns     *)
(* their grace.  Connection, for every set of senders and every capacity:  *)
(* its queue stays within it, and its clean-up cuts no frame off.          *)
(***************************************************************************)
EXTENDS Lifecycle, Connection, SequenceTheorems, TLAPS

Phases == Starting \cup Stopping \cup Over \cup {"serving"}

Open == [of : Daemons, at : InServe \cup {"accepted", "told"}]

(* The steps of a daemon from one phase to another, and those that leave   *)
(* all phases alone.                                                       *)
PhaseStep(d) ==
  \/ Start(d) \/ Probes(d) \/ Clears(d) \/ Binds(d) \/ StartsServing(d)
  \/ StopsListening(d) \/ AllTold(d) \/ ConnsClosed(d) \/ GraceEnds(d) \/ Forces(d)
  \/ Unlinks(d) \/ Dies(d)

ConnStep(c) ==
  \/ Connects(c) \/ Serves(c) \/ Greets(c) \/ Stalls(c) \/ Ends(c)
  \/ \E d \in Daemons : Tells(d, c)

TurnStep(t) ==
  \/ \E c \in Conns : Prompts(c, t) \/ Spawned(c, t)
  \/ \E d \in Daemons : TurnEnds(d, t)

LEMMA NextSteps ==
  ASSUME Next
  PROVE  \/ \E d \in Daemons : PhaseStep(d) \/ Asks(d)
         \/ \E c \in Conns : ConnStep(c)
         \/ \E t \in Turns : TurnStep(t)
  BY DEF Next, PhaseStep, ConnStep, TurnStep

(***************************************************************************)
(* Types                                                                   *)
(***************************************************************************)

(* The connections that are yet to be told are served, by the daemon.      *)
ToldAreOpen ==
  \A d \in Daemons : \A c \in todo[d] : conn[c].of = d /\ conn[c].at \in InServe

Typed == TypeOK /\ ToldAreOpen

LEMMA TypeFacts ==
  ASSUME TypeOK
  PROVE  /\ sock \in Daemons \cup {None} /\ phase \in [Daemons -> Phases]
         /\ asked \subseteq Daemons /\ expired \subseteq Daemons
         /\ conn \in [Conns -> {Closed} \cup Open]
         /\ stuck \subseteq Conns /\ todo \in [Daemons -> SUBSET Conns]
         /\ spawning \in [Conns -> SUBSET Turns]
         /\ running \in [Daemons -> SUBSET Turns] /\ waited \in [Daemons -> SUBSET Turns]
         /\ late \subseteq Turns /\ starts \in 0..MaxStarts /\ overlap \in BOOLEAN
         /\ \A c \in Conns : conn[c] = Closed \/ conn[c] \in Open
         /\ Closed.at = "closed"
  BY DEF TypeOK, Phases, Open, Closed

LEMMA KeepsTypes ==
  ASSUME sock' \in Daemons \cup {None}, phase' \in [Daemons -> Phases],
         asked' \subseteq Daemons, expired' \subseteq Daemons,
         conn' \in [Conns -> {Closed} \cup Open],
         stuck' \subseteq Conns, todo' \in [Daemons -> SUBSET Conns],
         spawning' \in [Conns -> SUBSET Turns],
         running' \in [Daemons -> SUBSET Turns], waited' \in [Daemons -> SUBSET Turns],
         late' \subseteq Turns, starts' \in 0..MaxStarts, overlap' \in BOOLEAN
  PROVE  TypeOK'
  BY DEF TypeOK, Phases, Open

(* A connection gets further.                                              *)
LEMMA AtChanges ==
  ASSUME TypeOK, NEW c \in Conns, conn[c] \in Open, NEW a \in InServe \cup {"accepted", "told"},
         conn' = [conn EXCEPT ![c].at = a]
  PROVE  /\ conn' \in [Conns -> {Closed} \cup Open]
         /\ conn'[c] \in Open /\ conn'[c].of = conn[c].of /\ conn'[c].at = a
         /\ \A b \in Conns \ {c} : conn'[b] = conn[b]
  <1>1. conn \in [Conns -> {Closed} \cup Open]
    BY TypeFacts
  <1>2. /\ conn'[c] = [conn[c] EXCEPT !.at = a]
        /\ \A b \in Conns \ {c} : conn'[b] = conn[b]
        /\ conn' \in [Conns -> {Closed} \cup Open \cup {[conn[c] EXCEPT !.at = a]}]
    BY <1>1
  <1>3. /\ [conn[c] EXCEPT !.at = a] \in Open
        /\ [conn[c] EXCEPT !.at = a].of = conn[c].of /\ [conn[c] EXCEPT !.at = a].at = a
    BY DEF Open
  <1> QED
    BY <1>2, <1>3

LEMMA LoopHead ==
  ASSUME NEW c \in Conns
  PROVE  /\ AtLoopHead(c) \in InServe
         /\ AtLoopHead(c) = "open" => conn[c].of \notin asked
  BY DEF AtLoopHead, InServe

LEMMA GoesFacts ==
  ASSUME TypeOK, NEW d \in Daemons, NEW p \in Phases, Goes(d, p)
  PROVE  /\ phase' \in [Daemons -> Phases] /\ overlap' \in BOOLEAN
         /\ phase'[d] = p /\ \A e \in Daemons \ {d} : phase'[e] = phase[e]
         /\ overlap => overlap'
  BY TypeFacts DEF Goes

(* What a step from phase to phase does with the phases.                   *)
LEMMA PhaseStepGoes ==
  ASSUME TypeOK, NEW d \in Daemons, PhaseStep(d)
  PROVE  \E p \in Phases : Goes(d, p)
  <1>1. {"prepare", "clear", "stopped", "bind", "listen", "serving", "telling", "closing",
         "grace", "force", "unlink", "down"} \subseteq Phases
    BY DEF Phases, Starting, Stopping, Over
  <1>2. CASE Start(d) \/ Probes(d) \/ Clears(d) \/ Binds(d)
    BY <1>1, <1>2 DEF Start, Probes, Clears, Binds
  <1>3. CASE StartsServing(d) \/ StopsListening(d) \/ AllTold(d) \/ ConnsClosed(d)
    BY <1>1, <1>3 DEF StartsServing, StopsListening, AllTold, ConnsClosed
  <1>4. CASE GraceEnds(d) \/ Forces(d) \/ Unlinks(d) \/ Dies(d)
    BY <1>1, <1>4 DEF GraceEnds, Forces, Unlinks, Dies
  <1> QED
    BY <1>2, <1>3, <1>4 DEF PhaseStep

LEMMA InitTyped == Init => Typed
  <1> SUFFICES ASSUME Init PROVE Typed
    OBVIOUS
  <1>1. phase \in [Daemons -> Starting \cup Stopping \cup Over \cup {"serving"}]
    BY DEF Init, Over
  <1>2. starts \in 0..MaxStarts
    BY BoundAssumption DEF Init
  <1>3. TypeOK
    BY <1>1, <1>2 DEF Init, TypeOK
  <1> QED
    BY <1>3 DEF Init, Typed, ToldAreOpen

LEMMA PhaseStepTyped ==
  ASSUME Typed, NEW d \in Daemons, PhaseStep(d)
  PROVE  Typed'
  <1>1. TypeOK /\ ToldAreOpen
    BY DEF Typed
  <1>2. phase' \in [Daemons -> Phases] /\ overlap' \in BOOLEAN
    BY <1>1, PhaseStepGoes, GoesFacts
  <1>3. CASE Start(d) \/ Probes(d) \/ Clears(d) \/ Binds(d) \/ StartsServing(d)
    <2>1. sock' \in Daemons \cup {None} /\ starts' \in 0..MaxStarts
      BY <1>1, <1>3, TypeFacts, BoundAssumption
      DEF Start, Probes, Clears, Binds, StartsServing, load
    <2>2. /\ UNCHANGED <<conn, stuck, todo, spawning, running, waited, late>>
          /\ asked' \subseteq asked /\ expired' \subseteq expired
      BY <1>3 DEF Start, Probes, Clears, Binds, StartsServing, load
    <2> QED
      BY <1>1, <1>2, <2>1, <2>2, TypeFacts, KeepsTypes DEF Typed, ToldAreOpen
  <1>4. CASE StopsListening(d)
    <2>1. sock' \in Daemons \cup {None} /\ todo' = [todo EXCEPT ![d] = ConnsOf(d, InServe)]
          /\ UNCHANGED <<asked, conn, stuck, spawning, running, waited, late, expired, starts>>
      BY <1>1, <1>4, TypeFacts DEF StopsListening
    <2>2. todo' \in [Daemons -> SUBSET Conns] /\ ToldAreOpen'
      BY <1>1, <2>1, TypeFacts DEF ConnsOf, ToldAreOpen
    <2> QED
      BY <1>1, <1>2, <2>1, <2>2, TypeFacts, KeepsTypes DEF Typed
  <1>5. CASE AllTold(d) \/ ConnsClosed(d) \/ GraceEnds(d) \/ Forces(d)
    <2>1. UNCHANGED <<sock, asked, conn, stuck, todo, spawning, starts>>
      BY <1>5 DEF AllTold, ConnsClosed, GraceEnds, Forces, load
    <2>2. /\ running' \in [Daemons -> SUBSET Turns] /\ waited' \in [Daemons -> SUBSET Turns]
          /\ late' \subseteq Turns /\ expired' \subseteq Daemons
      BY <1>1, <1>5, TypeFacts DEF AllTold, ConnsClosed, GraceEnds, Forces, load
    <2> QED
      BY <1>1, <1>2, <2>1, <2>2, TypeFacts, KeepsTypes DEF Typed, ToldAreOpen
  <1>6. CASE Unlinks(d) \/ Dies(d)
    <2>1. Exits(d) /\ sock' \in Daemons \cup {None} /\ UNCHANGED <<asked, expired, starts>>
      BY <1>1, <1>6, TypeFacts DEF Unlinks, Dies
    <2>2. /\ conn' \in [Conns -> {Closed} \cup Open]
          /\ stuck' \subseteq Conns /\ todo' \in [Daemons -> SUBSET Conns]
          /\ running' \in [Daemons -> SUBSET Turns] /\ waited' \in [Daemons -> SUBSET Turns]
          /\ late' \subseteq Turns /\ spawning' \in [Conns -> SUBSET Turns]
      BY <1>1, <2>1, TypeFacts DEF Exits
    <2>3. ToldAreOpen'
      BY <1>1, <2>1, TypeFacts DEF Exits, ToldAreOpen
    <2> QED
      BY <1>1, <1>2, <2>1, <2>2, <2>3, TypeFacts, KeepsTypes DEF Typed
  <1> QED
    BY <1>3, <1>4, <1>5, <1>6 DEF PhaseStep

(* A connection that gets further is still served.                         *)
LEMMA GetsFurther ==
  ASSUME Typed, NEW c \in Conns, conn[c].at # "closed", NEW a \in InServe,
         conn' = [conn EXCEPT ![c].at = a], todo' = todo
  PROVE  /\ conn' \in [Conns -> {Closed} \cup Open] /\ ToldAreOpen'
         /\ conn[c] # Closed /\ conn'[c] # Closed
         /\ conn'[c].of = conn[c].of /\ conn'[c].at = a
         /\ \A b \in Conns \ {c} : conn'[b] = conn[b]
  <1>1. TypeOK /\ ToldAreOpen /\ conn[c] \in Open
    BY TypeFacts DEF Typed
  <1>2. /\ conn' \in [Conns -> {Closed} \cup Open]
        /\ conn'[c].of = conn[c].of /\ conn'[c].at = a
        /\ \A b \in Conns \ {c} : conn'[b] = conn[b]
    BY <1>1, AtChanges
  <1>3. ToldAreOpen'
    BY <1>1, <1>2, TypeFacts DEF ToldAreOpen
  <1>4. conn[c] # Closed /\ conn'[c] # Closed
    BY <1>2 DEF Closed, InServe
  <1> QED
    BY <1>2, <1>3, <1>4

LEMMA ConnStepTyped ==
  ASSUME Typed, NEW c \in Conns, ConnStep(c)
  PROVE  /\ Typed'
         /\ UNCHANGED <<sock, phase, asked, spawning, running, waited, late, expired,
                        starts, overlap>>
  <1>1. TypeOK /\ ToldAreOpen
    BY DEF Typed
  <1>2. UNCHANGED <<sock, phase, asked, spawning, running, waited, late, expired, starts, overlap>>
    BY DEF ConnStep, Connects, Serves, Greets, Stalls, Ends, Tells
  <1>3. CASE Connects(c)
    <2>1. /\ conn' = [conn EXCEPT ![c] = [of |-> sock, at |-> "accepted"]]
          /\ conn[c] = Closed /\ sock # None /\ UNCHANGED <<stuck, todo>>
      BY <1>3 DEF Connects
    <2>2. [of |-> sock, at |-> "accepted"] \in Open
      BY <1>1, <2>1, TypeFacts DEF Open
    <2>3. conn' \in [Conns -> {Closed} \cup Open] /\ ToldAreOpen'
      BY <1>1, <2>1, <2>2, TypeFacts DEF ToldAreOpen, InServe
    <2> QED
      BY <1>1, <1>2, <2>1, <2>3, TypeFacts, KeepsTypes DEF Typed
  <1>4. CASE Serves(c) \/ Greets(c)
    <2>1. conn[c].at # "closed" /\ stuck' = stuck /\ todo' = todo
      BY <1>4 DEF Serves, Greets
    <2>2. PICK a \in InServe : conn' = [conn EXCEPT ![c].at = a]
      <3>1. CASE Serves(c)
        BY <3>1 DEF Serves, InServe
      <3>2. CASE Greets(c)
        BY <3>2, LoopHead DEF Greets
      <3> QED
        BY <1>4, <3>1, <3>2
    <2>3. conn' \in [Conns -> {Closed} \cup Open] /\ ToldAreOpen'
      BY <2>1, <2>2, GetsFurther
    <2> QED
      BY <1>1, <1>2, <2>1, <2>3, TypeFacts, KeepsTypes DEF Typed
  <1>5. CASE Stalls(c)
    BY <1>1, <1>2, <1>5, TypeFacts, KeepsTypes DEF Stalls, Typed, ToldAreOpen
  <1>6. CASE Ends(c)
    <2>1. /\ conn' = [conn EXCEPT ![c] = Closed] /\ stuck' = stuck \ {c}
          /\ todo' = [d \in Daemons |-> todo[d] \ {c}]
      BY <1>6 DEF Ends
    <2>2. conn' \in [Conns -> {Closed} \cup Open] /\ todo' \in [Daemons -> SUBSET Conns]
      BY <1>1, <2>1, TypeFacts
    <2>3. ToldAreOpen'
      BY <1>1, <2>1, TypeFacts DEF ToldAreOpen
    <2> QED
      BY <1>1, <1>2, <2>1, <2>2, <2>3, TypeFacts, KeepsTypes DEF Typed
  <1>7. ASSUME NEW d \in Daemons, Tells(d, c) PROVE Typed'
    <2>1. /\ conn' = [conn EXCEPT ![c].at = "told"] /\ c \in todo[d] /\ stuck' = stuck
          /\ todo' = [todo EXCEPT ![d] = todo[d] \ {c}]
      BY <1>7 DEF Tells
    <2>2. conn[c] \in Open /\ conn[c].of = d
      BY <1>1, <2>1, TypeFacts DEF ToldAreOpen, InServe
    <2>3. /\ conn' \in [Conns -> {Closed} \cup Open] /\ todo' \in [Daemons -> SUBSET Conns]
          /\ \A b \in Conns \ {c} : conn'[b] = conn[b]
      BY <1>1, <2>1, <2>2, TypeFacts, AtChanges
    <2>4. \A e \in Daemons : c \notin todo'[e] /\ todo'[e] \subseteq todo[e]
      BY <1>1, <2>1, <2>2, TypeFacts DEF ToldAreOpen
    <2>5. ToldAreOpen'
      BY <1>1, <2>3, <2>4, TypeFacts DEF ToldAreOpen
    <2> QED
      BY <1>1, <1>2, <2>1, <2>3, <2>5, TypeFacts, KeepsTypes DEF Typed
  <1> QED
    BY <1>2, <1>3, <1>4, <1>5, <1>6, <1>7 DEF ConnStep

(* A handler of a connection runs only while there is the connection; when *)
(* it is back at the head of the loop the connection is as served as       *)
(* before.                                                                 *)
Handled == \A c \in Conns : spawning[c] # {} => conn[c] # Closed

LEMMA BackAtHead ==
  ASSUME Typed, NEW c \in Conns, conn[c] # Closed,
         conn' = [conn EXCEPT ![c].at = AtLoopHead(c)], todo' = todo
  PROVE  /\ conn' \in [Conns -> {Closed} \cup Open] /\ ToldAreOpen'
         /\ conn'[c] # Closed /\ conn'[c].of = conn[c].of
         /\ conn'[c].at = "open" => conn[c].of \notin asked
         /\ \A b \in Conns \ {c} : conn'[b] = conn[b]
  <1>1. TypeOK /\ ToldAreOpen /\ conn[c] \in Open
    BY TypeFacts DEF Typed
  <1>2. /\ conn' \in [Conns -> {Closed} \cup Open]
        /\ conn'[c] \in Open /\ conn'[c].of = conn[c].of /\ conn'[c].at = AtLoopHead(c)
        /\ \A b \in Conns \ {c} : conn'[b] = conn[b]
    BY <1>1, LoopHead, AtChanges
  <1>3. ToldAreOpen'
    BY <1>1, <1>2, LoopHead, TypeFacts DEF ToldAreOpen
  <1>4. conn'[c] # Closed
    BY <1>2, LoopHead DEF Closed, InServe
  <1> QED
    BY <1>2, <1>3, <1>4, LoopHead

(* The connection of a prompt is there, before and after.                  *)
LEMMA TurnStepConn ==
  ASSUME Typed, Handled, NEW t \in Turns, NEW c \in Conns, Prompts(c, t) \/ Spawned(c, t)
  PROVE  /\ conn[c] \in Open /\ conn' \in [Conns -> {Closed} \cup Open] /\ ToldAreOpen'
         /\ conn'[c] # Closed /\ conn'[c].of = conn[c].of
         /\ conn'[c].at = "open" => conn[c].of \notin asked \/ conn[c].at = "open"
         /\ \A b \in Conns \ {c} : conn'[b] = conn[b] /\ spawning'[b] = spawning[b]
         /\ spawning' \in [Conns -> SUBSET Turns]
  <1>1. TypeOK /\ ToldAreOpen
    BY DEF Typed
  <1>2. conn[c] # Closed
    <2>1. CASE Prompts(c, t)
      BY <2>1 DEF Prompts, Reads, Closed
    <2>2. CASE Spawned(c, t)
      BY <2>2 DEF Spawned, Handled
    <2> QED
      BY <2>1, <2>2
  <1>3. conn[c] \in Open
    BY <1>1, <1>2, TypeFacts
  <1>4. /\ \/ conn' = [conn EXCEPT ![c].at = AtLoopHead(c)]
           \/ conn' = conn
        /\ todo' = todo
    BY DEF Prompts, Spawned
  <1>5. /\ \A b \in Conns \ {c} : spawning'[b] = spawning[b]
        /\ spawning' \in [Conns -> SUBSET Turns]
    <2>1. \E T \in SUBSET Turns : spawning' = [spawning EXCEPT ![c] = T] \/ spawning' = spawning
      BY DEF Prompts, Spawned
    <2> QED
      BY <1>1, <2>1, TypeFacts
  <1>6. CASE conn' = [conn EXCEPT ![c].at = AtLoopHead(c)]
    BY <1>2, <1>3, <1>4, <1>5, <1>6, BackAtHead
  <1>7. CASE conn' = conn
    <2>1. ToldAreOpen'
      BY <1>1, <1>4, <1>7 DEF ToldAreOpen
    <2> QED
      BY <1>1, <1>2, <1>3, <1>5, <1>7, <2>1, TypeFacts
  <1> QED
    BY <1>4, <1>6, <1>7

LEMMA TurnStepTyped ==
  ASSUME Typed, Handled, NEW t \in Turns, TurnStep(t)
  PROVE  /\ Typed'
         /\ UNCHANGED <<sock, phase, asked, stuck, todo, expired, starts, overlap>>
  <1>1. TypeOK /\ ToldAreOpen
    BY DEF Typed
  <1>2. UNCHANGED <<sock, phase, asked, stuck, todo, expired, starts, overlap>>
    BY DEF TurnStep, Prompts, Spawned, TurnEnds
  <1>3. ASSUME NEW c \in Conns, Prompts(c, t) \/ Spawned(c, t) PROVE Typed'
    <2>1. /\ conn' \in [Conns -> {Closed} \cup Open] /\ ToldAreOpen'
          /\ spawning' \in [Conns -> SUBSET Turns]
      BY <1>3, TurnStepConn
    <2>2. running' \in [Daemons -> SUBSET Turns] /\ late' \subseteq Turns /\ waited' = waited
      BY <1>1, <1>3, TypeFacts DEF Prompts, Spawned
    <2> QED
      BY <1>1, <1>2, <2>1, <2>2, TypeFacts, KeepsTypes DEF Typed
  <1>4. ASSUME NEW d \in Daemons, TurnEnds(d, t) PROVE Typed'
    <2>1. /\ running' \in [Daemons -> SUBSET Turns] /\ late' \subseteq Turns
          /\ waited' \in [Daemons -> SUBSET Turns] /\ UNCHANGED <<conn, spawning>>
      BY <1>1, <1>4, TypeFacts DEF TurnEnds
    <2> QED
      BY <1>1, <1>2, <2>1, TypeFacts, KeepsTypes DEF Typed, ToldAreOpen
  <1> QED
    BY <1>2, <1>3, <1>4 DEF TurnStep

LEMMA AsksTyped ==
  ASSUME Typed, NEW d \in Daemons, Asks(d)
  PROVE  /\ Typed' /\ asked \subseteq asked'
         /\ UNCHANGED <<sock, phase, conn, todo, spawning, running, waited, late, expired, overlap>>
  <1>1. TypeOK /\ ToldAreOpen
    BY DEF Typed
  <1>2. /\ UNCHANGED <<sock, phase, conn, stuck, todo, spawning, running, waited, late, expired,
                       starts, overlap>>
        /\ asked' = asked \cup {d}
    BY DEF Asks, load
  <1> QED
    BY <1>1, <1>2, TypeFacts, KeepsTypes DEF Typed, ToldAreOpen

-----------------------------------------------------------------------------
(***************************************************************************)
(* Who serves                                                              *)
(***************************************************************************)

(* As long as no daemon starts while another starts or stops: the others   *)
(* of a daemon that serves are down, or have not got past looking at the   *)
(* path; and the path is of who listens or serves.                         *)
Orderly ==
  /\ \A a, b \in Daemons : a # b /\ phase[a] \in Starting => phase[b] \notin Starting \cup Stopping
  /\ \A a, b \in Daemons : a # b /\ phase[a] = "serving" => phase[b] \in Over \cup {"prepare"}
  /\ \A a \in Daemons : phase[a] \in {"listen", "serving"} => sock = a

PathInv == ~overlap => Orderly

(* The step of a daemon to the phase p is checked by what it is in the way *)
(* of.                                                                     *)
LEMMA GoesOrderly ==
  ASSUME TypeOK, Orderly, NEW d \in Daemons, NEW p \in Phases, Goes(d, p), ~overlap',
         p = "serving" => \A e \in Daemons \ {d} : phase[e] \in Over \cup {"prepare"},
         p \notin Over \cup {"prepare"} => \A e \in Daemons \ {d} : phase[e] # "serving",
         p \in {"listen", "serving"} => sock' = d,
         \A e \in Daemons \ {d} : phase[e] \in {"listen", "serving"} => sock' = sock
  PROVE  Orderly'
  <1>1. /\ phase' \in [Daemons -> Phases] /\ phase'[d] = p
        /\ \A e \in Daemons \ {d} : phase'[e] = phase[e]
    BY GoesFacts
  <1>2. \A a, b \in Daemons : a # b /\ phase'[a] \in Starting
                                => phase'[b] \notin Starting \cup Stopping
    BY DEF Goes
  <1>3. \A a, b \in Daemons : a # b /\ phase'[a] = "serving" => phase'[b] \in Over \cup {"prepare"}
    BY <1>1 DEF Orderly
  <1>4. \A a \in Daemons : phase'[a] \in {"listen", "serving"} => sock' = a
    BY <1>1 DEF Orderly
  <1> QED
    BY <1>2, <1>3, <1>4 DEF Orderly

(* A daemon that starts, and is past its look at the path, or that stops,  *)
(* finds nobody serving.                                                   *)
LEMMA NobodyServes ==
  ASSUME TypeOK, Orderly, NEW d \in Daemons, phase[d] \notin Over \cup {"prepare"}
  PROVE  \A e \in Daemons \ {d} : phase[e] # "serving"
  BY DEF Orderly

LEMMA PhaseStepPath ==
  ASSUME TypeOK, PathInv, NEW d \in Daemons, PhaseStep(d)
  PROVE  PathInv'
  <1> SUFFICES ASSUME ~overlap' PROVE Orderly'
    BY DEF PathInv
  <1>1. Orderly
    BY PhaseStepGoes, GoesFacts DEF PathInv
  <1>2. /\ {"prepare", "clear", "stopped", "bind", "listen", "serving", "telling", "closing",
            "grace", "force", "unlink", "down"} \subseteq Phases
        /\ {"prepare", "clear", "bind", "listen"} = Starting
        /\ {"telling", "closing", "grace", "force", "unlink"} = Stopping
        /\ Over = {"down", "stopped"}
    BY DEF Phases, Starting, Stopping, Over
  <1>3. CASE Start(d)
    <2>1. Goes(d, "prepare") /\ sock' = sock
      BY <1>3 DEF Start
    <2> QED
      BY <1>1, <1>2, <2>1, GoesOrderly
  <1>4. CASE Probes(d)
    <2>1. /\ phase[d] = "prepare" /\ sock' = sock
          /\ Goes(d, IF sock # None /\ phase[sock] = "serving" THEN "stopped" ELSE "clear")
      BY <1>4 DEF Probes, Listens
    <2>2. CASE sock # None /\ phase[sock] = "serving"
      <3>1. Goes(d, "stopped")
        BY <2>1, <2>2
      <3> QED
        BY <1>1, <1>2, <2>1, <3>1, GoesOrderly
    <2>3. CASE ~(sock # None /\ phase[sock] = "serving")
      <3>1. Goes(d, "clear")
        BY <2>1, <2>3
      <3>2. \A e \in Daemons : phase[e] # "serving"
        BY <1>1, <2>3, NoneAssumption DEF Orderly
      <3> QED
        BY <1>1, <1>2, <2>1, <3>1, <3>2, GoesOrderly
    <2> QED
      BY <2>2, <2>3
  <1>5. CASE Clears(d)
    <2>1. phase[d] = "clear" /\ Goes(d, "bind")
      BY <1>5 DEF Clears
    <2>2. \A e \in Daemons \ {d} : phase[e] \notin {"listen", "serving"}
      BY <1>1, <1>2, <2>1, NobodyServes DEF Orderly
    <2> QED
      BY <1>1, <1>2, <2>1, <2>2, GoesOrderly
  <1>6. CASE Binds(d)
    <2>1. /\ phase[d] = "bind"
          /\ \/ Goes(d, "listen") /\ sock' = d
             \/ Goes(d, "stopped") /\ sock' = sock
      BY <1>6 DEF Binds
    <2>2. \A e \in Daemons \ {d} : phase[e] \notin {"listen", "serving"}
      BY <1>1, <1>2, <2>1, NobodyServes DEF Orderly
    <2> QED
      BY <1>1, <1>2, <2>1, <2>2, GoesOrderly
  <1>7. CASE StartsServing(d)
    <2>1. phase[d] = "listen" /\ Goes(d, "serving") /\ sock' = sock
      BY <1>7 DEF StartsServing
    <2>2. sock = d
      BY <1>1, <2>1 DEF Orderly
    <2>3. \A e \in Daemons \ {d} : phase[e] # "serving" /\ phase[e] \notin Starting \cup Stopping
      BY <1>1, <1>2, <2>1, NobodyServes DEF Orderly
    <2>4. \A e \in Daemons \ {d} : phase[e] \in Over
      BY <2>3, TypeFacts DEF Phases
    <2> QED
      BY <1>1, <1>2, <2>1, <2>2, <2>3, <2>4, GoesOrderly
  <1>8. CASE StopsListening(d)
    <2>1. phase[d] = "serving" /\ Goes(d, "telling")
      BY <1>8 DEF StopsListening
    <2>2. \A e \in Daemons \ {d} : phase[e] \notin {"listen", "serving"}
      BY <1>1, <1>2, <2>1 DEF Orderly
    <2> QED
      BY <1>1, <1>2, <2>1, <2>2, GoesOrderly
  <1>9. ASSUME NEW p \in Stopping, phase[d] \in Stopping, Goes(d, p), sock' = sock
        PROVE  Orderly'
    <2>1. \A e \in Daemons \ {d} : phase[e] # "serving"
      BY <1>1, <1>2, <1>9, NobodyServes
    <2>2. p \in Phases /\ p \notin {"listen", "serving"}
      BY <1>2, <1>9
    <2> QED
      BY <1>1, <1>9, <2>1, <2>2, GoesOrderly
  <1>10. CASE AllTold(d) \/ ConnsClosed(d) \/ GraceEnds(d) \/ Forces(d)
    <2>1. \E p \in Stopping : phase[d] \in Stopping /\ Goes(d, p) /\ sock' = sock
      BY <1>2, <1>10 DEF AllTold, ConnsClosed, GraceEnds, Forces
    <2> QED
      BY <1>9, <2>1
  <1>11. CASE Unlinks(d)
    <2>1. phase[d] = "unlink" /\ Goes(d, "stopped")
      BY <1>11 DEF Unlinks
    <2>2. \A e \in Daemons \ {d} : phase[e] \notin {"listen", "serving"}
      BY <1>1, <1>2, <2>1, NobodyServes DEF Orderly
    <2> QED
      BY <1>1, <1>2, <2>1, <2>2, GoesOrderly
  <1>12. CASE Dies(d)
    <2>1. Goes(d, "down") /\ sock' = sock
      BY <1>12 DEF Dies
    <2> QED
      BY <1>1, <1>2, <2>1, GoesOrderly
  <1> QED
    BY <1>3, <1>4, <1>5, <1>6, <1>7, <1>8, <1>10, <1>11, <1>12 DEF PhaseStep

(***************************************************************************)
(* Which connections read requests                                         *)
(***************************************************************************)

(* A daemon that stops was asked to, connections are of daemons that serve *)
(* or stop, and one whose loop still reads is of a daemon that serves, or  *)
(* is yet to be told.                                                      *)
Served ==
  /\ \A d \in Daemons : phase[d] \in Stopping => d \in asked
  /\ \A c \in Conns : conn[c] # Closed => phase[conn[c].of] \in Stopping \cup {"serving"}
  /\ \A c \in Conns : conn[c].at = "open"
       => \/ phase[conn[c].of] = "serving"
          \/ phase[conn[c].of] = "telling" /\ c \in todo[conn[c].of]

LEMMA OpenConns ==
  ASSUME TypeOK
  PROVE  \A c \in Conns : /\ conn[c] # Closed => conn[c].of \in Daemons
                          /\ conn[c].at # "closed" => conn[c] # Closed
  BY TypeFacts DEF Open

LEMMA PhaseStepServed ==
  ASSUME Typed, Served, Handled, NEW d \in Daemons, PhaseStep(d)
  PROVE  Served' /\ Handled'
  <1>1. TypeOK /\ ToldAreOpen
    BY DEF Typed
  <1>2. \A e \in Daemons \ {d} : phase'[e] = phase[e]
    BY <1>1, PhaseStepGoes, GoesFacts
  <1>3. CASE Start(d) \/ Probes(d) \/ Clears(d) \/ Binds(d) \/ StartsServing(d)
    <2>1. /\ phase[d] \notin Stopping \cup {"serving"} /\ phase'[d] \notin Stopping
          /\ conn' = conn /\ todo' = todo /\ spawning' = spawning
          /\ \A e \in Daemons \ {d} : e \in asked => e \in asked'
      <3>1. CASE Start(d) \/ Probes(d) \/ Clears(d)
        BY <1>1, <3>1, TypeFacts DEF Start, Probes, Clears, Goes, load, Over, Stopping
      <3>2. CASE Binds(d) \/ StartsServing(d)
        BY <1>1, <3>2, TypeFacts DEF Binds, StartsServing, Goes, load, Over, Stopping
      <3> QED
        BY <1>3, <3>1, <3>2
    <2>2. \A c \in Conns : conn[c] # Closed => conn[c].of \in Daemons \ {d}
      BY <1>1, <2>1, OpenConns DEF Served
    <2> QED
      BY <1>1, <1>2, <2>1, <2>2, OpenConns DEF Served, Handled, Closed
  <1>4. CASE StopsListening(d)
    <2>1. /\ phase[d] = "serving" /\ phase'[d] = "telling" /\ d \in asked
          /\ conn' = conn /\ asked' = asked /\ spawning' = spawning
          /\ todo'[d] = ConnsOf(d, InServe) /\ \A e \in Daemons \ {d} : todo'[e] = todo[e]
      BY <1>1, <1>4, TypeFacts DEF StopsListening, Goes
    <2>2. \A c \in Conns : conn[c].at = "open" /\ conn[c].of = d => c \in todo'[d]
      BY <2>1 DEF ConnsOf, InServe
    <2>3. "telling" \in Stopping
      BY DEF Stopping
    <2> QED
      BY <1>1, <1>2, <2>1, <2>2, <2>3, OpenConns DEF Served, Handled, Closed
  <1>5. CASE AllTold(d) \/ ConnsClosed(d) \/ GraceEnds(d) \/ Forces(d)
    <2>1. /\ phase[d] \in Stopping /\ phase'[d] \in Stopping /\ phase[d] # "serving"
          /\ phase[d] = "telling" => todo[d] = {}
          /\ conn' = conn /\ asked' = asked /\ todo' = todo /\ spawning' = spawning
      BY <1>1, <1>5, TypeFacts DEF AllTold, ConnsClosed, GraceEnds, Forces, Goes, load, Stopping
    <2>2. \A c \in Conns : conn[c].at = "open" => conn[c].of \in Daemons \ {d}
      BY <1>1, <2>1, OpenConns DEF Served, Closed
    <2> QED
      BY <1>1, <1>2, <2>1, <2>2, OpenConns DEF Served, Handled, Closed
  <1>6. CASE Unlinks(d) \/ Dies(d)
    <2>1. /\ phase'[d] \notin Stopping /\ asked' = asked
          /\ \A c \in Conns : conn[c].of = d => conn'[c] = Closed /\ spawning'[c] = {}
          /\ \A c \in Conns : conn[c].of # d => conn'[c] = conn[c] /\ spawning'[c] = spawning[c]
          /\ \A e \in Daemons \ {d} : todo'[e] = todo[e]
      BY <1>1, <1>6, TypeFacts DEF Unlinks, Dies, Exits, Goes, Stopping
    <2>2. Closed.at # "open"
      BY DEF Closed
    <2> QED
      BY <1>1, <1>2, <2>1, <2>2, OpenConns DEF Served, Handled
  <1> QED
    BY <1>3, <1>4, <1>5, <1>6 DEF PhaseStep

LEMMA ConnStepServed ==
  ASSUME Typed, Served, Handled, NEW c \in Conns, ConnStep(c)
  PROVE  Served' /\ Handled'
  <1>1. TypeOK /\ ToldAreOpen
    BY DEF Typed
  <1>2. UNCHANGED <<phase, asked, spawning>>
    BY ConnStepTyped
  <1>3. CASE Connects(c)
    <2>1. /\ conn[c] = Closed /\ phase[sock] = "serving" /\ todo' = todo
          /\ conn' = [conn EXCEPT ![c] = [of |-> sock, at |-> "accepted"]]
      BY <1>3 DEF Connects, Listens
    <2>2. /\ conn'[c].of = sock /\ conn'[c].at = "accepted"
          /\ \A b \in Conns \ {c} : conn'[b] = conn[b]
      BY <1>1, <2>1, TypeFacts
    <2> QED
      BY <1>2, <2>1, <2>2 DEF Served, Handled, Closed
  <1>4. CASE Serves(c) \/ Greets(c)
    <2>1. conn[c].at # "closed" /\ todo' = todo
      BY <1>4 DEF Serves, Greets
    <2>2. PICK a \in InServe : conn' = [conn EXCEPT ![c].at = a]
      BY <1>4, LoopHead DEF Serves, Greets, InServe
    <2>3. /\ conn[c] # Closed /\ conn'[c] # Closed
          /\ conn'[c].of = conn[c].of /\ conn'[c].at = a
          /\ \A b \in Conns \ {c} : conn'[b] = conn[b]
      BY <2>1, <2>2, GetsFurther
    <2>4. conn'[c].at \in {"greeting", AtLoopHead(c)}
      <3>1. conn[c] \in Open /\ conn \in [Conns -> {Closed} \cup Open]
        BY <1>1, <2>3, TypeFacts
      <3>2. CASE Serves(c)
        BY <3>1, <3>2 DEF Serves, Open
      <3>3. CASE Greets(c)
        BY <3>1, <3>3 DEF Greets, Open
      <3> QED
        BY <1>4, <3>2, <3>3
    <2>5. conn'[c].at = "open" => phase[conn[c].of] = "serving"
      BY <1>1, <2>3, <2>4, LoopHead, OpenConns DEF Served
    <2> QED
      BY <1>2, <2>1, <2>3, <2>5 DEF Served, Handled
  <1>5. CASE Stalls(c)
    BY <1>2, <1>5 DEF Stalls, Served, Handled
  <1>6. CASE Ends(c)
    <2>1. /\ spawning[c] = {} /\ conn' = [conn EXCEPT ![c] = Closed]
          /\ todo' = [d \in Daemons |-> todo[d] \ {c}]
      BY <1>6 DEF Ends
    <2>2. conn'[c] = Closed /\ \A b \in Conns \ {c} : conn'[b] = conn[b]
      BY <1>1, <2>1, TypeFacts
    <2>3. \A b \in Conns \ {c} : \A d \in Daemons : b \in todo[d] => b \in todo'[d]
      BY <2>1
    <2> QED
      BY <1>1, <1>2, <2>1, <2>2, <2>3, OpenConns DEF Served, Handled, Closed
  <1>7. ASSUME NEW d \in Daemons, Tells(d, c) PROVE Served' /\ Handled'
    <2>1. /\ conn' = [conn EXCEPT ![c].at = "told"] /\ c \in todo[d]
          /\ todo' = [todo EXCEPT ![d] = todo[d] \ {c}]
      BY <1>7 DEF Tells
    <2>2. conn[c] \in Open /\ conn[c] # Closed
      BY <1>1, <2>1, TypeFacts DEF ToldAreOpen, InServe, Closed
    <2>3. /\ conn'[c].of = conn[c].of /\ conn'[c].at = "told"
          /\ \A b \in Conns \ {c} : conn'[b] = conn[b]
      BY <1>1, <2>1, <2>2, AtChanges
    <2>4. \A b \in Conns \ {c} : \A e \in Daemons : b \in todo[e] => b \in todo'[e]
      BY <1>1, <2>1, TypeFacts
    <2> QED
      BY <1>1, <1>2, <2>2, <2>3, <2>4, OpenConns DEF Served, Handled, Closed
  <1> QED
    BY <1>3, <1>4, <1>5, <1>6, <1>7 DEF ConnStep

LEMMA TurnStepServed ==
  ASSUME Typed, Served, Handled, NEW t \in Turns, TurnStep(t)
  PROVE  Served' /\ Handled'
  <1>1. TypeOK /\ UNCHANGED <<phase, asked, todo>>
    BY TurnStepTyped DEF Typed
  <1>2. ASSUME NEW c \in Conns, Prompts(c, t) \/ Spawned(c, t) PROVE Served' /\ Handled'
    <2>1. /\ conn[c] \in Open /\ conn'[c] # Closed /\ conn'[c].of = conn[c].of
          /\ conn'[c].at = "open" => conn[c].of \notin asked \/ conn[c].at = "open"
          /\ \A b \in Conns \ {c} : conn'[b] = conn[b] /\ spawning'[b] = spawning[b]
      BY <1>2, TurnStepConn
    <2>2. conn[c] # Closed /\ conn[c].of \in Daemons
      <3>1. conn[c] # Closed
        <4>1. CASE Prompts(c, t)
          BY <4>1 DEF Prompts, Reads, Closed
        <4>2. CASE Spawned(c, t)
          BY <4>2 DEF Spawned, Handled
        <4> QED
          BY <1>2, <4>1, <4>2
      <3> QED
        BY <1>1, <3>1, OpenConns
    <2>3. Handled'
      BY <2>1 DEF Handled
    <2>4. conn[c].of \notin asked => phase[conn[c].of] = "serving"
      BY <2>2 DEF Served
    <2> QED
      BY <1>1, <2>1, <2>2, <2>3, <2>4 DEF Served
  <1>3. ASSUME NEW d \in Daemons, TurnEnds(d, t) PROVE Served' /\ Handled'
    BY <1>1, <1>3 DEF TurnEnds, Served, Handled
  <1> QED
    BY <1>2, <1>3 DEF TurnStep

(***************************************************************************)
(* Whose turns are waited for                                              *)
(***************************************************************************)

(* A turn runs at one daemon.  One that a shutdown does not wait for is    *)
(* late, and those it waits for have ended when it goes on in time.        *)
Disjoint == \A d, e \in Daemons : d # e => running[d] \cap running[e] = {}

Graced ==
  \A d \in Daemons :
    /\ phase[d] = "grace" => running[d] \ waited[d] \subseteq late
    /\ phase[d] = "force" /\ d \notin expired => running[d] \subseteq late

TurnsInv == Disjoint /\ Graced

(* A step of a daemon that loses none of what is late but its own turns.   *)
LEMMA PhaseStepTurns ==
  ASSUME TypeOK, TurnsInv, NEW d \in Daemons, PhaseStep(d)
  PROVE  TurnsInv'
  <1>1. \A e \in Daemons \ {d} : phase'[e] = phase[e]
    BY PhaseStepGoes, GoesFacts
  <1>2. /\ \A e \in Daemons \ {d} : running'[e] = running[e] /\ waited'[e] = waited[e]
        /\ \A e \in Daemons \ {d} : e \notin expired' => e \notin expired
        /\ running'[d] \subseteq running[d]
        /\ late \ running[d] \subseteq late'
    <2>1. CASE Start(d) \/ Probes(d) \/ Clears(d) \/ Binds(d) \/ StartsServing(d)
               \/ StopsListening(d) \/ AllTold(d)
      BY <2>1, TypeFacts
      DEF Start, Probes, Clears, Binds, StartsServing, StopsListening, AllTold, load
    <2>2. CASE ConnsClosed(d) \/ GraceEnds(d) \/ Forces(d)
      BY <2>2, TypeFacts DEF ConnsClosed, GraceEnds, Forces
    <2>3. CASE Unlinks(d) \/ Dies(d)
      BY <2>3, TypeFacts DEF Unlinks, Dies, Exits
    <2> QED
      BY <2>1, <2>2, <2>3 DEF PhaseStep
  <1>3. Disjoint'
    BY <1>2, TypeFacts DEF TurnsInv, Disjoint
  <1>4. /\ phase'[d] = "grace" => running'[d] \ waited'[d] \subseteq late'
        /\ phase'[d] = "force" /\ d \notin expired' => running'[d] \subseteq late'
    <2>1. CASE ConnsClosed(d)
      <3>1. phase'[d] = "grace"
        BY <2>1, GoesFacts, TypeFacts DEF ConnsClosed, Goes
      <3> QED
        BY <2>1, <3>1, TypeFacts DEF ConnsClosed
    <2>2. CASE GraceEnds(d)
      <3>1. phase'[d] = "force" /\ phase[d] = "grace" /\ UNCHANGED <<running, waited, late>>
        BY <2>2, TypeFacts DEF GraceEnds, Goes
      <3>2. waited[d] \cap running[d] = {} \/ d \in expired'
        BY <2>2 DEF GraceEnds
      <3> QED
        BY <3>1, <3>2 DEF TurnsInv, Graced
    <2>3. CASE ~ConnsClosed(d) /\ ~GraceEnds(d)
      <3>1. phase'[d] \notin {"grace", "force"}
        <4>1. PICK p \in Phases \ {"grace", "force"} : Goes(d, p)
          <5>1. {"prepare", "clear", "stopped", "bind", "listen", "serving", "telling",
                 "closing", "unlink", "down"} \subseteq Phases \ {"grace", "force"}
            BY DEF Phases, Starting, Stopping, Over
          <5>2. CASE Start(d) \/ Probes(d) \/ Clears(d) \/ Binds(d)
            BY <5>1, <5>2 DEF Start, Probes, Clears, Binds
          <5>3. CASE StartsServing(d) \/ StopsListening(d) \/ AllTold(d)
            BY <5>1, <5>3 DEF StartsServing, StopsListening, AllTold
          <5>4. CASE Forces(d) \/ Unlinks(d) \/ Dies(d)
            BY <5>1, <5>4 DEF Forces, Unlinks, Dies
          <5> QED
            BY <2>3, <5>2, <5>3, <5>4 DEF PhaseStep
        <4> QED
          BY <4>1, GoesFacts
      <3> QED
        BY <3>1
    <2> QED
      BY <2>1, <2>2, <2>3
  <1>5. ASSUME NEW e \in Daemons \ {d}
        PROVE  /\ phase'[e] = "grace" => running'[e] \ waited'[e] \subseteq late'
               /\ phase'[e] = "force" /\ e \notin expired' => running'[e] \subseteq late'
    <2>1. running[e] \cap late \subseteq late'
      BY <1>2 DEF TurnsInv, Disjoint
    <2> QED
      BY <1>1, <1>2, <2>1 DEF TurnsInv, Graced
  <1> QED
    BY <1>3, <1>4, <1>5 DEF TurnsInv, Graced

(* A turn that starts is of one daemon.                                    *)
LEMMA TurnStarts ==
  ASSUME TypeOK, TurnsInv, NEW t \in Turns, NEW d \in Daemons,
         \A e \in Daemons : t \notin running[e],
         running' = [running EXCEPT ![d] = running[d] \cup {t}], late \subseteq late',
         phase[d] \in {"grace", "force"} => t \in late',
         phase' = phase, waited' = waited, expired' = expired
  PROVE  TurnsInv'
  <1>1. running'[d] = running[d] \cup {t} /\ \A e \in Daemons \ {d} : running'[e] = running[e]
    BY TypeFacts
  <1>2. Disjoint'
    BY <1>1 DEF TurnsInv, Disjoint
  <1>3. Graced'
    BY <1>1 DEF TurnsInv, Graced
  <1> QED
    BY <1>2, <1>3 DEF TurnsInv

(* No connection reads a prompt once its daemon has chosen whom it waits   *)
(* for, and a turn that starts after a respawn is late by then.            *)
LEMMA TurnStepTurns ==
  ASSUME Typed, Served, Handled, TurnsInv, NEW t \in Turns, TurnStep(t)
  PROVE  TurnsInv'
  <1>1. TypeOK /\ phase' = phase /\ expired' = expired
    BY TurnStepTyped DEF Typed
  <1>2. ASSUME NEW c \in Conns, Prompts(c, t) PROVE TurnsInv'
    <2>1. conn[c] # Closed /\ phase[conn[c].of] \notin {"grace", "force"}
      BY <1>2 DEF Prompts, Reads, Served, Closed
    <2>2. conn[c].of \in Daemons
      BY <1>1, <2>1, OpenConns
    <2>3. /\ late' = late /\ waited' = waited /\ \A e \in Daemons : t \notin running[e]
          /\ \/ running' = running
             \/ running' = [running EXCEPT ![conn[c].of] = running[conn[c].of] \cup {t}]
      BY <1>2 DEF Prompts
    <2>4. CASE running' = running
      BY <1>1, <2>3, <2>4 DEF TurnsInv, Disjoint, Graced
    <2>5. CASE running' = [running EXCEPT ![conn[c].of] = running[conn[c].of] \cup {t}]
      BY <1>1, <2>1, <2>2, <2>3, <2>5, TurnStarts
    <2> QED
      BY <2>3, <2>4, <2>5
  <1>3. ASSUME NEW c \in Conns, Spawned(c, t) PROVE TurnsInv'
    <2>1. conn[c].of \in Daemons
      BY <1>1, <1>3, OpenConns DEF Spawned, Handled
    <2>2. CASE running' = running /\ late' = late
      BY <1>1, <1>3, <2>2 DEF Spawned, TurnsInv, Disjoint, Graced
    <2>3. CASE ~(running' = running /\ late' = late)
      <3>1. /\ \A e \in Daemons : t \notin running[e]
            /\ running' = [running EXCEPT ![conn[c].of] = running[conn[c].of] \cup {t}]
            /\ late \subseteq late' /\ waited' = waited
            /\ phase[conn[c].of] \in {"grace", "force"} => t \in late'
        BY <1>3, <2>3 DEF Spawned
      <3> QED
        BY <1>1, <2>1, <3>1, TurnStarts
    <2> QED
      BY <2>2, <2>3
  <1>4. ASSUME NEW d \in Daemons, TurnEnds(d, t) PROVE TurnsInv'
    <2>1. /\ t \in running[d] /\ running'[d] = running[d] \ {t} /\ late' = late \ {t}
          /\ waited'[d] = waited[d] \ {t}
          /\ \A e \in Daemons \ {d} : running'[e] = running[e] /\ waited'[e] = waited[e]
      BY <1>1, <1>4, TypeFacts DEF TurnEnds
    <2>2. \A e \in Daemons : t \notin running'[e]
      BY <2>1 DEF TurnsInv, Disjoint
    <2>3. Disjoint'
      BY <2>1 DEF TurnsInv, Disjoint
    <2>4. Graced'
      BY <1>1, <2>1, <2>2 DEF TurnsInv, Graced
    <2> QED
      BY <2>3, <2>4 DEF TurnsInv
  <1> QED
    BY <1>2, <1>3, <1>4 DEF TurnStep

-----------------------------------------------------------------------------
(***************************************************************************)
(* The invariant, and what follows                                         *)
(***************************************************************************)
Inv == Typed /\ PathInv /\ Served /\ Handled /\ TurnsInv

LEMMA InitInv == Init => Inv
  <1> SUFFICES ASSUME Init PROVE Inv
    OBVIOUS
  <1>1. Orderly
    BY DEF Init, Orderly, Starting, Stopping, Over
  <1>2. TurnsInv
    BY DEF Init, TurnsInv, Disjoint, Graced
  <1>3. Served /\ Handled
    BY DEF Init, Served, Handled, Closed, Stopping
  <1> QED
    BY <1>1, <1>2, <1>3, InitTyped DEF Inv, PathInv

(* What says nothing of phases, turns and the path.                        *)
LEMMA OthersKeep ==
  ASSUME Inv, UNCHANGED <<sock, phase, running, waited, late, expired, overlap>>
  PROVE  PathInv' /\ TurnsInv'
  BY DEF Inv, PathInv, Orderly, TurnsInv, Disjoint, Graced

LEMMA NextInv ==
  ASSUME Inv, [Next]_vars
  PROVE  Inv'
  <1>1. TypeOK /\ Typed /\ PathInv /\ Served /\ Handled /\ TurnsInv
    BY DEF Inv, Typed
  <1>2. ASSUME NEW d \in Daemons, PhaseStep(d) PROVE Inv'
    BY <1>1, <1>2, PhaseStepTyped, PhaseStepPath, PhaseStepServed, PhaseStepTurns DEF Inv
  <1>3. ASSUME NEW d \in Daemons, Asks(d) PROVE Inv'
    <2>1. Served' /\ Handled'
      BY <1>1, <1>3, AsksTyped DEF Served, Handled
    <2> QED
      BY <1>1, <1>3, <2>1, AsksTyped, OthersKeep DEF Inv
  <1>4. ASSUME NEW c \in Conns, ConnStep(c) PROVE Inv'
    BY <1>1, <1>4, ConnStepTyped, ConnStepServed, OthersKeep DEF Inv
  <1>5. ASSUME NEW t \in Turns, TurnStep(t) PROVE Inv'
    <2>1. Typed' /\ UNCHANGED <<sock, phase, overlap>>
      BY <1>1, <1>5, TurnStepTyped
    <2>2. TurnsInv' /\ Served' /\ Handled'
      BY <1>1, <1>5, TurnStepTurns, TurnStepServed
    <2>3. PathInv'
      BY <1>1, <2>1 DEF PathInv, Orderly
    <2> QED
      BY <2>1, <2>2, <2>3 DEF Inv
  <1>6. CASE UNCHANGED vars
    <2>1. Typed'
      BY <1>1, <1>6, TypeFacts, KeepsTypes DEF vars, Typed, ToldAreOpen
    <2>2. Served' /\ Handled'
      BY <1>1, <1>6 DEF vars, Served, Handled
    <2> QED
      BY <1>6, <2>1, <2>2, OthersKeep DEF vars, Inv
  <1> QED
    BY <1>2, <1>3, <1>4, <1>5, <1>6, NextSteps

LEMMA InvHolds == Spec => []Inv
  <1>1. Inv /\ [Next]_vars => Inv'
    BY NextInv
  <1> QED
    BY <1>1, InitInv, PTL DEF Spec

(* Every variable of the daemons and their connections keeps its type, and *)
(* the connections that a shutdown is yet to tell are its own, and served: *)
(* one that has ended is not among them (Daemon._shutdown).                *)
THEOREM TypeCorrect == Spec => [](TypeOK /\ ToldAreOpen)
  <1>1. Inv => TypeOK /\ ToldAreOpen
    BY DEF Inv, Typed
  <1> QED
    BY <1>1, InvHolds, PTL

(* However many daemons are started on a path, and die there, the one that *)
(* serves is the only one and has its socket at the path                   *)
(* (daemon.py:1340-1386): as long as none starts while another is starting *)
(* or stopping.                                                            *)
THEOREM OneDaemonServes == Spec => []ServesAlone
  <1>1. Inv => ServesAlone
    BY DEF Inv, PathInv, Orderly, ServesAlone, Over
  <1> QED
    BY <1>1, InvHolds, PTL

(* A shutdown whose grace period is not over ends no turn                  *)
(* (daemon.py:1292-1311): for any number of turns and connections, whatever*)
(* ends and starts meanwhile.  The exception is a turn whose prompt waited *)
(* for the respawn of its agent (daemon.py:546) while the connections were *)
(* told and waited for, and that started after the choice of those that    *)
(* are waited for.                                                         *)
THEOREM GraceIsGiven == Spec => TurnsGetGrace
  <1>1. Inv /\ [Next]_vars =>
          [\A d \in Daemons : phase[d] = "force" /\ phase'[d] = "unlink" /\ d \notin expired
             => running[d] \subseteq late]_vars
    BY DEF Inv, TurnsInv, Graced
  <1> QED
    BY <1>1, InvHolds, PTL DEF Spec, TurnsGetGrace

(***************************************************************************)
(* Connection: its queue never holds more than its capacity (part of       *)
(* ConnTypeOK), and its clean-up cuts nothing off.                         *)
(*                                                                         *)
(* The second is not inductive: that nothing of before the clean-up is     *)
(* left when it ends needs that the sentinel is put behind all of that,    *)
(* that what comes later stays behind the sentinel, and that a writer loop *)
(* that has ended, with its client there, has found it (Sentinel).         *)
(***************************************************************************)
Frames == {Frame, Late, Stop}

Sentinel ==
  /\ \A i \in DOMAIN queue : queue[i] # Frame => Ending
  /\ \A i, j \in DOMAIN queue : i < j /\ queue[i] = Stop => queue[j] # Frame
  /\ writer = "done" /\ peer # "gone" => Ending /\ \A i \in DOMAIN queue : queue[i] # Frame
  /\ serve \in {"cancelling", "detaching", "closed"} => writer = "done"

ConnInv == ConnTypeOK /\ Sentinel

(***************************************************************************)
(* Putting a frame in a queue with room, and taking one from a queue that  *)
(* is not empty, keep it within its capacity, and the others in order.     *)
(***************************************************************************)
LEMMA PutFits ==
  ASSUME queue \in Seq(Frames), Len(queue) <= Capacity, ~Full,
         NEW f \in Frames
  PROVE  /\ Append(queue, f) \in Seq(Frames) /\ Len(Append(queue, f)) <= Capacity
         /\ \A i \in DOMAIN Append(queue, f) :
              \/ i \in DOMAIN queue /\ Append(queue, f)[i] = queue[i]
              \/ Append(queue, f)[i] = f /\ \A j \in DOMAIN queue : j < i
  <1>1. Len(queue) \in Nat /\ Capacity \in Nat
    BY CapacityAssumption, LenProperties
  <1>2. Len(queue) < Capacity /\ DOMAIN queue = 1..Len(queue)
    <2>1. Len(queue) < Capacity
      BY <1>1 DEF Full
    <2> QED
      BY <2>1, LenProperties
  <1>3. /\ Append(queue, f) \in Seq(Frames) /\ Len(Append(queue, f)) = Len(queue) + 1
        /\ \A i \in 1..Len(queue) : Append(queue, f)[i] = queue[i]
        /\ Append(queue, f)[Len(queue) + 1] = f
    BY AppendProperties
  <1>4. DOMAIN Append(queue, f) = 1..(Len(queue) + 1)
    BY <1>3, LenProperties
  <1> QED
    BY <1>1, <1>2, <1>3, <1>4

LEMMA TakeFits ==
  ASSUME queue \in Seq(Frames), Len(queue) <= Capacity, queue # <<>>
  PROVE  /\ Tail(queue) \in Seq(Frames) /\ Len(Tail(queue)) <= Capacity
         /\ \A i \in DOMAIN Tail(queue) :
              i \in Nat /\ i + 1 \in DOMAIN queue /\ 1 < i + 1 /\ Tail(queue)[i] = queue[i + 1]
         /\ 1 \in DOMAIN queue /\ Head(queue) = queue[1]
  <1>1. Len(queue) \in Nat /\ Capacity \in Nat /\ DOMAIN queue = 1..Len(queue)
    BY CapacityAssumption, LenProperties
  <1>2. /\ Tail(queue) \in Seq(Frames) /\ Len(Tail(queue)) = Len(queue) - 1
        /\ \A i \in 1..Len(Tail(queue)) : Tail(queue)[i] = queue[i + 1]
        /\ Head(queue) = queue[1]
    BY HeadTailProperties
  <1>3. DOMAIN Tail(queue) = 1..(Len(queue) - 1)
    BY <1>2, LenProperties
  <1>4. Len(Tail(queue)) \in Nat
    BY <1>2, LenProperties
  <1> QED
    BY <1>1, <1>2, <1>3, <1>4

(* What a put does to the order: only before the clean-up is it a frame    *)
(* that has to be written.                                                 *)
LEMMA PutKeeps ==
  ASSUME ConnInv, ~Full, NEW f \in Frames, queue' = Append(queue, f),
         f = Frame => ~Ending, f # Frame => Ending', Ending => Ending',
         writer' = writer, peer' = peer,
         serve' \in {"cancelling", "detaching", "closed"} => serve' = serve
  PROVE  queue' \in Seq(Frames) /\ Len(queue') <= Capacity /\ Sentinel'
  <1>1. queue \in Seq(Frames) /\ Len(queue) <= Capacity /\ Sentinel
    BY DEF ConnInv, ConnTypeOK, Frames
  <1>2. /\ queue' \in Seq(Frames) /\ Len(queue') <= Capacity
        /\ \A i \in DOMAIN queue' :
             \/ i \in DOMAIN queue /\ queue'[i] = queue[i]
             \/ queue'[i] = f /\ \A j \in DOMAIN queue : j < i
    BY <1>1, PutFits
  <1>3. \A i \in DOMAIN queue' : queue'[i] # Frame => Ending'
    BY <1>1, <1>2 DEF Sentinel
  <1>4. \A i, j \in DOMAIN queue' : i < j /\ queue'[i] = Stop => queue'[j] # Frame
    <2>1. CASE f = Frame
      <3>1. \A i \in DOMAIN queue : queue[i] = Frame
        BY <1>1, <2>1 DEF Sentinel
      <3> QED
        BY <1>2, <2>1, <3>1 DEF Frame, Stop
    <2>2. CASE f # Frame
      <3> SUFFICES ASSUME NEW i \in DOMAIN queue', NEW j \in DOMAIN queue',
                          i < j, queue'[i] = Stop, queue'[j] = Frame
                   PROVE  FALSE
        OBVIOUS
      <3>1. j \in DOMAIN queue /\ queue'[j] = queue[j]
        BY <1>2, <2>2
      <3>2. i \in Nat /\ j \in Nat
        BY <1>2, LenProperties
      <3>3. i \in DOMAIN queue /\ queue'[i] = queue[i]
        BY <1>2, <3>1, <3>2
      <3> QED
        BY <1>1, <3>1, <3>3 DEF Sentinel
    <2> QED
      BY <2>1, <2>2
  <1>5. writer' = "done" /\ peer' # "gone"
          => Ending' /\ \A i \in DOMAIN queue' : queue'[i] # Frame
    BY <1>1, <1>2 DEF Sentinel
  <1>6. serve' \in {"cancelling", "detaching", "closed"} => writer' = "done"
    BY <1>1 DEF Sentinel
  <1> QED
    BY <1>2, <1>3, <1>4, <1>5, <1>6 DEF Sentinel

(* ... and a step that leaves the queue alone.                             *)
LEMMA SameQueueKeeps ==
  ASSUME ConnInv, queue' = queue, Ending => Ending',
         writer' = "done" /\ peer' # "gone" => writer = "done" /\ peer # "gone",
         serve' \in {"cancelling", "detaching", "closed"} => writer' = "done"
  PROVE  Sentinel'
  BY DEF ConnInv, Sentinel

(***************************************************************************)
(* CleanUp, the first part of the finally clause, wherever it starts.      *)
(***************************************************************************)
LEMMA CleanUpFits ==
  ASSUME ConnInv, CleanUp, ~Ending, writer' = writer, peer' = peer
  PROVE  /\ queue' \in Seq(Frames) /\ Len(queue') <= Capacity
         /\ alive' = FALSE /\ serve' = "stopping" /\ Sentinel'
  <1>1. serve' = "stopping" /\ Ending' /\ alive' = FALSE
    BY DEF CleanUp, Ending
  <1>2. CASE Full
    BY <1>1, <1>2, SameQueueKeeps DEF CleanUp, ConnInv, ConnTypeOK, Frames
  <1>3. CASE ~Full
    <2>1. queue' = Append(queue, Stop) /\ Stop \in Frames /\ Stop # Frame
      BY <1>3 DEF CleanUp, Frames, Stop, Frame
    <2> QED
      BY <1>1, <1>3, <2>1, PutKeeps
  <1> QED
    BY <1>2, <1>3

(***************************************************************************)
(* ConnInv holds at the start and every step preserves it.                 *)
(***************************************************************************)
LEMMA ConnInitInv == ConnInit => ConnInv
  <1> SUFFICES ASSUME ConnInit PROVE ConnInv
    OBVIOUS
  <1>1. queue \in Seq(Frames) /\ Len(queue) <= Capacity /\ DOMAIN queue = {}
    BY CapacityAssumption, EmptySeq, LenProperties DEF ConnInit
  <1> QED
    BY <1>1 DEF ConnInit, ConnInv, ConnTypeOK, Sentinel, Frames

(* A sender's put.                                                         *)
LEMMA SenderPuts ==
  ASSUME ConnInv, ~Full, Put, serve' = serve, writer' = writer, peer' = peer
  PROVE  queue' \in Seq(Frames) /\ Len(queue') <= Capacity /\ Sentinel'
  <1> DEFINE f == IF Ending THEN Late ELSE Frame
  <1>1. /\ queue' = Append(queue, f) /\ f \in Frames
        /\ f = Frame => ~Ending
        /\ f # Frame => Ending
    BY DEF Put, Frames, Late, Frame
  <1>2. Ending' = Ending
    BY DEF Ending
  <1> HIDE DEF f
  <1> QED
    BY <1>1, <1>2, PutKeeps

LEMMA ConnStepInv == ConnInv /\ [ConnNext]_connVars => ConnInv'
  <1> SUFFICES ASSUME ConnInv, [ConnNext]_connVars PROVE ConnInv'
    OBVIOUS
  <1>0. ConnTypeOK /\ Sentinel
    BY DEF ConnInv
  <1> USE DEF ConnTypeOK, Frames
  <1>1. ASSUME NEW s \in Senders, SendEvent(s) PROVE ConnInv'
    <2>1. CASE Full
      <3>1. Sentinel'
        BY <1>0, <1>1, <2>1, SameQueueKeeps DEF SendEvent, Sentinel, Ending
      <3> QED
        BY <1>0, <1>1, <2>1, <3>1 DEF SendEvent, ConnInv
    <2>2. CASE ~Full
      <3>1. queue' \in Seq(Frames) /\ Len(queue') <= Capacity /\ Sentinel'
        BY <1>1, <2>2, SenderPuts DEF SendEvent
      <3> QED
        BY <1>0, <1>1, <2>2, <3>1 DEF SendEvent, ConnInv
    <2> QED
      BY <2>1, <2>2
  <1>2. ASSUME NEW s \in Senders, SenderResumes(s) PROVE ConnInv'
    <2>1. queue' \in Seq(Frames) /\ Len(queue') <= Capacity /\ Sentinel'
      BY <1>2, SenderPuts DEF SenderResumes
    <2> QED
      BY <1>0, <1>2, <2>1 DEF SenderResumes, ConnInv
  <1>3. CASE WriterTakes
    <2>1. /\ queue' = Tail(queue) /\ queue # <<>> /\ writer = "get"
          /\ writer' = (IF Head(queue) = Stop THEN "done" ELSE "drain")
          /\ UNCHANGED <<alive, attached, senders, serve, watchdog, stale, peer, hungUp>>
      BY <1>3 DEF WriterTakes
    <2>2. /\ queue' \in Seq(Frames) /\ Len(queue') <= Capacity
          /\ \A i \in DOMAIN queue' :
               i \in Nat /\ i + 1 \in DOMAIN queue /\ 1 < i + 1 /\ queue'[i] = queue[i + 1]
          /\ 1 \in DOMAIN queue /\ Head(queue) = queue[1]
      BY <1>0, <2>1, TakeFits
    <2>3. Ending' = Ending
      BY <2>1 DEF Ending
    <2>4. \A i \in DOMAIN queue' : queue'[i] # Frame => Ending'
      BY <1>0, <2>2, <2>3 DEF Sentinel
    <2>5. \A i, j \in DOMAIN queue' : i < j /\ queue'[i] = Stop => queue'[j] # Frame
      BY <1>0, <2>2 DEF Sentinel
    <2>6. writer' = "done" => Ending' /\ \A i \in DOMAIN queue' : queue'[i] # Frame
      <3> SUFFICES ASSUME writer' = "done"
                   PROVE  Ending' /\ \A i \in DOMAIN queue' : queue'[i] # Frame
        OBVIOUS
      <3>1. queue[1] = Stop
        BY <2>1, <2>2
      <3> QED
        BY <1>0, <2>2, <2>3, <3>1 DEF Sentinel, Stop, Frame
    <2>7. serve' \in {"cancelling", "detaching", "closed"} => writer' = "done"
      BY <1>0, <2>1 DEF Sentinel
    <2> QED
      BY <1>0, <2>1, <2>2, <2>4, <2>5, <2>6, <2>7 DEF ConnInv, Sentinel
  <1>4. CASE WriterSent
    <2>1. Sentinel'
      BY <1>0, <1>4, SameQueueKeeps DEF WriterSent, Sentinel, Ending
    <2> QED
      BY <1>0, <1>4, <2>1 DEF WriterSent, ConnInv
  <1>5. CASE WriterFails
    <2>1. Sentinel'
      BY <1>0, <1>5, SameQueueKeeps DEF WriterFails, Sentinel, Ending
    <2> QED
      BY <1>0, <1>5, <2>1 DEF WriterFails, ConnInv
  <1>6. CASE Handshake
    <2>1. CASE CleanUp
      <3>1. ~Ending /\ writer' = writer /\ peer' = peer
        BY <1>6 DEF Handshake, Ending
      <3> QED
        BY <1>0, <1>6, <2>1, <3>1, CleanUpFits DEF Handshake, ConnInv
    <2>2. CASE serve' = "reading" /\ attached' = TRUE /\ UNCHANGED <<alive, queue>>
      <3>1. Sentinel'
        BY <1>0, <1>6, <2>2, SameQueueKeeps DEF Handshake, Sentinel, Ending
      <3> QED
        BY <1>0, <1>6, <2>2, <3>1 DEF Handshake, ConnInv
    <2> QED
      BY <1>6, <2>1, <2>2 DEF Handshake
  <1>7. CASE Request
    <2>0. ~Ending /\ writer' = writer /\ peer' = peer /\ attached' = attached
      BY <1>7 DEF Request, Ending
    <2>1. CASE CleanUp
      BY <1>0, <1>7, <2>0, <2>1, CleanUpFits DEF Request, ConnInv
    <2>2. CASE alive /\ ~Full /\ queue' = Append(queue, Frame) /\ UNCHANGED <<serve, alive>>
      <3>1. queue' \in Seq(Frames) /\ Len(queue') <= Capacity /\ Sentinel'
        BY <1>7, <2>0, <2>2, PutKeeps DEF Ending
      <3> QED
        BY <1>0, <1>7, <2>2, <3>1 DEF Request, ConnInv
    <2>3. CASE alive /\ Full /\ serve' = "replying" /\ UNCHANGED <<queue, alive>>
      <3>1. Sentinel'
        BY <1>0, <1>7, <2>0, <2>3, SameQueueKeeps DEF Sentinel
      <3> QED
        BY <1>0, <1>7, <2>3, <3>1 DEF Request, ConnInv
    <2> QED
      BY <1>7, <2>1, <2>2, <2>3 DEF Request
  <1>8. CASE ReplyResumes
    <2>1. /\ ~Ending /\ writer' = writer /\ peer' = peer /\ ~Full
          /\ queue' = Append(queue, Frame) /\ serve' = "replied"
      BY <1>8 DEF ReplyResumes, Ending
    <2>2. queue' \in Seq(Frames) /\ Len(queue') <= Capacity /\ Sentinel'
      BY <2>1, PutKeeps
    <2> QED
      BY <1>0, <1>8, <2>2 DEF ReplyResumes, ConnInv
  <1>9. CASE ReadNext
    <2>0. ~Ending /\ writer' = writer /\ peer' = peer
      BY <1>9 DEF ReadNext, Ending
    <2>1. CASE CleanUp
      BY <1>0, <1>9, <2>0, <2>1, CleanUpFits DEF ReadNext, ConnInv
    <2>2. CASE alive /\ serve' = "reading" /\ UNCHANGED <<alive, queue>>
      <3>1. Sentinel'
        BY <1>0, <2>0, <2>2, SameQueueKeeps DEF Sentinel
      <3> QED
        BY <1>0, <1>9, <2>2, <3>1 DEF ReadNext, ConnInv
    <2> QED
      BY <1>9, <2>1, <2>2 DEF ReadNext
  <1>10. CASE EndOfInput
    <2>1. CleanUp /\ ~Ending /\ writer' = writer /\ peer' = peer
      BY <1>10 DEF EndOfInput, Ending
    <2> QED
      BY <1>0, <1>10, <2>1, CleanUpFits DEF EndOfInput, ConnInv
  <1>11. CASE Oversize
    <2>1. Sentinel'
      BY <1>0, <1>11, SameQueueKeeps DEF Oversize, Sentinel, Ending
    <2> QED
      BY <1>0, <1>11, <2>1 DEF Oversize, ConnInv
  <1>12. CASE FatalSent
    <2>1. CleanUp /\ ~Ending /\ writer' = writer /\ peer' = peer
      BY <1>12 DEF FatalSent, Ending
    <2> QED
      BY <1>0, <1>12, <2>1, CleanUpFits DEF FatalSent, ConnInv
  <1>13. CASE Cancels \/ Detaches \/ Detached
    <2>1. Sentinel'
      BY <1>0, <1>13, SameQueueKeeps DEF Cancels, Detaches, Detached, Sentinel, Ending
    <2> QED
      BY <1>0, <1>13, <2>1 DEF Cancels, Detaches, Detached, ConnInv
  <1>14. CASE TimePasses
    <2>1. Sentinel'
      BY <1>0, <1>14, SameQueueKeeps DEF TimePasses, tasks, Sentinel, Ending
    <2> QED
      BY <1>0, <1>14, <2>1 DEF TimePasses, tasks, ConnInv
  <1>15. CASE WatchdogFires \/ WatchdogEnds
    <2>1. Sentinel'
      BY <1>0, <1>15, SameQueueKeeps DEF WatchdogFires, WatchdogEnds, Sentinel, Ending
    <2> QED
      BY <1>0, <1>15, <2>1 DEF WatchdogFires, WatchdogEnds, ConnInv
  <1>16. CASE Client
    <2>1. UNCHANGED <<queue, alive, attached, tasks, stale>>
      BY <1>16 DEF Client
    <2>2. /\ peer' \in {"reads", "stalls", "gone"} /\ hungUp' \in BOOLEAN
          /\ peer = "gone" => peer' = "gone"
      BY <1>0, <1>16 DEF Client
    <2>3. Sentinel'
      BY <1>0, <2>1, <2>2, SameQueueKeeps DEF tasks, Sentinel, Ending
    <2> QED
      BY <1>0, <2>1, <2>2, <2>3 DEF tasks, ConnInv
  <1>17. CASE BroadcastShutdown
    <2>1. Sentinel'
      BY <1>0, <1>17, SameQueueKeeps DEF BroadcastShutdown, tasks, Sentinel, Ending
    <2> QED
      BY <1>0, <1>17, <2>1 DEF BroadcastShutdown, tasks, ConnInv
  <1>18. CASE UNCHANGED connVars
    <2>1. Sentinel'
      BY <1>0, <1>18, SameQueueKeeps DEF connVars, tasks, Sentinel, Ending
    <2> QED
      BY <1>0, <1>18, <2>1 DEF connVars, tasks, ConnInv
  <1> QED
    BY <1>1, <1>2, <1>3, <1>4, <1>5, <1>6, <1>7, <1>8, <1>9, <1>10, <1>11, <1>12, <1>13,
       <1>14, <1>15, <1>16, <1>17, <1>18 DEF ConnNext

LEMMA ConnInvHolds == ConnSpec => []ConnInv
  BY ConnInitInv, ConnStepInv, PTL DEF ConnSpec

(* The connection's queue never exceeds _CONNECTION_QUEUE_SIZE, and every  *)
(* variable has its type, whatever the number of senders.                  *)
THEOREM ConnTypeCorrect == ConnSpec => []ConnTypeOK
  <1>1. ConnInv => ConnTypeOK
    BY DEF ConnInv
  <1> QED
    BY <1>1, ConnInvHolds, PTL

(* When serve() has ended, and the client is still there to take frames,   *)
(* every frame that was put before the clean-up began has been written,    *)
(* for any number of senders and any capacity: the sentinel is behind all  *)
(* of them, and the clean-up waits for a writer loop that has found it     *)
(* (daemon.py:184-203).                                                    *)
THEOREM NothingIsCutOff == ConnSpec => []NothingCutOff
  <1>1. ConnInv => NothingCutOff
    BY DEF ConnInv, Sentinel, NothingCutOff
  <1> QED
    BY <1>1, ConnInvHolds, PTL
==============================================================================
