----------------------------- MODULE Lifecycle -----------------------------
(***************************************************************************)
(* Daemons that start, serve, are asked to stop, stop and die, on one      *)
(* socket path, and what a shutdown does with the connections, the turns   *)
(* and the agent processes of the daemon.                                  *)
(*                                                                         *)
(* Source: daemon.py, class Daemon and _prepare_socket_path; in session.py *)
(* SessionTable.shutdown.  What asyncio does for start_unix_server and     *)
(* Server.close is modelled as the library does it: a socket found at the  *)
(* path is removed before the bind; close() stops listening, and newer     *)
(* versions remove the path if it is still their socket.                   *)
(*                                                                         *)
(* Daemons are operating system processes, so each system call on the path *)
(* is a step.  A turn stands for its session, and is told by its name.     *)
(* What one connection does is module Connection.                          *)
(***************************************************************************)
EXTENDS Naturals

CONSTANTS
  Daemons,     (* processes, each of which may be started again            *)
  Conns,       (* client connections                                       *)
  Turns,       (* turns of sessions                                        *)
  None,        (* no daemon                                                *)
  MaxStarts    (* bound: starts of daemons                                 *)

ASSUME NoneAssumption == None \notin Daemons
ASSUME BoundAssumption == MaxStarts \in Nat

VARIABLES
  sock,      (* the daemon whose socket is at the path, or None            *)
  phase,     (* phase[d]: where start, serve_forever or _shutdown is       *)
  asked,     (* daemons whose _shutdown_event is set                       *)
  conn,      (* conn[c]: its daemon, and how far serve() is                *)
  stuck,     (* connections whose client does not read what is written     *)
  todo,      (* todo[d]: connections that are yet to be told               *)
  spawning,  (* spawning[c]: the turn whose prompt waits for the respawn   *)
             (* of its agent, in the handler of c                          *)
  running,   (* running[d]: turns in flight                                *)
  waited,    (* waited[d]: turns that the grace period waits for           *)
  late,      (* history: turns whose respawn was over when their daemon    *)
             (* had chosen whom it waits for                               *)
  expired,   (* daemons whose shutdown_grace_s is over                     *)
  starts,    (* starts so far                                              *)
  overlap    (* history: a daemon was starting while another was starting, *)
             (* or stopping                                                *)

vars == <<sock, phase, asked, conn, stuck, todo, spawning, running, waited, late, expired,
          starts, overlap>>

Starting == {"prepare", "clear", "bind", "listen"}
Stopping == {"telling", "closing", "grace", "force", "unlink"}
Over     == {"down", "stopped"}

Closed == [of |-> None, at |-> "closed"]
InServe == {"greeting", "open", "leaving"}
ConnsOf(d, at) == {c \in Conns : conn[c].of = d /\ conn[c].at \in at}

Init ==
  /\ sock = None
  /\ phase = [d \in Daemons |-> "down"]
  /\ asked = {}
  /\ conn = [c \in Conns |-> Closed]
  /\ stuck = {}
  /\ todo = [d \in Daemons |-> {}]
  /\ spawning = [c \in Conns |-> {}]
  /\ running = [d \in Daemons |-> {}] /\ waited = [d \in Daemons |-> {}]
  /\ late = {} /\ expired = {} /\ starts = 0 /\ overlap = FALSE

(* Every change of a phase says whether two daemons are in each other's    *)
(* way from now on.                                                        *)
Goes(d, p) ==
  /\ phase' = [phase EXCEPT ![d] = p]
  /\ overlap' = (overlap \/ \E a, b \in Daemons : a # b /\ phase'[a] \in Starting
                                                /\ phase'[b] \in Starting \cup Stopping)

load == <<conn, stuck, todo, spawning, running, waited, late, expired>>

(***************************************************************************)
(* Starting: _prepare_socket_path, and the server                          *)
(***************************************************************************)
Start(d) ==
  /\ phase[d] \in Over /\ starts < MaxStarts
  /\ starts' = starts + 1
  /\ Goes(d, "prepare")
  /\ asked' = asked \ {d} /\ expired' = expired \ {d}
  /\ UNCHANGED <<sock, conn, stuck, todo, spawning, running, waited, late>>

(* A daemon that listens on the socket at the path accepts.                *)
Listens(d) == phase[d] = "serving"

(* Mutant: nobody connects to the socket.                                  *)
ProbesNothing(d) ==
  /\ phase[d] = "prepare"
  /\ Goes(d, "clear")
  /\ UNCHANGED <<sock, asked, load, starts>>

(* Another daemon answers at the path: exit 1.  Else what is there is      *)
(* stale.                                                                  *)
Probes(d) ==
  /\ phase[d] = "prepare"
  /\ Goes(d, IF sock # None /\ Listens(sock) THEN "stopped" ELSE "clear")
  /\ UNCHANGED <<sock, asked, load, starts>>

(* Whatever socket is at the path by now is unlinked.                      *)
Clears(d) ==
  /\ phase[d] = "clear"
  /\ sock' = None
  /\ Goes(d, "bind")
  /\ UNCHANGED <<asked, load, starts>>

(* The bind fails if there is a file again.                                *)
Binds(d) ==
  /\ phase[d] = "bind"
  /\ IF sock = None THEN sock' = d /\ Goes(d, "listen") ELSE Goes(d, "stopped") /\ UNCHANGED sock
  /\ UNCHANGED <<asked, load, starts>>

StartsServing(d) ==
  /\ phase[d] = "listen"
  /\ Goes(d, "serving")
  /\ UNCHANGED <<sock, asked, load, starts>>

(***************************************************************************)
(* Serving: connections, and turns                                         *)
(***************************************************************************)
Connects(c) ==
  /\ conn[c] = Closed /\ sock # None /\ Listens(sock)
  /\ conn' = [conn EXCEPT ![c] = [of |-> sock, at |-> "accepted"]]
  /\ UNCHANGED <<sock, phase, asked, stuck, todo, spawning, running, waited, late, expired,
                 starts, overlap>>

(* The task of _on_client begins, and puts the connection into             *)
(* _connections.                                                           *)
Serves(c) ==
  /\ conn[c].at = "accepted"
  /\ conn' = [conn EXCEPT ![c].at = "greeting"]
  /\ UNCHANGED <<sock, phase, asked, stuck, todo, spawning, running, waited, late, expired,
                 starts, overlap>>

(* Mutant: the loop is entered whether the daemon is asked to stop or not. *)
GreetsAnyway(c) ==
  /\ conn[c].at = "greeting"
  /\ conn' = [conn EXCEPT ![c].at = "open"]
  /\ UNCHANGED <<sock, phase, asked, stuck, todo, spawning, running, waited, late, expired,
                 starts, overlap>>

(* After the handshake, at the head of _read_loop: no request is read once *)
(* the daemon is asked to stop.                                            *)
AtLoopHead(c) == IF conn[c].of \in asked THEN "leaving" ELSE "open"

Greets(c) ==
  /\ conn[c].at = "greeting"
  /\ conn' = [conn EXCEPT ![c].at = AtLoopHead(c)]
  /\ UNCHANGED <<sock, phase, asked, stuck, todo, spawning, running, waited, late, expired,
                 starts, overlap>>

(* The client of a connection stops reading, or reads on.                  *)
Stalls(c) ==
  /\ conn[c].at \in InServe
  /\ stuck' = IF c \in stuck THEN stuck \ {c} ELSE stuck \cup {c}
  /\ UNCHANGED <<sock, phase, asked, conn, todo, spawning, running, waited, late, expired,
                 starts, overlap>>

(* Mutant: the connection that ended stays in _connections.                *)
EndsListed(c) ==
  /\ conn[c].at \in InServe \cup {"told"} /\ spawning[c] = {}
  /\ conn' = [conn EXCEPT ![c].of = None]
  /\ stuck' = stuck \ {c}
  /\ todo' = [d \in Daemons |-> todo[d] \ {c}]
  /\ UNCHANGED <<sock, phase, asked, spawning, running, waited, late, expired, starts, overlap>>

(* serve() ends, with no handler under way: the client left, or was told,  *)
(* or the loop saw that the daemon stops.  Its sessions stay, those with a *)
(* turn to finish it.                                                      *)
Ends(c) ==
  /\ conn[c].at \in InServe \cup {"told"} /\ spawning[c] = {}
  /\ conn' = [conn EXCEPT ![c] = Closed]
  /\ stuck' = stuck \ {c}
  /\ todo' = [d \in Daemons |-> todo[d] \ {c}]
  /\ UNCHANGED <<sock, phase, asked, spawning, running, waited, late, expired, starts, overlap>>

(* A line that was read before the transport was closed is handled, while  *)
(* wait_closed waits at the latest.                                        *)
Reads(c) ==
  \/ conn[c].at = "open"
  \/ conn[c].at = "told" /\ phase[conn[c].of] \in {"telling", "closing"}

(* session.prompt: with the agent running the turn starts; else the        *)
(* handler waits for the respawn.                                          *)
Prompts(c, t) ==
  /\ Reads(c) /\ spawning[c] = {} /\ \A d \in Daemons : t \notin running[d]
  /\ \/ /\ running' = [running EXCEPT ![conn[c].of] = @ \cup {t}]
        /\ conn' = [conn EXCEPT ![c].at = AtLoopHead(c)]
        /\ UNCHANGED spawning
     \/ /\ spawning' = [spawning EXCEPT ![c] = {t}]
        /\ UNCHANGED <<running, conn>>
  /\ UNCHANGED <<sock, phase, asked, stuck, todo, waited, late, expired, starts, overlap>>

(* The respawn ends, however long it took and whatever the daemon does by  *)
(* now: with an error, or the turn starts.                                 *)
Spawned(c, t) ==
  /\ t \in spawning[c]
  /\ spawning' = [spawning EXCEPT ![c] = {}]
  /\ conn' = [conn EXCEPT ![c].at = AtLoopHead(c)]
  /\ \/ UNCHANGED <<running, late>>
     \/ /\ \A d \in Daemons : t \notin running[d]
        /\ running' = [running EXCEPT ![conn[c].of] = @ \cup {t}]
        /\ late' = late \cup IF phase[conn[c].of] \in {"grace", "force", "unlink"} THEN {t} ELSE {}
  /\ UNCHANGED <<sock, phase, asked, stuck, todo, waited, expired, starts, overlap>>

TurnEnds(d, t) ==
  /\ t \in running[d]
  /\ running' = [running EXCEPT ![d] = @ \ {t}]
  /\ waited' = [waited EXCEPT ![d] = @ \ {t}]
  /\ late' = late \ {t}
  /\ UNCHANGED <<sock, phase, asked, conn, stuck, todo, spawning, expired, starts, overlap>>

(***************************************************************************)
(* Stopping                                                                *)
(***************************************************************************)
(* SIGTERM, once the handlers are installed.                               *)
Asks(d) ==
  /\ phase[d] = "serving" /\ d \notin asked
  /\ asked' = asked \cup {d}
  /\ UNCHANGED <<sock, phase, load, starts, overlap>>

(* The listener is closed, and the connections there are by now will be    *)
(* told one after the other.                                               *)
StopsListening(d) ==
  /\ phase[d] = "serving" /\ d \in asked
  /\ sock' \in {sock} \cup (IF sock = d THEN {None} ELSE {})
  /\ Goes(d, "telling")
  /\ todo' = [todo EXCEPT ![d] = ConnsOf(d, InServe)]
  /\ UNCHANGED <<asked, conn, stuck, spawning, running, waited, late, expired, starts>>

(* broadcast_shutdown returns once the client has taken what was written,  *)
(* and then closes the transport.                                          *)
Tells(d, c) ==
  /\ phase[d] = "telling" /\ c \in todo[d] /\ c \notin stuck
  /\ conn' = [conn EXCEPT ![c].at = "told"]
  /\ todo' = [todo EXCEPT ![d] = @ \ {c}]
  /\ UNCHANGED <<sock, phase, asked, stuck, spawning, running, waited, late, expired,
                 starts, overlap>>

AllTold(d) ==
  /\ phase[d] = "telling" /\ todo[d] = {}
  /\ Goes(d, "closing")
  /\ UNCHANGED <<sock, asked, load, starts>>

(* wait_closed, with its time limit: then the turns in flight get their    *)
(* grace.                                                                  *)
ConnsClosed(d) ==
  /\ phase[d] = "closing"
  /\ waited' = [waited EXCEPT ![d] = running[d]]
  /\ Goes(d, "grace")
  /\ UNCHANGED <<sock, asked, conn, stuck, todo, spawning, running, late, expired, starts>>

(* Mutant: the wait for the turns has no limit.                            *)
GraceUncapped(d) ==
  /\ phase[d] = "grace" /\ waited[d] \cap running[d] = {}
  /\ Goes(d, "force")
  /\ UNCHANGED <<sock, asked, conn, stuck, todo, spawning, running, waited, late, expired,
                 starts>>

(* shutdown_grace_s, unless all the turns that are waited for end before.  *)
GraceEnds(d) ==
  /\ phase[d] = "grace"
  /\ \/ waited[d] \cap running[d] = {} /\ UNCHANGED expired
     \/ expired' = expired \cup {d}
  /\ Goes(d, "force")
  /\ UNCHANGED <<sock, asked, conn, stuck, todo, spawning, running, waited, late, starts>>

(* The sessions are removed, and the agent processes closed.               *)
Forces(d) ==
  /\ phase[d] = "force"
  /\ running' = [running EXCEPT ![d] = {}]
  /\ late' = late \ running[d]
  /\ Goes(d, "unlink")
  /\ UNCHANGED <<sock, asked, conn, stuck, todo, spawning, waited, expired, starts>>

(* The process is gone, with its connections, turns and agent processes.   *)
Exits(d) ==
  /\ conn' = [c \in Conns |-> IF conn[c].of = d THEN Closed ELSE conn[c]]
  /\ stuck' = stuck \ {c \in Conns : conn[c].of = d}
  /\ todo' = [todo EXCEPT ![d] = {}]
  /\ spawning' = [c \in Conns |-> IF conn[c].of = d THEN {} ELSE spawning[c]]
  /\ running' = [running EXCEPT ![d] = {}] /\ waited' = [waited EXCEPT ![d] = {}]
  /\ late' = late \ running[d]

(* The path is unlinked, whoever's socket is there.                        *)
Unlinks(d) ==
  /\ phase[d] = "unlink"
  /\ sock' = None
  /\ Goes(d, "stopped")
  /\ Exits(d)
  /\ UNCHANGED <<asked, expired, starts>>

(* The process dies: its socket file stays.                                *)
Dies(d) ==
  /\ phase[d] \notin Over
  /\ Goes(d, "down")
  /\ Exits(d)
  /\ UNCHANGED <<sock, asked, expired, starts>>

Next ==
  \/ \E d \in Daemons : Start(d)
  \/ \E d \in Daemons : Probes(d)
  \/ \E d \in Daemons : Clears(d)
  \/ \E d \in Daemons : Binds(d)
  \/ \E d \in Daemons : StartsServing(d)
  \/ \E c \in Conns : Connects(c)
  \/ \E c \in Conns : Serves(c)
  \/ \E c \in Conns : Greets(c)
  \/ \E c \in Conns : Stalls(c)
  \/ \E c \in Conns : Ends(c)
  \/ \E c \in Conns, t \in Turns : Prompts(c, t)
  \/ \E c \in Conns, t \in Turns : Spawned(c, t)
  \/ \E d \in Daemons, t \in Turns : TurnEnds(d, t)
  \/ \E d \in Daemons : Asks(d)
  \/ \E d \in Daemons : StopsListening(d)
  \/ \E d \in Daemons, c \in Conns : Tells(d, c)
  \/ \E d \in Daemons : AllTold(d)
  \/ \E d \in Daemons : ConnsClosed(d)
  \/ \E d \in Daemons : GraceEnds(d)
  \/ \E d \in Daemons : Forces(d)
  \/ \E d \in Daemons : Unlinks(d)
  \/ \E d \in Daemons : Dies(d)

(* Fairness: a daemon that starts or stops goes on, its timers fire, and   *)
(* what is written to a client that reads is taken.  Nothing is assumed of *)
(* clients and agents.                                                     *)
Fairness ==
  \A d \in Daemons :
    /\ WF_vars(Probes(d)) /\ WF_vars(Clears(d)) /\ WF_vars(Binds(d)) /\ WF_vars(StartsServing(d))
    /\ WF_vars(StopsListening(d)) /\ WF_vars(AllTold(d)) /\ WF_vars(ConnsClosed(d))
    /\ WF_vars(GraceEnds(d)) /\ WF_vars(Forces(d)) /\ WF_vars(Unlinks(d))
    /\ \A c \in Conns : SF_vars(Tells(d, c))

Spec == Init /\ [][Next]_vars /\ Fairness

-----------------------------------------------------------------------------
(* Every variable has its type.                                            *)
TypeOK ==
  /\ sock \in Daemons \cup {None}
  /\ phase \in [Daemons -> Starting \cup Stopping \cup Over \cup {"serving"}]
  /\ asked \subseteq Daemons /\ expired \subseteq Daemons
  /\ conn \in [Conns -> {Closed} \cup [of : Daemons, at : InServe \cup {"accepted", "told"}]]
  /\ stuck \subseteq Conns /\ todo \in [Daemons -> SUBSET Conns]
  /\ spawning \in [Conns -> SUBSET Turns]
  /\ running \in [Daemons -> SUBSET Turns] /\ waited \in [Daemons -> SUBSET Turns]
  /\ late \subseteq Turns /\ starts \in 0..MaxStarts /\ overlap \in BOOLEAN

(* A daemon that serves is the only one, and its socket is the one at the  *)
(* path, whatever sockets daemons that died have left there, and however   *)
(* often a second one is started (daemon.py:1340-1386): as long as none    *)
(* starts while another is starting or stopping.                           *)
ServesAlone ==
  ~overlap => \A d \in Daemons : phase[d] = "serving"
                => sock = d /\ \A e \in Daemons \ {d} : phase[e] # "serving"

(* No turn is killed by a shutdown whose grace period is not over          *)
(* (daemon.py:1292-1311), whatever turns there are when the connections    *)
(* have closed or had not in time: so none is prompted after the choice of *)
(* those that are waited for, on any connection, however late it was       *)
(* accepted.  The exception: a turn whose prompt was handled before, and   *)
(* whose agent took longer to respawn than the connections were waited for *)
(* (daemon.py:546).                                                        *)
TurnsGetGrace ==
  [][\A d \in Daemons : phase[d] = "force" /\ phase'[d] = "unlink" /\ d \notin expired
       => running[d] \subseteq late]_vars

(* A daemon that is asked to stop does, with whatever turns and            *)
(* connections it has, if every client reads what it is sent, now and then *)
(* (Daemon._shutdown).                                                     *)
StopsWhenRead ==
  (\A c \in Conns : []<>(c \notin stuck))
    => \A d \in Daemons : (d \in asked /\ phase[d] = "serving") ~> (phase[d] \in Over)

(* The same "so a stuck connection can't prevent the rest of the shutdown  *)
(* sequence from running" (daemon.py:1283-1284), for every client.  The    *)
(* time limit is on wait_closed; the frame before it has none.             *)
StuckCannotPrevent ==
  \A d \in Daemons : (d \in asked /\ phase[d] = "serving") ~> (phase[d] \in Over)

(* "If a socket exists and connects, another daemon is live" (daemon.py    *)
(* 1334): two daemons never serve at a time.  One may find the socket of   *)
(* the other stale between its bind and its listen, or while it stops.     *)
OneServes == \A d, e \in Daemons : phase[d] = "serving" /\ phase[e] = "serving" => d = e
=============================================================================
