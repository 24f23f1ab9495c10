------------------------------- MODULE Turns -------------------------------
(***************************************************************************)
(* What a client may count on of the turns of its sessions, with no agent  *)
(* process, no tasks and no states: a session that holds a turn starts no  *)
(* other, and a turn ends once, with a frame that closes it, unless it is  *)
(* torn down with its session, hit by a cancel that was meant for a turn   *)
(* before it, or let go of before it had begun.  A session lets go of a    *)
(* turn when the process is lost, or the session is loaded anew.           *)
(***************************************************************************)
EXTENDS Naturals, Sequences

CONSTANTS Sessions, MaxTurns

VARIABLE turns   (* the turns so far, as records                           *)

Turn(session, outcome, asked, held, begun, frames) ==
  [session |-> session, outcome |-> outcome, asked |-> asked, held |-> held,
   begun |-> begun, frames |-> frames]

Running(t) == turns[t].outcome = "running"

Init == turns = <<>>

(* A prompt: unless the session holds a turn.                              *)
Begin(s) ==
  /\ Len(turns) < MaxTurns
  /\ ~\E t \in DOMAIN turns : turns[t].session = s /\ turns[t].held
  /\ turns' = Append(turns, Turn(s, "running", FALSE, TRUE, FALSE, 0))

(* While it runs, its cancel may be asked for, the agent be asked, and its *)
(* session may let go of it; then it may be told of a crash.               *)
GoesOn(t) ==
  /\ Running(t)
  /\ \E asked \in {turns[t].asked, TRUE}, held \in {turns[t].held, FALSE},
        begun \in {turns[t].begun, TRUE}, frames \in {turns[t].frames, 1} :
       /\ frames = 1 => ~held
       /\ turns'[t] = Turn(turns[t].session, "running", asked, held, begun, frames)

(* A turn that nobody asked to cancel, after one of its session that was.  *)
Mistaken(t) ==
  /\ ~turns[t].asked
  /\ \E u \in 1..(t - 1) : turns[u].session = turns[t].session /\ turns[u].asked

(* A turn that its session does not hold, and the agent was never asked.   *)
LetGo(t) == ~turns[t].held /\ ~turns[t].begun

(* It ends: closed by its result, its error or the report of a crash, and  *)
(* by a second frame only if it was cancelled.                             *)
Ends(t) ==
  /\ Running(t)
  /\ \E outcome \in {"closed", "torn", "unclosed"},
        begun \in BOOLEAN, frames \in {turns[t].frames, turns[t].frames + 1} :
       /\ frames > 1 => turns[t].asked
       /\ outcome = "closed" => frames >= 1
       /\ outcome = "unclosed" => frames = 0 /\ (Mistaken(t) \/ LetGo(t))
       /\ turns'[t] = Turn(turns[t].session, outcome, turns[t].asked, FALSE, begun, frames)

(* A crash, or the end of a process, befalls many turns at once.           *)
Proceed ==
  /\ DOMAIN turns' = DOMAIN turns
  /\ \A t \in DOMAIN turns : turns'[t] = turns[t] \/ GoesOn(t) \/ Ends(t)

Next == (\E s \in Sessions : Begin(s)) \/ Proceed

Spec == Init /\ [][Next]_turns
=============================================================================
