---------------------------- MODULE EventDelivery ----------------------------
(***************************************************************************)
(* What a session's event stream promises to the programs that follow it,  *)
(* with no ring, no log and no queue: the session owes every subscriber    *)
(* the events it has not been told about, and such a debt is settled only  *)
(* by telling the subscriber, or by the end of its connection.  What a     *)
(* client is owed when it subscribes is measured by its own bookmark.      *)
(*                                                                         *)
(* An event is named by its sequence number.  "Telling" is either showing  *)
(* the event or announcing that it can no longer be shown.                 *)
(***************************************************************************)
EXTENDS Naturals

CONSTANTS Clients, Events

VARIABLES
  history,     (* the events the session still knows of                    *)
  subscribed,  (* the clients that follow the session live                 *)
  owed,        (* owed[c]: the events c is still to be told about          *)
  bookmark     (* bookmark[c]: c asks for the events after this one        *)

vars == <<history, subscribed, owed, bookmark>>

Init ==
  /\ history = {}
  /\ subscribed = {}
  /\ owed = [c \in Clients |-> {}]
  /\ bookmark = [c \in Clients |-> 0]

(* A new event, later than all before it, is owed to every subscriber.     *)
Publish(n) ==
  /\ \A m \in history : m < n
  /\ history' = history \cup {n}
  /\ owed' = [c \in Clients |-> IF c \in subscribed THEN owed[c] \cup {n}
                                                    ELSE owed[c]]
  /\ UNCHANGED <<subscribed, bookmark>>

(* A client is owed at least all that is later than its bookmark.  Another *)
(* client may lose its subscription to it (a takeover), but keeps what it  *)
(* is owed.                                                                *)
Subscribe(c) ==
  /\ subscribed' \subseteq subscribed \cup {c}
  /\ c \in subscribed'
  /\ owed[c] \cup {n \in history : n > bookmark[c]} \subseteq owed'[c]
  /\ owed' = [owed EXCEPT ![c] = owed'[c]]
  /\ UNCHANGED <<history, bookmark>>

(* A client that wants only what comes next is owed nothing of the past.   *)
SubscribeLive(c) ==
  /\ subscribed' = subscribed \cup {c}
  /\ UNCHANGED <<history, owed, bookmark>>

Unsubscribe(c) ==
  /\ subscribed' = subscribed \ {c}
  /\ UNCHANGED <<history, owed, bookmark>>

(* The client is told about some events, and may move its bookmark on.     *)
Tell(c) ==
  /\ owed'[c] \subseteq owed[c]
  /\ owed' = [owed EXCEPT ![c] = owed'[c]]
  /\ bookmark'[c] >= bookmark[c]
  /\ bookmark' = [bookmark EXCEPT ![c] = bookmark'[c]]
  /\ UNCHANGED <<history, subscribed>>

(* The client went away: nothing is owed on a connection that is gone.     *)
Leave(c) ==
  /\ subscribed' = subscribed \ {c}
  /\ owed' = [owed EXCEPT ![c] = {}]
  /\ UNCHANGED <<history, bookmark>>

(* The session is built anew from what was stored of it.                   *)
Recover ==
  /\ history' \subseteq history
  /\ subscribed' = {}
  /\ \/ owed' = owed
     \/ owed' = [c \in Clients |-> {}]
  /\ UNCHANGED bookmark

Next ==
  \/ \E n \in Events : Publish(n)
  \/ \E c \in Clients : \/ Subscribe(c)
                        \/ SubscribeLive(c)
                        \/ Unsubscribe(c)
                        \/ Tell(c)
                        \/ Leave(c)
  \/ Recover

Spec == Init /\ [][Next]_vars
=============================================================================
