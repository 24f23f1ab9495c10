-------------------------- MODULE Supervisor_proofs --------------------------
(***************************************************************************)
(* Proofs about Supervisor, for any profiles, handlers, versions and       *)
(* number of process objects.                                              *)
(***************************************************************************)
EXTENDS Supervisor, SequenceTheorems, TLAPS

ObjectType ==
  [name : Names, children : Nat, closing : BOOLEAN, conn : BOOLEAN,
   lock : Handlers \cup {Nobody}, on : SUBSET Handlers]

(* What a handler is doing, when D are the numbers of the objects.         *)
Busy(D) ==
  [op : {"open", "start", "stop", "update", "delete"}, name : Names,
   at : {"lock", "exec", "init", "new", "broken", "close", "closed"},
   object : D, spec : 0..MaxVersion]

(***************************************************************************)
(* What the types say                                                      *)
(***************************************************************************)
LEMMA ObjectFacts ==
  ASSUME TypeOK
  PROVE  /\ object \in Seq(ObjectType) /\ Len(object) \in Nat
         /\ DOMAIN object = 1..Len(object) /\ 0 \notin DOMAIN object
         /\ \A o \in DOMAIN object : object[o] \in ObjectType
  <1>1. object \in Seq(ObjectType)
    BY DEF TypeOK, ObjectType
  <1> HIDE DEF ObjectType
  <1>2. Len(object) \in Nat /\ DOMAIN object = 1..Len(object)
    BY <1>1, LenProperties
  <1> QED
    BY <1>1, <1>2, ElementOfSeq

LEMMA DoingFacts ==
  ASSUME TypeOK
  PROVE  /\ doing \in [Handlers -> {Rest} \cup Busy(DOMAIN object)]
         /\ Rest.at = "none" /\ Rest.object = 0 /\ Rest.op = "none"
         /\ \A h \in Handlers : doing[h].at = "none" => doing[h] = Rest
         /\ \A h \in Handlers : doing[h].at # "none" => doing[h] \in Busy(DOMAIN object)
         /\ \A h \in Handlers : doing[h].object \in DOMAIN object \cup {0}
  <1>1. doing \in [Handlers -> {Rest} \cup Busy(DOMAIN object)]
    BY DEF TypeOK, Busy
  <1>2. Rest.at = "none" /\ Rest.object = 0 /\ Rest.op = "none"
    BY DEF Rest
  <1>3. \A x \in Busy(DOMAIN object) : x.at # "none" /\ x.object \in DOMAIN object
    BY DEF Busy
  <1>4. \A h \in Handlers : doing[h] = Rest \/ doing[h] \in Busy(DOMAIN object)
    BY <1>1
  <1> QED
    BY <1>1, <1>2, <1>3, <1>4

LEMMA OtherFacts ==
  ASSUME TypeOK
  PROVE  /\ profiles \in [Names -> 0..MaxVersion] /\ stored \in [Names -> 0..MaxVersion]
         /\ Len(object) <= MaxObjects
         /\ \A n \in Names : slot[n] = 0 \/ slot[n] \in DOMAIN object
         /\ slot \in [Names -> 0..Len(object)]
         /\ idle \subseteq Names
         /\ table \in [Handlers -> Names \cup {NoName}]
         /\ handle \in [Handlers -> 0..Len(object)] /\ viewOnly \subseteq Handlers
         /\ \A h \in Handlers : handle[h] = 0 \/ handle[h] \in DOMAIN object
         /\ reaper \in [at : {"asleep", "scan", "close", "closed"}, todo : SUBSET Names,
                        name : Names \cup {NoName}, object : 0..Len(object)]
         /\ excused \subseteq DOMAIN object
  <1>1. Len(object) \in Nat /\ DOMAIN object = 1..Len(object)
    BY ObjectFacts
  <1> QED
    <2>1. /\ slot \in [Names -> 0..Len(object)] /\ handle \in [Handlers -> 0..Len(object)]
          /\ viewOnly \subseteq Handlers
          /\ profiles \in [Names -> 0..MaxVersion] /\ stored \in [Names -> 0..MaxVersion]
          /\ Len(object) <= MaxObjects /\ idle \subseteq Names
          /\ table \in [Handlers -> Names \cup {NoName}] /\ excused \subseteq DOMAIN object
      BY DEF TypeOK
    <2>2. reaper \in [at : {"asleep", "scan", "close", "closed"}, todo : SUBSET Names,
                      name : Names \cup {NoName}, object : 0..Len(object)]
      BY DEF TypeOK
    <2>3. /\ \A n \in Names : slot[n] = 0 \/ slot[n] \in DOMAIN object
          /\ \A h \in Handlers : handle[h] = 0 \/ handle[h] \in DOMAIN object
      BY <1>1, <2>1
    <2> QED
      BY <2>1, <2>2, <2>3

(* One object is changed.                                                  *)
LEMMA Touches ==
  ASSUME NEW s \in Seq(ObjectType), NEW o \in DOMAIN s, NEW x \in ObjectType
  PROVE  /\ [s EXCEPT ![o] = x] \in Seq(ObjectType)
         /\ Len([s EXCEPT ![o] = x]) = Len(s)
         /\ DOMAIN [s EXCEPT ![o] = x] = DOMAIN s
         /\ [s EXCEPT ![o] = x][o] = x
         /\ \A p \in DOMAIN s \ {o} : [s EXCEPT ![o] = x][p] = s[p]
  <1>1. DOMAIN s = 1..Len(s)
    BY LenProperties
  <1> QED
    BY <1>1, ExceptSeq

LEMMA BrokenFacts ==
  ASSUME TypeOK, NEW o
  PROVE  /\ Broken(o, doing) \in [Handlers -> {Rest} \cup Busy(DOMAIN object)]
         /\ \A g \in Handlers :
              \/ Broken(o, doing)[g] = doing[g]
              \/ doing[g].at = "new" /\ Broken(o, doing)[g] = [doing[g] EXCEPT !.at = "broken"]
  <1>1. \A g \in Handlers : doing[g].at = "new" =>
          [doing[g] EXCEPT !.at = "broken"] \in Busy(DOMAIN object)
    BY DoingFacts DEF Busy
  <1> QED
    BY <1>1, DoingFacts DEF Broken

(* The types hold again, when objects are only added.                      *)
LEMMA KeepsTypes ==
  ASSUME TypeOK,
         object' \in Seq(ObjectType), Len(object) <= Len(object'), Len(object') <= MaxObjects,
         doing' \in [Handlers -> {Rest} \cup Busy(DOMAIN object')],
         profiles' \in [Names -> 0..MaxVersion], stored' \in [Names -> 0..MaxVersion],
         slot' \in [Names -> 0..Len(object')], idle' \subseteq Names,
         table' \in [Handlers -> Names \cup {NoName}],
         handle' \in [Handlers -> 0..Len(object')] /\ viewOnly' \subseteq Handlers,
         reaper' \in [at : {"asleep", "scan", "close", "closed"}, todo : SUBSET Names,
                      name : Names \cup {NoName}, object : 0..Len(object')],
         excused' \subseteq DOMAIN object'
  PROVE  TypeOK'
  BY DEF TypeOK, Busy, ObjectType

-----------------------------------------------------------------------------
(***************************************************************************)
(* The inductive invariant                                                 *)
(***************************************************************************)

(* Who starts a process holds its lock, and starts it as there is none;    *)
(* who opens a session on one, opens; who closes one for a stop, an update *)
(* or a delete, has taken it out of the table.                             *)
Holds(h) ==
  /\ doing[h].at \in {"exec", "init"} => object[doing[h].object].lock = h
  /\ doing[h].at = "exec" => object[doing[h].object].children = 0

OpensWhatIsNew(h) ==
  /\ doing[h].at \in {"new", "broken"} => doing[h].op = "open"
  /\ doing[h].at \in {"lock", "exec", "init"} => doing[h].op \in {"open", "start"}

Removed(h) ==
  doing[h].at \in {"close", "closed"} => \A n \in Names : slot[n] # doing[h].object

Sound(h) == Holds(h) /\ OpensWhatIsNew(h) /\ Removed(h)

(* A slot has a process of its name.                                       *)
Placed == \A n \in Names : slot[n] # 0 => object[slot[n]].name = n

(* The reaper knows what it closes, and whose it is.                       *)
ReaperKnows ==
  /\ reaper.at \in {"asleep", "scan"} => reaper.object = 0
  /\ reaper.at \in {"close", "closed"} =>
       /\ reaper.object # 0 /\ reaper.name \in Names
       /\ object[reaper.object].name = reaper.name

(* A running process that only its idle clock will end.                    *)
Exposed(n) ==
  /\ slot[n] # 0 /\ object[slot[n]].children > 0 /\ object[slot[n]].on = {}
  /\ slot[n] \notin excused /\ reaper.object # slot[n]
  /\ \A h \in Handlers : doing[h].object # slot[n]

Inv ==
  /\ TypeOK /\ OneChild /\ Placed /\ ReaperKnows
  /\ \A h \in Handlers : Sound(h)
  /\ \A n \in Names : Exposed(n) => n \in idle
  /\ PersistedMatches

(* A step of the handlers of H, none or one, or of the reaper or a process:*)
(* the others keep their locks, and at most hear that a connection is gone.*)
Step(H) ==
  /\ TypeOK' /\ OneChild' /\ ReaperKnows' /\ PersistedMatches'
  /\ DOMAIN object \subseteq DOMAIN object'
  /\ \A o \in DOMAIN object :
       /\ object'[o].name = object[o].name
       /\ \A g \in Handlers \ H :
            object[o].lock = g => object'[o].lock = g /\ object'[o].children <= object[o].children
  /\ \A g \in Handlers \ H :
       \/ doing'[g] = doing[g]
       \/ doing[g].at = "new" /\ doing'[g] = [doing[g] EXCEPT !.at = "broken"]
  /\ \A h \in H : Sound(h)'
  /\ \A n \in Names :
       \/ slot'[n] \in {0, slot[n]}
       \/ slot'[n] \notin DOMAIN object /\ object'[slot'[n]].name = n
  /\ \A n \in Names : Exposed(n)' /\ n \notin idle' => Exposed(n) /\ n \notin idle

LEMMA InvFacts ==
  ASSUME Inv
  PROVE  /\ TypeOK
         /\ \A o \in DOMAIN object : object[o].children \in {0, 1}
  BY ObjectFacts DEF Inv, OneChild, ObjectType

LEMMA StepKeeps ==
  ASSUME Inv, NEW H \in SUBSET Handlers, Step(H)
  PROVE  Inv'
  <1>1. TypeOK /\ TypeOK'
    BY DEF Inv, Step
  <1>2. /\ \A o \in DOMAIN object : o # 0 /\ object[o].children \in Nat /\ object'[o].children \in Nat
        /\ \A n \in Names : slot[n] = 0 \/ slot[n] \in DOMAIN object
    <2>1. \A o \in DOMAIN object' : object'[o].children \in Nat
      <3>1. object' \in Seq(ObjectType)
        BY <1>1 DEF TypeOK, ObjectType
      <3>2. \A o \in DOMAIN object' : object'[o] \in ObjectType
        BY <3>1, LenProperties, ElementOfSeq
      <3> QED
        BY <3>2 DEF ObjectType
    <2> QED
      <3>1. DOMAIN object \subseteq DOMAIN object'
        BY DEF Step
      <3>2. \A o \in DOMAIN object : o # 0 /\ object[o].children \in Nat
        BY <1>1, ObjectFacts DEF ObjectType
      <3>3. \A n \in Names : slot[n] = 0 \/ slot[n] \in DOMAIN object
        BY <1>1, OtherFacts
      <3> QED
        BY <2>1, <3>1, <3>2, <3>3
  <1>3. Placed'
    <2> SUFFICES ASSUME NEW n \in Names, slot'[n] # 0
                 PROVE  object'[slot'[n]].name = n
      BY DEF Placed
    <2>1. CASE slot'[n] = slot[n]
      BY <1>2, <2>1 DEF Inv, Placed, Step
    <2>2. CASE slot'[n] # slot[n]
      BY <2>2 DEF Step
    <2> QED
      BY <2>1, <2>2
  <1>4. ASSUME NEW g \in Handlers \ H
        PROVE  Sound(g)'
    <2>1. Sound(g)
      BY DEF Inv
    <2>2. CASE doing'[g] = doing[g] /\ doing[g].at # "none"
      <3>1. doing[g].object \in DOMAIN object
        BY <1>1, <2>2, DoingFacts DEF Busy
      <3>2. Holds(g)'
        BY <1>2, <2>1, <2>2, <3>1 DEF Sound, Holds, Step
      <3>3. OpensWhatIsNew(g)'
        BY <2>1, <2>2 DEF Sound, OpensWhatIsNew
      <3>4. Removed(g)'
        BY <1>2, <2>1, <2>2, <3>1 DEF Sound, Removed, Step
      <3> QED
        BY <3>2, <3>3, <3>4 DEF Sound
    <2>3. CASE doing'[g] = doing[g] /\ doing[g].at = "none"
      BY <2>3 DEF Sound, Holds, OpensWhatIsNew, Removed
    <2>4. CASE doing[g].at = "new" /\ doing'[g] = [doing[g] EXCEPT !.at = "broken"]
      <3>1. doing'[g].at = "broken" /\ doing'[g].op = doing[g].op
        BY <1>1, <2>4, DoingFacts DEF Busy
      <3> QED
        BY <2>1, <2>4, <3>1 DEF Sound, Holds, OpensWhatIsNew, Removed
    <2> QED
      BY <2>2, <2>3, <2>4 DEF Step
  <1>5. \A n \in Names : Exposed(n)' => n \in idle'
    BY DEF Inv, Step
  <1> QED
    BY <1>3, <1>4, <1>5 DEF Inv, Step

(***************************************************************************)
(* The steps of a handler that has an object, or is done with it           *)
(***************************************************************************)
LEMMA LocalStep ==
  ASSUME Inv, NEW h \in Handlers,
         slot' = slot, reaper' = reaper, profiles' = profiles, stored' = stored,
         object' \in Seq(ObjectType), Len(object') = Len(object),
         \A o \in DOMAIN object :
           /\ object'[o].name = object[o].name /\ object'[o].children <= 1
           /\ \A g \in Handlers \ {h} :
                object[o].lock = g
                  => object'[o].lock = g /\ object'[o].children <= object[o].children,
         doing' \in [Handlers -> {Rest} \cup Busy(DOMAIN object)],
         \A g \in Handlers \ {h} :
           \/ doing'[g] = doing[g]
           \/ doing[g].at = "new" /\ doing'[g] = [doing[g] EXCEPT !.at = "broken"],
         Sound(h)',
         idle' \subseteq Names, table' \in [Handlers -> Names \cup {NoName}],
         handle' \in [Handlers -> 0..Len(object)],
         viewOnly' \subseteq Handlers, excused' \subseteq DOMAIN object,
         \A n \in Names : Exposed(n)' /\ n \notin idle' => Exposed(n) /\ n \notin idle
  PROVE  Step({h})
  <1>1. TypeOK
    BY DEF Inv
  <1>2. DOMAIN object' = DOMAIN object
    BY <1>1, ObjectFacts, LenProperties
  <1>3. TypeOK'
    BY <1>1, <1>2, ObjectFacts, OtherFacts, KeepsTypes
  <1>4. OneChild' /\ PersistedMatches'
    BY <1>2 DEF Inv, OneChild, PersistedMatches
  <1>5. ReaperKnows'
    <2>1. reaper.object = 0 \/ reaper.object \in DOMAIN object
      BY <1>1, ObjectFacts, OtherFacts
    <2> QED
      BY <2>1 DEF Inv, ReaperKnows
  <1> QED
    BY <1>2, <1>3, <1>4, <1>5 DEF Step

LEMMA GoesFacts ==
  ASSUME TypeOK, NEW h \in Handlers, doing[h].at # "none",
         NEW phase \in {"lock", "exec", "init", "new", "broken", "close", "closed"},
         Goes(h, phase)
  PROVE  /\ doing' \in [Handlers -> {Rest} \cup Busy(DOMAIN object)]
         /\ doing'[h].at = phase /\ doing'[h].op = doing[h].op
         /\ doing'[h].object = doing[h].object
         /\ \A g \in Handlers \ {h} : doing'[g] = doing[g]
  <1>1. doing[h] \in Busy(DOMAIN object)
    BY DoingFacts
  <1> DEFINE x == [doing[h] EXCEPT !.at = phase]
  <1>2. x \in Busy(DOMAIN object) /\ x.at = phase /\ x.op = doing[h].op
        /\ x.object = doing[h].object
    BY <1>1 DEF Busy
  <1>3. doing' = [doing EXCEPT ![h] = x]
    BY DEF Goes
  <1> HIDE DEF x
  <1> QED
    BY <1>2, <1>3, DoingFacts

LEMMA RestsFacts ==
  ASSUME TypeOK, NEW h \in Handlers, doing' = [doing EXCEPT ![h] = Rest]
  PROVE  /\ doing' \in [Handlers -> {Rest} \cup Busy(DOMAIN object)]
         /\ doing'[h] = Rest
         /\ \A g \in Handlers \ {h} : doing'[g] = doing[g]
  BY DoingFacts

LEMMA RestIsSound ==
  ASSUME TypeOK, NEW h \in Handlers, doing'[h] = Rest
  PROVE  Sound(h)'
  BY DoingFacts DEF Sound, Holds, OpensWhatIsNew, Removed

(* What a handler works on.                                                *)
LEMMA Works ==
  ASSUME Inv, NEW h \in Handlers, doing[h].at # "none"
  PROVE  /\ doing[h].object \in DOMAIN object /\ doing[h].object # 0
         /\ object[doing[h].object] \in ObjectType
         /\ doing[h] \in Busy(DOMAIN object)
         /\ Sound(h)
  BY ObjectFacts, DoingFacts DEF Inv, Busy

(* It rests, and its object has a session, or is excused.                  *)
LEMMA SpentFacts ==
  ASSUME Inv, NEW h \in Handlers, doing[h].at # "none",
         doing' = [doing EXCEPT ![h] = Rest], excused' = Spent(doing[h].object)
  PROVE  /\ doing' \in [Handlers -> {Rest} \cup Busy(DOMAIN object)] /\ doing'[h] = Rest
         /\ \A g \in Handlers \ {h} : doing'[g] = doing[g]
         /\ Sound(h)'
         /\ excused \subseteq excused' /\ excused' \subseteq DOMAIN object
         /\ Mine(h).on = {} => doing[h].object \in excused'
  <1>1. TypeOK /\ doing[h].object \in DOMAIN object
    BY Works DEF Inv
  <1> QED
    BY <1>1, RestsFacts, RestIsSound, OtherFacts DEF Spent, Mine

LEMMA StartedFacts ==
  ASSUME Inv, NEW h \in Handlers, doing[h].at \in {"lock", "init"}, Started(h)
  PROVE  /\ doing' \in [Handlers -> {Rest} \cup Busy(DOMAIN object)]
         /\ \A g \in Handlers \ {h} : doing'[g] = doing[g]
         /\ Sound(h)'
         /\ excused \subseteq excused' /\ excused' \subseteq DOMAIN object
         /\ \/ doing'[h].object = doing[h].object
            \/ doing'[h] = Rest /\ (Mine(h).on = {} => doing[h].object \in excused')
         /\ handle' \in [Handlers -> 0..Len(object)] /\ viewOnly' \subseteq Handlers
  <1>1. /\ TypeOK /\ doing[h].at # "none" /\ doing[h].object \in DOMAIN object
        /\ DOMAIN object = 1..Len(object) /\ Len(object) \in Nat
    BY Works, ObjectFacts DEF Inv
  <1>2. CASE /\ doing' = [doing EXCEPT ![h] = Rest] /\ excused' = Spent(doing[h].object)
             /\ handle' = handle /\ viewOnly' = viewOnly
    BY <1>1, <1>2, SpentFacts, OtherFacts
  <1>3. CASE /\ doing[h].op = "open" /\ excused' = excused
             /\ Goes(h, IF Mine(h).conn THEN "new" ELSE "broken")
             /\ handle' = handle /\ viewOnly' = viewOnly
    <2>1. PICK phase \in {"new", "broken"} : Goes(h, phase) /\ excused' = excused
      BY <1>3
    <2>2. /\ doing' \in [Handlers -> {Rest} \cup Busy(DOMAIN object)]
          /\ doing'[h].at = phase /\ doing'[h].op = "open"
          /\ doing'[h].object = doing[h].object
          /\ \A g \in Handlers \ {h} : doing'[g] = doing[g]
      BY <1>1, <1>3, <2>1, GoesFacts
    <2>3. Sound(h)'
      BY <2>2 DEF Sound, Holds, OpensWhatIsNew, Removed
    <2> QED
      BY <1>1, <1>3, <2>2, <2>3, OtherFacts
  <1>4. CASE /\ doing' = [doing EXCEPT ![h] = Rest] /\ excused' = Spent(doing[h].object)
             /\ handle' = [handle EXCEPT ![h] = doing[h].object]
             /\ viewOnly' = viewOnly \cup {h}
    <2>1. handle' \in [Handlers -> 0..Len(object)] /\ viewOnly' \subseteq Handlers
      BY <1>1, <1>4, OtherFacts
    <2> QED
      BY <1>1, <1>4, <2>1, SpentFacts
  <1> QED
    BY <1>2, <1>3, <1>4 DEF Started

LEMMA FindsRunningStep ==
  ASSUME Inv, NEW h \in Handlers, FindsRunning(h)
  PROVE  Step({h})
  <1>1. /\ doing[h].at = "lock" /\ Started(h)
        /\ slot' = slot /\ idle' = idle /\ object' = object /\ table' = table
        /\ reaper' = reaper /\ profiles' = profiles /\ stored' = stored
    BY DEF FindsRunning, At, processes, specs
  <1>2. /\ TypeOK /\ object \in Seq(ObjectType)
        /\ \A o \in DOMAIN object : object[o].children \in {0, 1}
    BY InvFacts, ObjectFacts
  <1>3. ASSUME NEW n \in Names, Exposed(n)', n \notin idle'
        PROVE  Exposed(n) /\ n \notin idle
    BY <1>1, <1>3, StartedFacts DEF Exposed, Mine
  <1>4. /\ doing' \in [Handlers -> {Rest} \cup Busy(DOMAIN object)]
        /\ \A g \in Handlers \ {h} : doing'[g] = doing[g]
        /\ Sound(h)' /\ excused' \subseteq DOMAIN object
        /\ handle' \in [Handlers -> 0..Len(object)] /\ viewOnly' \subseteq Handlers
    BY <1>1, StartedFacts
  <1>5. \A p \in DOMAIN object :
          /\ object'[p].name = object[p].name /\ object'[p].children <= 1
          /\ \A g \in Handlers \ {h} :
               object[p].lock = g
                 => object'[p].lock = g /\ object'[p].children <= object[p].children
    BY <1>1, <1>2
  <1>6. /\ idle' \subseteq Names /\ table' \in [Handlers -> Names \cup {NoName}]
        /\ object' \in Seq(ObjectType) /\ Len(object') = Len(object)
    BY <1>1, <1>2, OtherFacts
  <1> QED
    BY <1>1, <1>3, <1>4, <1>5, <1>6, LocalStep

(* The handler works on its object, and keeps it.                          *)
LEMMA OwnObjectStep ==
  ASSUME Inv, NEW h \in Handlers, doing[h].at # "none",
         NEW x \in ObjectType, object' = [object EXCEPT ![doing[h].object] = x],
         x.name = object[doing[h].object].name, x.children <= 1,
         \A g \in Handlers \ {h} :
           object[doing[h].object].lock = g
             => x.lock = g /\ x.children <= object[doing[h].object].children,
         doing' \in [Handlers -> {Rest} \cup Busy(DOMAIN object)],
         \A g \in Handlers \ {h} : doing'[g] = doing[g],
         doing'[h].object = doing[h].object, Sound(h)',
         slot' = slot, idle' = idle, table' = table, handle' = handle, viewOnly' = viewOnly,
         reaper' = reaper, excused' = excused, profiles' = profiles, stored' = stored
  PROVE  Step({h})
  <1>1. doing[h].object \in DOMAIN object /\ TypeOK /\ object \in Seq(ObjectType)
    BY Works, ObjectFacts DEF Inv
  <1>2. /\ object' \in Seq(ObjectType) /\ Len(object') = Len(object)
        /\ object'[doing[h].object] = x
        /\ \A p \in DOMAIN object \ {doing[h].object} : object'[p] = object[p]
    BY <1>1, Touches
  <1>3. /\ \A o \in DOMAIN object : object[o].children \in {0, 1}
        /\ \A n \in Names : slot[n] = 0 \/ slot[n] \in DOMAIN object
    BY <1>1, InvFacts, OtherFacts
  <1>4. ASSUME NEW n \in Names, Exposed(n)', n \notin idle'
        PROVE  Exposed(n) /\ n \notin idle
    BY <1>2, <1>3, <1>4 DEF Exposed
  <1>5. \A p \in DOMAIN object :
          /\ object'[p].name = object[p].name /\ object'[p].children <= 1
          /\ \A g \in Handlers \ {h} :
               object[p].lock = g
                 => object'[p].lock = g /\ object'[p].children <= object[p].children
    BY <1>2, <1>3
  <1>6. /\ idle' \subseteq Names /\ table' \in [Handlers -> Names \cup {NoName}]
        /\ handle' \in [Handlers -> 0..Len(object)]
        /\ viewOnly' \subseteq Handlers /\ excused' \subseteq DOMAIN object
    BY <1>1, OtherFacts
  <1> QED
    BY <1>2, <1>4, <1>5, <1>6, LocalStep

LEMMA TakesLockStep ==
  ASSUME Inv, NEW h \in Handlers, TakesLock(h)
  PROVE  Step({h})
  <1> DEFINE o == doing[h].object
             x == [object[o] EXCEPT !.lock = h, !.closing = FALSE, !.on = {}]
  <1>1. doing[h].at = "lock" /\ object[o].lock = Nobody /\ ~(object[o].children > 0)
    BY DEF TakesLock, At, Mine, Running
  <1>2. object[o] \in ObjectType /\ o \in DOMAIN object /\ TypeOK /\ object \in Seq(ObjectType)
    BY <1>1, Works, ObjectFacts DEF Inv
  <1>3. object[o].children = 0
    BY <1>1, <1>2 DEF ObjectType
  <1>4. /\ x \in ObjectType /\ x.name = object[o].name /\ x.children = 0 /\ x.lock = h
        /\ object' = [object EXCEPT ![o] = x]
    BY <1>2, <1>3 DEF ObjectType, TakesLock
  <1>5. /\ doing' \in [Handlers -> {Rest} \cup Busy(DOMAIN object)]
        /\ doing'[h].at = "exec" /\ doing'[h].op = doing[h].op /\ doing'[h].object = o
        /\ \A g \in Handlers \ {h} : doing'[g] = doing[g]
    BY <1>1, <1>2, GoesFacts DEF TakesLock
  <1>6. object'[o] = x
    BY <1>2, <1>4, Touches
  <1>7. Sound(h)'
    BY <1>1, <1>4, <1>5, <1>6, Works DEF Sound, Holds, OpensWhatIsNew, Removed
  <1>8. \A g \in Handlers \ {h} : object[o].lock # g
    BY <1>1, NobodyAssumption
  <1>9. /\ slot' = slot /\ idle' = idle /\ table' = table /\ handle' = handle
        /\ viewOnly' = viewOnly
        /\ reaper' = reaper /\ excused' = excused /\ profiles' = profiles /\ stored' = stored
    BY DEF specs, sessions, TakesLock
  <1>10. /\ doing[h].at # "none" /\ x.children <= 1
         /\ \A g \in Handlers \ {h} :
              object[o].lock = g => x.lock = g /\ x.children <= object[o].children
    BY <1>1, <1>4, <1>8
  <1> HIDE DEF x
  <1> QED
    BY <1>4, <1>5, <1>7, <1>9, <1>10, OwnObjectStep

LEMMA ExecsStep ==
  ASSUME Inv, NEW h \in Handlers, Execs(h)
  PROVE  Step({h})
  <1> DEFINE o == doing[h].object
             x == [object[o] EXCEPT !.children = object[o].children + 1, !.conn = TRUE]
  <1>1. doing[h].at = "exec"
    BY DEF Execs, At
  <1>2. object[o] \in ObjectType /\ o \in DOMAIN object /\ TypeOK /\ object \in Seq(ObjectType)
    BY <1>1, Works, ObjectFacts DEF Inv
  <1>3. object[o].children = 0 /\ object[o].lock = h
    BY <1>1, Works DEF Sound, Holds
  <1>4. /\ x \in ObjectType /\ x.name = object[o].name /\ x.children = 1 /\ x.lock = h
        /\ object' = [object EXCEPT ![o] = x]
    <2>1. x = [object[o] EXCEPT !.children = 1, !.conn = TRUE]
      BY <1>3
    <2>2. object' = [object EXCEPT ![o] = x]
      BY DEF Execs, Mine
    <2> HIDE DEF x, o
    <2>3. x \in ObjectType /\ x.name = object[o].name /\ x.children = 1 /\ x.lock = h
      BY <1>2, <1>3, <2>1 DEF ObjectType
    <2> QED
      BY <2>2, <2>3
  <1>5. /\ doing' \in [Handlers -> {Rest} \cup Busy(DOMAIN object)]
        /\ doing'[h].at = "init" /\ doing'[h].op = doing[h].op /\ doing'[h].object = o
        /\ \A g \in Handlers \ {h} : doing'[g] = doing[g]
    BY <1>1, <1>2, GoesFacts DEF Execs
  <1>6. object'[o] = x
    BY <1>2, <1>4, Touches
  <1>7. Sound(h)'
    BY <1>1, <1>4, <1>5, <1>6, Works DEF Sound, Holds, OpensWhatIsNew, Removed
  <1>8. /\ slot' = slot /\ idle' = idle /\ table' = table /\ handle' = handle
        /\ viewOnly' = viewOnly
        /\ reaper' = reaper /\ excused' = excused /\ profiles' = profiles /\ stored' = stored
    BY DEF specs, sessions, Execs
  <1>9. /\ doing[h].at # "none" /\ x.children <= 1
        /\ \A g \in Handlers \ {h} :
             object[o].lock = g => x.lock = g /\ x.children <= object[o].children
    BY <1>1, <1>3, <1>4
  <1> HIDE DEF x
  <1> QED
    BY <1>4, <1>5, <1>7, <1>8, <1>9, OwnObjectStep

LEMMA TouchFacts ==
  ASSUME Inv, NEW h \in Handlers, NEW o \in DOMAIN object, NEW x \in ObjectType,
         object' = [object EXCEPT ![o] = x],
         x.name = object[o].name, x.children <= 1,
         \A g \in Handlers \ {h} :
           object[o].lock = g => x.lock = g /\ x.children <= object[o].children
  PROVE  /\ object' \in Seq(ObjectType) /\ Len(object') = Len(object)
         /\ object'[o] = x /\ \A p \in DOMAIN object \ {o} : object'[p] = object[p]
         /\ \A p \in DOMAIN object :
              /\ object'[p].name = object[p].name /\ object'[p].children <= 1
              /\ \A g \in Handlers \ {h} :
                   object[p].lock = g
                     => object'[p].lock = g /\ object'[p].children <= object[p].children
  <1>1. object \in Seq(ObjectType) /\ \A p \in DOMAIN object : object[p].children \in {0, 1}
    BY InvFacts, ObjectFacts
  <1>2. /\ object' \in Seq(ObjectType) /\ Len(object') = Len(object)
        /\ object'[o] = x /\ \A p \in DOMAIN object \ {o} : object'[p] = object[p]
    BY <1>1, Touches
  <1> QED
    BY <1>1, <1>2

LEMMA InitializedStep ==
  ASSUME Inv, NEW h \in Handlers, Initialized(h)
  PROVE  Step({h})
  <1> DEFINE o == doing[h].object
             x == [object[o] EXCEPT !.lock = Nobody]
  <1>1. /\ doing[h].at = "init" /\ Started(h) /\ object' = [object EXCEPT ![o] = x]
        /\ slot' = slot /\ idle' = idle /\ table' = table
        /\ reaper' = reaper /\ profiles' = profiles /\ stored' = stored
    BY DEF Initialized, At, specs
  <1>2. object[o] \in ObjectType /\ o \in DOMAIN object /\ TypeOK /\ object[o].lock = h
    BY <1>1, Works, InvFacts DEF Sound, Holds
  <1>3. /\ x \in ObjectType /\ x.name = object[o].name /\ x.children <= 1
        /\ x.on = object[o].on /\ x.children = object[o].children
    BY <1>2, InvFacts DEF ObjectType
  <1> HIDE DEF x
  <1>4. /\ object' \in Seq(ObjectType) /\ Len(object') = Len(object)
        /\ object'[o] = x /\ \A p \in DOMAIN object \ {o} : object'[p] = object[p]
        /\ \A p \in DOMAIN object :
             /\ object'[p].name = object[p].name /\ object'[p].children <= 1
             /\ \A g \in Handlers \ {h} :
                  object[p].lock = g
                    => object'[p].lock = g /\ object'[p].children <= object[p].children
    <2>1. \A g \in Handlers \ {h} :
            object[o].lock = g => x.lock = g /\ x.children <= object[o].children
      BY <1>2
    <2> HIDE DEF o
    <2> QED
      BY <1>1, <1>2, <1>3, <2>1, TouchFacts
  <1>5. /\ doing' \in [Handlers -> {Rest} \cup Busy(DOMAIN object)]
        /\ \A g \in Handlers \ {h} : doing'[g] = doing[g]
        /\ Sound(h)' /\ excused \subseteq excused' /\ excused' \subseteq DOMAIN object
        /\ \/ doing'[h].object = o
           \/ object[o].on = {} => o \in excused'
        /\ handle' \in [Handlers -> 0..Len(object)] /\ viewOnly' \subseteq Handlers
    BY <1>1, StartedFacts DEF Mine
  <1>6. ASSUME NEW n \in Names, Exposed(n)', n \notin idle'
        PROVE  Exposed(n) /\ n \notin idle
    <2>1. slot[n] \in DOMAIN object
      BY <1>1, <1>2, <1>6, OtherFacts DEF Exposed
    <2>2. object'[slot[n]].on = object[slot[n]].on
          /\ object'[slot[n]].children = object[slot[n]].children
      BY <1>3, <1>4, <2>1
    <2> QED
      BY <1>1, <1>5, <1>6, <2>1, <2>2 DEF Exposed
  <1>7. /\ idle' \subseteq Names /\ table' \in [Handlers -> Names \cup {NoName}]
    BY <1>1, <1>2, OtherFacts
  <1> QED
    BY <1>1, <1>4, <1>5, <1>6, <1>7, LocalStep

(* The session of h leaves its process; the clock starts if it was the     *)
(* last, and otherwise the process has a session still.                    *)
LEMMA HandleClosesFacts ==
  ASSUME Inv, NEW h \in Handlers, NEW O \in Seq(ObjectType), Len(O) = Len(object),
         HandleCloses(h, O)
  PROVE  /\ object' \in Seq(ObjectType) /\ Len(object') = Len(object)
         /\ \A p \in DOMAIN object :
              /\ object'[p].name = O[p].name /\ object'[p].lock = O[p].lock
              /\ object'[p].children = O[p].children
              /\ p # handle[h] => object'[p] = O[p]
         /\ handle[h] # 0 => object'[handle[h]].on # {} \/ object[handle[h]].name \in idle'
         /\ idle \subseteq idle' /\ idle' \subseteq Names
         /\ excused' \subseteq DOMAIN object
         /\ \A p \in DOMAIN object :
              p # handle[h] /\ p \notin excused'
                => p \notin excused /\ ~(p = doing[h].object /\ O[p].on = {})
         /\ handle' \in [Handlers -> 0..Len(object)] /\ viewOnly' \subseteq Handlers
  <1> DEFINE o == handle[h]
             last == o # 0 /\ O[o].on \ {h} = {}
             x == [O[o] EXCEPT !.on = @ \ {h}]
  <1>1. TypeOK /\ DOMAIN object = 1..Len(object) /\ DOMAIN O = 1..Len(O)
    BY ObjectFacts, LenProperties DEF Inv
  <1>2. o \in 0..Len(object) /\ Len(object) \in Nat /\ (o # 0 => o \in DOMAIN object)
    BY <1>1, ObjectFacts, OtherFacts
  <1>3. /\ object' = IF o = 0 THEN O ELSE [O EXCEPT ![o] = x]
        /\ idle' = IF last THEN idle \cup {object[o].name} ELSE idle
        /\ excused' = (IF doing[h].object # 0 /\ O[doing[h].object].on = {}
                         THEN excused \cup {doing[h].object} ELSE excused)
                      \ (IF last THEN {o} ELSE {})
        /\ handle' = [handle EXCEPT ![h] = 0] /\ viewOnly' = viewOnly \ {h}
    BY DEF HandleCloses
  <1>4. \A p \in DOMAIN object : O[p] \in ObjectType /\ object[p] \in ObjectType
    BY <1>1, ElementOfSeq, ObjectFacts
  <1>5. o # 0 => /\ x \in ObjectType /\ x.on = O[o].on \ {h} /\ x.name = O[o].name
                 /\ x.lock = O[o].lock /\ x.children = O[o].children
    BY <1>2, <1>4 DEF ObjectType
  <1>6. o # 0 => object[o].name \in Names
    BY <1>2, <1>4 DEF ObjectType
  <1> HIDE DEF x
  <1>7. /\ object' \in Seq(ObjectType) /\ Len(object') = Len(object)
        /\ \A p \in DOMAIN object : p # o => object'[p] = O[p]
        /\ o # 0 => object'[o] = x
    BY <1>1, <1>2, <1>3, <1>5, Touches
  <1>8. idle \subseteq idle' /\ idle' \subseteq Names
    BY <1>1, <1>3, <1>6, OtherFacts
  <1>9. o # 0 => object'[o].on # {} \/ object[o].name \in idle'
    BY <1>3, <1>5, <1>7
  <1>10. excused' \subseteq DOMAIN object
    BY <1>1, <1>3, DoingFacts, OtherFacts
  <1>11. \A p \in DOMAIN object :
           p # o /\ p \notin excused'
             => p \notin excused /\ ~(p = doing[h].object /\ O[p].on = {})
    BY <1>1, <1>3
  <1>12. handle' \in [Handlers -> 0..Len(object)] /\ viewOnly' \subseteq Handlers
    BY <1>1, <1>2, <1>3, OtherFacts
  <1>13. \A p \in DOMAIN object :
           /\ object'[p].name = O[p].name /\ object'[p].lock = O[p].lock
           /\ object'[p].children = O[p].children
    BY <1>5, <1>7
  <1> QED
    BY <1>7, <1>8, <1>9, <1>10, <1>11, <1>12, <1>13

LEMMA SpawnFailedStep ==
  ASSUME Inv, NEW h \in Handlers, doing[h].at \in {"exec", "init", "new"},
         NEW O \in Seq(ObjectType), Len(O) = Len(object), SpawnFailed(h, O),
         \A p \in DOMAIN object \ {doing[h].object} : O[p] = object[p],
         O[doing[h].object].name = object[doing[h].object].name,
         O[doing[h].object].children <= object[doing[h].object].children,
         \A g \in Handlers \ {h} :
           object[doing[h].object].lock = g => O[doing[h].object].lock = g,
         O[doing[h].object].children = 0 \/ doing[h].op = "open"
  PROVE  Step({h})
  <1> DEFINE o == doing[h].object
  <1>1. TypeOK /\ o \in DOMAIN object /\ o # 0
    BY Works, InvFacts
  <1>2. /\ doing' = [Broken(o, doing) EXCEPT ![h] = Rest]
        /\ slot' = slot /\ reaper' = reaper /\ profiles' = profiles /\ stored' = stored
    BY DEF SpawnFailed, specs
  <1>3. /\ doing' \in [Handlers -> {Rest} \cup Busy(DOMAIN object)] /\ doing'[h] = Rest
        /\ \A g \in Handlers \ {h} :
             \/ doing'[g] = doing[g]
             \/ doing[g].at = "new" /\ doing'[g] = [doing[g] EXCEPT !.at = "broken"]
    BY <1>1, <1>2, BrokenFacts
  <1>4. Sound(h)'
    BY <1>1, <1>3, RestIsSound
  <1>5. \A g \in Handlers \ {h} : doing'[g].object = doing[g].object
    BY <1>1, <1>3, DoingFacts DEF Busy
  <1>6. /\ \A p \in DOMAIN object :
             /\ O[p].name = object[p].name /\ O[p].children <= object[p].children
             /\ \A g \in Handlers \ {h} : object[p].lock = g => O[p].lock = g
        /\ \A p \in DOMAIN object : object[p].children \in {0, 1} /\ O[p].children \in Nat
    <2>1. \A p \in DOMAIN object : O[p] \in ObjectType
      BY <1>1, ObjectFacts, ElementOfSeq
    <2>2. \A p \in DOMAIN object : object[p].children \in {0, 1} /\ O[p].children \in Nat
      BY <2>1, InvFacts DEF ObjectType
    <2> QED
      BY <2>2
  <1>7. /\ object' \in Seq(ObjectType) /\ Len(object') = Len(object)
        /\ \A p \in DOMAIN object :
             /\ object'[p].name = O[p].name /\ object'[p].lock = O[p].lock
             /\ object'[p].children = O[p].children
        /\ idle \subseteq idle' /\ idle' \subseteq Names /\ excused' \subseteq DOMAIN object
        /\ handle' \in [Handlers -> 0..Len(object)] /\ viewOnly' \subseteq Handlers
        /\ table' \in [Handlers -> Names \cup {NoName}]
    <2>1. CASE doing[h].op = "open"
      <3>1. HandleCloses(h, O) /\ table' = [table EXCEPT ![h] = NoName]
        BY <2>1 DEF SpawnFailed
      <3> QED
        BY <1>1, <3>1, HandleClosesFacts, OtherFacts
    <2>2. CASE doing[h].op # "open"
      <3>1. /\ object' = O /\ idle' = idle /\ excused' = excused
            /\ table' = table /\ handle' = handle /\ viewOnly' = viewOnly
        BY <2>2 DEF SpawnFailed, sessions
      <3> QED
        BY <1>1, <3>1, OtherFacts
    <2> QED
      BY <2>1, <2>2
  <1>8. \A p \in DOMAIN object :
          /\ object'[p].name = object[p].name /\ object'[p].children <= 1
          /\ \A g \in Handlers \ {h} :
               object[p].lock = g
                 => object'[p].lock = g /\ object'[p].children <= object[p].children
    <2> SUFFICES ASSUME NEW p \in DOMAIN object
                 PROVE  /\ object'[p].name = object[p].name /\ object'[p].children <= 1
                        /\ \A g \in Handlers \ {h} :
                             object[p].lock = g
                               => object'[p].lock = g /\ object'[p].children <= object[p].children
      OBVIOUS
    <2>1. /\ object'[p].name = O[p].name /\ object'[p].lock = O[p].lock
          /\ object'[p].children = O[p].children
      BY <1>7
    <2>2. /\ O[p].name = object[p].name /\ O[p].children <= object[p].children
          /\ \A g \in Handlers \ {h} : object[p].lock = g => O[p].lock = g
          /\ object[p].children \in {0, 1} /\ O[p].children \in Nat
      BY <1>6
    <2>3. O[p].children <= 1
      BY <2>2
    <2> QED
      BY <2>1, <2>2, <2>3
  <1>9. ASSUME NEW n \in Names, Exposed(n)', n \notin idle'
        PROVE  Exposed(n) /\ n \notin idle
    <2> DEFINE q == slot[n]
    <2>1. /\ q \in DOMAIN object /\ q # 0 /\ object'[q].children > 0 /\ object'[q].on = {}
          /\ q \notin excused' /\ reaper.object # q /\ object[q].name = n
          /\ \A g \in Handlers \ {h} : doing[g].object # q
      BY <1>1, <1>2, <1>5, <1>9, OtherFacts DEF Exposed, Inv, Placed
    <2>2. CASE doing[h].op = "open"
      <3>1. HandleCloses(h, O)
        BY <2>2 DEF SpawnFailed
      <3>2. /\ handle[h] # 0 => object'[handle[h]].on # {} \/ object[handle[h]].name \in idle'
            /\ \A p \in DOMAIN object : p # handle[h] => object'[p] = O[p]
            /\ \A p \in DOMAIN object :
                 p # handle[h] /\ p \notin excused'
                   => p \notin excused /\ ~(p = o /\ O[p].on = {})
        BY <3>1, HandleClosesFacts
      <3>3. q # handle[h]
        BY <1>9, <2>1, <3>2
      <3>4. object'[q] = O[q] /\ q \notin excused /\ q # o
        BY <2>1, <3>2, <3>3
      <3> HIDE DEF o
      <3>5. object'[q] = object[q]
        BY <2>1, <3>4 DEF o
      <3> QED
        BY <1>7, <1>9, <2>1, <3>4, <3>5 DEF Exposed, o
    <2>3. CASE doing[h].op # "open"
      <3>1. object' = O /\ idle' = idle /\ excused' = excused
        BY <2>3 DEF SpawnFailed
      <3>2. O[o].children = 0
        BY <2>3
      <3>3. q # o
        BY <2>1, <3>1, <3>2
      <3>4. object'[q] = object[q]
        BY <2>1, <3>1, <3>3
      <3> QED
        BY <1>9, <2>1, <3>1, <3>3, <3>4 DEF Exposed
    <2> QED
      BY <2>2, <2>3
  <1> QED
    BY <1>2, <1>3, <1>4, <1>7, <1>8, <1>9, LocalStep

LEMMA ExecFailsStep ==
  ASSUME Inv, NEW h \in Handlers, ExecFails(h)
  PROVE  Step({h})
  <1> DEFINE o == doing[h].object
             x == [object[o] EXCEPT !.lock = Nobody]
             O == [object EXCEPT ![o] = x]
  <1>1. doing[h].at = "exec" /\ SpawnFailed(h, O)
    BY DEF ExecFails, At
  <1>2. /\ object[o] \in ObjectType /\ o \in DOMAIN object /\ object \in Seq(ObjectType)
        /\ object[o].lock = h /\ object[o].children = 0
    BY <1>1, Works, InvFacts, ObjectFacts DEF Sound, Holds
  <1>3. x \in ObjectType /\ x.name = object[o].name /\ x.children = 0
    BY <1>2 DEF ObjectType
  <1> HIDE DEF x
  <1>4. /\ O \in Seq(ObjectType) /\ Len(O) = Len(object) /\ O[o] = x
        /\ \A p \in DOMAIN object \ {o} : O[p] = object[p]
    BY <1>2, <1>3, Touches
  <1>5. /\ O[o].name = object[o].name /\ O[o].children <= object[o].children
        /\ O[o].children = 0
        /\ \A g \in Handlers \ {h} : object[o].lock = g => O[o].lock = g
    BY <1>2, <1>3, <1>4
  <1> HIDE DEF O
  <1> QED
    BY <1>1, <1>4, <1>5, SpawnFailedStep

(* close() takes the sessions and the connection from the object.          *)
LEMMA DroppedFacts ==
  ASSUME TypeOK, NEW o \in DOMAIN object
  PROVE  /\ Dropped(o) \in Seq(ObjectType) /\ Len(Dropped(o)) = Len(object)
         /\ Dropped(o)[o] \in ObjectType
         /\ Dropped(o)[o].name = object[o].name /\ Dropped(o)[o].lock = object[o].lock
         /\ Dropped(o)[o].children = object[o].children
         /\ \A p \in DOMAIN object \ {o} : Dropped(o)[p] = object[p]
  <1> DEFINE x == [object[o] EXCEPT !.closing = TRUE, !.on = {}, !.conn = FALSE]
  <1>1. object[o] \in ObjectType /\ object \in Seq(ObjectType)
    BY ObjectFacts
  <1>2. /\ x \in ObjectType /\ x.name = object[o].name /\ x.lock = object[o].lock
        /\ x.children = object[o].children
    BY <1>1 DEF ObjectType
  <1>3. Dropped(o) = [object EXCEPT ![o] = x]
    BY DEF Dropped
  <1> HIDE DEF x
  <1> QED
    BY <1>1, <1>2, <1>3, Touches

(* ... and then ends the child.                                            *)
LEMMA KillFacts ==
  ASSUME Inv, NEW o \in DOMAIN object
  PROVE  /\ Kill(o) \in Seq(ObjectType) /\ Len(Kill(o)) = Len(object)
         /\ Kill(o)[o].name = object[o].name /\ Kill(o)[o].lock = object[o].lock
         /\ Kill(o)[o].children = 0
         /\ \A p \in DOMAIN object \ {o} : Kill(o)[p] = object[p]
  <1> DEFINE c == IF object[o].children = 0 THEN 0 ELSE object[o].children - 1
             x == [object[o] EXCEPT !.children = c]
  <1>1. /\ object[o] \in ObjectType /\ object \in Seq(ObjectType)
        /\ object[o].children \in {0, 1}
    BY InvFacts, ObjectFacts
  <1>2. c = 0
    BY <1>1
  <1>3. Kill(o) = [object EXCEPT ![o] = x]
    BY DEF Kill
  <1> HIDE DEF c
  <1>4. x \in ObjectType /\ x.name = object[o].name /\ x.lock = object[o].lock /\ x.children = 0
    BY <1>1, <1>2 DEF ObjectType
  <1> HIDE DEF x
  <1> QED
    BY <1>1, <1>3, <1>4, Touches

LEMMA InitFailsStep ==
  ASSUME Inv, NEW h \in Handlers, InitFails(h)
  PROVE  Step({h})
  <1> DEFINE o == doing[h].object
             x == [Dropped(o)[o] EXCEPT !.lock = Nobody, !.children = 0]
             O == [Dropped(o) EXCEPT ![o] = x]
  <1>1. doing[h].at = "init" /\ SpawnFailed(h, O)
    BY DEF InitFails, At
  <1>2. /\ object[o] \in ObjectType /\ o \in DOMAIN object /\ TypeOK
        /\ object[o].lock = h /\ object[o].children \in {0, 1}
    BY <1>1, Works, InvFacts DEF Sound, Holds
  <1>3. /\ Dropped(o) \in Seq(ObjectType) /\ Len(Dropped(o)) = Len(object)
        /\ Dropped(o)[o] \in ObjectType /\ Dropped(o)[o].name = object[o].name
        /\ \A p \in DOMAIN object \ {o} : Dropped(o)[p] = object[p]
        /\ DOMAIN Dropped(o) = DOMAIN object
    BY <1>2, DroppedFacts, ObjectFacts, LenProperties
  <1>4. x \in ObjectType /\ x.name = object[o].name /\ x.children = 0
    BY <1>3 DEF ObjectType
  <1> HIDE DEF x
  <1>5. /\ O \in Seq(ObjectType) /\ Len(O) = Len(object) /\ O[o] = x
        /\ \A p \in DOMAIN object \ {o} : O[p] = object[p]
    BY <1>2, <1>3, <1>4, Touches
  <1>6. /\ O[o].name = object[o].name /\ O[o].children <= object[o].children
        /\ O[o].children = 0
        /\ \A g \in Handlers \ {h} : object[o].lock = g => O[o].lock = g
    BY <1>2, <1>4, <1>5
  <1> HIDE DEF O
  <1> QED
    BY <1>1, <1>5, <1>6, SpawnFailedStep

LEMMA RefusedStep ==
  ASSUME Inv, NEW h \in Handlers, Refused(h)
  PROVE  Step({h})
  <1>1. doing[h].at = "new" /\ SpawnFailed(h, object)
    BY DEF Refused, At
  <1>2. doing[h].op = "open" /\ doing[h].object \in DOMAIN object
    BY <1>1, Works DEF Sound, OpensWhatIsNew
  <1>3. /\ object \in Seq(ObjectType) /\ \A p \in DOMAIN object : object[p].children \in {0, 1}
    BY InvFacts, ObjectFacts
  <1>4. object[doing[h].object].children <= object[doing[h].object].children
    BY <1>2, <1>3
  <1> QED
    BY <1>1, <1>2, <1>3, <1>4, SpawnFailedStep

LEMMA OpenedStep ==
  ASSUME Inv, NEW h \in Handlers, Opened(h)
  PROVE  Step({h})
  <1> DEFINE o == doing[h].object
             x == [object[o] EXCEPT !.on = object[o].on \cup {h}]
  <1>1. /\ doing[h].at = "new" /\ object' = [object EXCEPT ![o] = x]
        /\ handle' = [handle EXCEPT ![h] = o] /\ viewOnly' = viewOnly \ {h}
        /\ excused' = excused \ {o}
        /\ doing' = [doing EXCEPT ![h] = Rest]
        /\ slot' = slot /\ idle' = idle /\ table' = table
        /\ reaper' = reaper /\ profiles' = profiles /\ stored' = stored
    BY DEF Opened, At, specs
  <1>2. object[o] \in ObjectType /\ o \in DOMAIN object /\ TypeOK /\ object[o].children \in {0, 1}
    BY <1>1, Works, InvFacts
  <1>3. /\ x \in ObjectType /\ x.name = object[o].name /\ x.children = object[o].children
        /\ x.on # {} /\ x.lock = object[o].lock
    BY <1>2 DEF ObjectType
  <1> HIDE DEF x
  <1>4. /\ object' \in Seq(ObjectType) /\ Len(object') = Len(object)
        /\ object'[o] = x /\ \A p \in DOMAIN object \ {o} : object'[p] = object[p]
        /\ \A p \in DOMAIN object :
             /\ object'[p].name = object[p].name /\ object'[p].children <= 1
             /\ \A g \in Handlers \ {h} :
                  object[p].lock = g
                    => object'[p].lock = g /\ object'[p].children <= object[p].children
    <2>1. x.children <= 1 /\ \A g \in Handlers \ {h} :
            object[o].lock = g => x.lock = g /\ x.children <= object[o].children
      BY <1>2, <1>3
    <2> HIDE DEF o
    <2> QED
      BY <1>1, <1>2, <1>3, <2>1, TouchFacts
  <1>5. /\ doing' \in [Handlers -> {Rest} \cup Busy(DOMAIN object)] /\ doing'[h] = Rest
        /\ \A g \in Handlers \ {h} : doing'[g] = doing[g]
        /\ Sound(h)'
    BY <1>1, <1>2, RestsFacts, RestIsSound
  <1>6. ASSUME NEW n \in Names, Exposed(n)', n \notin idle'
        PROVE  Exposed(n) /\ n \notin idle
    <2>1. slot[n] \in DOMAIN object /\ slot[n] # o
      BY <1>1, <1>2, <1>3, <1>4, <1>6, OtherFacts DEF Exposed
    <2> QED
      BY <1>1, <1>4, <1>5, <1>6, <2>1 DEF Exposed
  <1>7. /\ idle' \subseteq Names /\ table' \in [Handlers -> Names \cup {NoName}]
        /\ handle' \in [Handlers -> 0..Len(object)]
        /\ viewOnly' \subseteq Handlers /\ excused' \subseteq DOMAIN object
    BY <1>1, <1>2, OtherFacts, ObjectFacts
  <1> QED
    BY <1>1, <1>4, <1>5, <1>6, <1>7, LocalStep

(* A step that leaves the objects alone.                                   *)
LEMMA SameObjects ==
  ASSUME Inv, NEW h \in Handlers, object' = object
  PROVE  /\ object' \in Seq(ObjectType) /\ Len(object') = Len(object)
         /\ \A p \in DOMAIN object :
              /\ object'[p].name = object[p].name /\ object'[p].children <= 1
              /\ \A g \in Handlers \ {h} :
                   object[p].lock = g
                     => object'[p].lock = g /\ object'[p].children <= object[p].children
  BY InvFacts, ObjectFacts

LEMMA RaisesStep ==
  ASSUME Inv, NEW h \in Handlers, Raises(h)
  PROVE  Step({h})
  <1> DEFINE o == doing[h].object
  <1>1. /\ doing[h].at = "broken" /\ object' = object
        /\ excused' = (IF object[o].on = {} THEN excused \cup {o} ELSE excused)
        /\ doing' = [doing EXCEPT ![h] = Rest]
        /\ slot' = slot /\ idle' = idle /\ table' = table /\ handle' = handle
        /\ viewOnly' = viewOnly
        /\ reaper' = reaper /\ profiles' = profiles /\ stored' = stored
    BY DEF Raises, At, Spent, specs, processes, sessions
  <1>2. o \in DOMAIN object /\ TypeOK
    BY <1>1, Works, InvFacts
  <1>3. /\ doing' \in [Handlers -> {Rest} \cup Busy(DOMAIN object)] /\ doing'[h] = Rest
        /\ \A g \in Handlers \ {h} : doing'[g] = doing[g]
        /\ Sound(h)'
    BY <1>1, <1>2, RestsFacts, RestIsSound
  <1>4. ASSUME NEW n \in Names, Exposed(n)', n \notin idle'
        PROVE  Exposed(n) /\ n \notin idle
    BY <1>1, <1>3, <1>4 DEF Exposed
  <1>5. /\ idle' \subseteq Names /\ table' \in [Handlers -> Names \cup {NoName}]
        /\ handle' \in [Handlers -> 0..Len(object)]
        /\ viewOnly' \subseteq Handlers /\ excused' \subseteq DOMAIN object
    BY <1>1, <1>2, OtherFacts
  <1> QED
    BY <1>1, <1>3, <1>4, <1>5, SameObjects, LocalStep

(* A handler that rests closes its session's backend.                      *)
LEMMA HandleClosesStep ==
  ASSUME Inv, NEW h \in Handlers, doing[h] = Rest, HandleCloses(h, object),
         doing' = doing, slot' = slot, reaper' = reaper,
         profiles' = profiles, stored' = stored,
         table' \in [Handlers -> Names \cup {NoName}]
  PROVE  Step({h})
  <1>1. TypeOK /\ object \in Seq(ObjectType) /\ \A p \in DOMAIN object : object[p].children \in {0, 1}
    BY InvFacts, ObjectFacts
  <1>2. /\ object' \in Seq(ObjectType) /\ Len(object') = Len(object)
        /\ \A p \in DOMAIN object :
             /\ object'[p].name = object[p].name /\ object'[p].lock = object[p].lock
             /\ object'[p].children = object[p].children
             /\ p # handle[h] => object'[p] = object[p]
        /\ handle[h] # 0 => object'[handle[h]].on # {} \/ object[handle[h]].name \in idle'
        /\ idle \subseteq idle' /\ idle' \subseteq Names
        /\ excused' \subseteq DOMAIN object
        /\ \A p \in DOMAIN object : p # handle[h] /\ p \notin excused' => p \notin excused
        /\ handle' \in [Handlers -> 0..Len(object)] /\ viewOnly' \subseteq Handlers
    BY <1>1, HandleClosesFacts
  <1>3. \A p \in DOMAIN object :
          /\ object'[p].name = object[p].name /\ object'[p].children <= 1
          /\ \A g \in Handlers \ {h} :
               object[p].lock = g
                 => object'[p].lock = g /\ object'[p].children <= object[p].children
    BY <1>1, <1>2
  <1>4. ASSUME NEW n \in Names, Exposed(n)', n \notin idle'
        PROVE  Exposed(n) /\ n \notin idle
    <2>1. slot[n] \in DOMAIN object /\ slot[n] # 0 /\ object[slot[n]].name = n
      BY <1>1, <1>4, OtherFacts DEF Exposed, Inv, Placed
    <2>2. slot[n] # handle[h]
      BY <1>2, <1>4, <2>1 DEF Exposed
    <2> QED
      BY <1>2, <1>4, <2>1, <2>2 DEF Exposed
  <1>5. Sound(h)' /\ doing' \in [Handlers -> {Rest} \cup Busy(DOMAIN object)]
    BY <1>1, RestIsSound, DoingFacts
  <1> QED
    BY <1>2, <1>3, <1>4, <1>5, LocalStep

LEMMA CloseSessionStep ==
  ASSUME Inv, NEW h \in Handlers, CloseSession(h)
  PROVE  Step({h})
  <1>1. /\ doing' = doing /\ doing[h] = Rest /\ HandleCloses(h, object)
        /\ table' = [table EXCEPT ![h] = NoName]
        /\ slot' = slot /\ reaper' = reaper /\ profiles' = profiles /\ stored' = stored
    BY DEF CloseSession, Idle, specs
  <1>2. table' \in [Handlers -> Names \cup {NoName}]
    BY <1>1, InvFacts, OtherFacts
  <1> QED
    BY <1>1, <1>2, HandleClosesStep

LEMMA LeavesStep ==
  ASSUME Inv, NEW h \in Handlers, Leaves(h)
  PROVE  Step({h})
  <1>1. /\ doing' = doing /\ doing[h] = Rest /\ table' = table
        /\ slot' = slot /\ reaper' = reaper /\ profiles' = profiles /\ stored' = stored
    BY DEF Leaves, Idle, specs
  <1>2. TypeOK /\ Sound(h)' /\ table' \in [Handlers -> Names \cup {NoName}]
        /\ doing' \in [Handlers -> {Rest} \cup Busy(DOMAIN object)]
    BY <1>1, InvFacts, RestIsSound, DoingFacts, OtherFacts
  <1>3. CASE HandleCloses(h, object)
    BY <1>1, <1>2, <1>3, HandleClosesStep
  <1>4. CASE /\ handle' = [handle EXCEPT ![h] = 0] /\ viewOnly' = viewOnly \ {h}
             /\ object' = object /\ idle' = idle /\ excused' = excused
    <2>1. /\ handle' \in [Handlers -> 0..Len(object)] /\ viewOnly' \subseteq Handlers
          /\ idle' \subseteq Names /\ excused' \subseteq DOMAIN object
      BY <1>2, <1>4, OtherFacts, ObjectFacts
    <2>2. \A n \in Names : Exposed(n)' = Exposed(n)
      BY <1>1, <1>4 DEF Exposed
    <2> QED
      BY <1>1, <1>2, <1>4, <2>1, <2>2, SameObjects, LocalStep
  <1> QED
    BY <1>3, <1>4 DEF Leaves

(***************************************************************************)
(* The steps of a handler that obtains a process                           *)
(***************************************************************************)
LEMMA ObtainFacts ==
  ASSUME Inv, NEW h \in Handlers, NEW n \in Names, NEW op \in {"open", "start"},
         profiles[n] # 0, Obtain(h, op, n)
  PROVE  /\ object' \in Seq(ObjectType)
         /\ Len(object) <= Len(object') /\ Len(object') <= MaxObjects /\ Len(object') \in Nat
         /\ DOMAIN object \subseteq DOMAIN object' /\ DOMAIN object' = 1..Len(object')
         /\ \A p \in DOMAIN object : object'[p] = object[p]
         /\ \A p \in DOMAIN object' \ DOMAIN object :
              object'[p].children = 0 /\ object'[p].name = n
         /\ slot' \in [Names -> 0..Len(object')]
         /\ slot'[n] \in DOMAIN object'
         /\ slot'[n] = slot[n] \/ slot'[n] \notin DOMAIN object
         /\ \A m \in Names \ {n} : slot'[m] = slot[m]
         /\ doing' \in [Handlers -> {Rest} \cup Busy(DOMAIN object')]
         /\ doing'[h].object = slot'[n] /\ doing'[h].at = "lock" /\ doing'[h].op = op
         /\ \A g \in Handlers \ {h} : doing'[g] = doing[g]
  <1> DEFINE o == IF slot[n] # 0 THEN slot[n] ELSE Len(object) + 1
             d == [op |-> op, name |-> n, at |-> "lock", object |-> o, spec |-> 0]
  <1>1. /\ TypeOK /\ object \in Seq(ObjectType) /\ Len(object) \in Nat
        /\ DOMAIN object = 1..Len(object) /\ Len(object) <= MaxObjects /\ MaxObjects \in Nat
        /\ slot \in [Names -> 0..Len(object)]
        /\ slot[n] = 0 \/ slot[n] \in DOMAIN object
    BY InvFacts, ObjectFacts, OtherFacts, BoundsAssumption
  <1>2. /\ slot[n] = 0 => Len(object) < MaxObjects
        /\ object' = IF slot[n] # 0 THEN object ELSE Append(object, Fresh(n))
        /\ slot' = [slot EXCEPT ![n] = o]
        /\ doing' = [doing EXCEPT ![h] = d]
    BY DEF Obtain
  <1>3. Fresh(n) \in ObjectType /\ Fresh(n).children = 0 /\ Fresh(n).name = n
    BY DEF Fresh, ObjectType
  <1>4. /\ object' \in Seq(ObjectType)
        /\ Len(object) <= Len(object') /\ Len(object') <= MaxObjects /\ Len(object') \in Nat
        /\ DOMAIN object' = 1..Len(object') /\ o \in 1..Len(object')
        /\ \A p \in DOMAIN object : object'[p] = object[p]
        /\ \A p \in DOMAIN object' \ DOMAIN object :
             object'[p].children = 0 /\ object'[p].name = n
        /\ o = slot[n] \/ o \notin DOMAIN object
    <2>1. CASE slot[n] # 0
      BY <1>1, <1>2, <2>1
    <2>2. CASE slot[n] = 0
      <3>1. object' = Append(object, Fresh(n)) /\ o = Len(object) + 1
        BY <1>2, <2>2
      <3>2. /\ object' \in Seq(ObjectType) /\ Len(object') = Len(object) + 1
            /\ \A p \in 1..Len(object) : object'[p] = object[p]
            /\ object'[Len(object) + 1] = Fresh(n)
        BY <1>1, <1>3, <3>1, AppendProperties
      <3>3. DOMAIN object' = 1..(Len(object) + 1)
        BY <3>2, LenProperties
      <3> HIDE DEF o
      <3> QED
        BY <1>1, <1>2, <1>3, <2>2, <3>1, <3>2, <3>3
    <2> QED
      BY <2>1, <2>2
  <1>5. Busy(DOMAIN object) \subseteq Busy(DOMAIN object')
    BY <1>1, <1>4 DEF Busy
  <1> HIDE DEF o
  <1>6. d \in Busy(DOMAIN object') /\ d.object = o /\ d.at = "lock" /\ d.op = op
    BY <1>4, BoundsAssumption DEF Busy
  <1> HIDE DEF d
  <1>7. doing' \in [Handlers -> {Rest} \cup Busy(DOMAIN object')]
    BY <1>1, <1>2, <1>5, <1>6, DoingFacts
  <1>8. doing'[h] = d /\ \A g \in Handlers \ {h} : doing'[g] = doing[g]
    BY <1>1, <1>2, DoingFacts
  <1>9. /\ slot' \in [Names -> 0..Len(object')] /\ slot'[n] = o
        /\ \A m \in Names \ {n} : slot'[m] = slot[m]
    <2>1. 0..Len(object) \subseteq 0..Len(object') /\ o \in 0..Len(object')
      BY <1>1, <1>4
    <2>2. slot \in [Names -> 0..Len(object')]
      BY <1>1, <2>1
    <2> QED
      BY <1>2, <2>1, <2>2
  <1> QED
    BY <1>1, <1>4, <1>6, <1>7, <1>8, <1>9

LEMMA ObtainStep ==
  ASSUME Inv, NEW h \in Handlers, NEW n \in Names, NEW op \in {"open", "start"},
         profiles[n] # 0, Obtain(h, op, n), doing[h] = Rest,
         idle' \subseteq idle, idle \ idle' \subseteq {n},
         table' \in [Handlers -> Names \cup {NoName}],
         handle' = handle, viewOnly' = viewOnly, reaper' = reaper, excused' = excused,
         profiles' = profiles, stored' = stored
  PROVE  Step({h})
  <1>1. /\ object' \in Seq(ObjectType)
        /\ Len(object) <= Len(object') /\ Len(object') <= MaxObjects /\ Len(object') \in Nat
        /\ DOMAIN object \subseteq DOMAIN object' /\ DOMAIN object' = 1..Len(object')
        /\ \A p \in DOMAIN object : object'[p] = object[p]
        /\ \A p \in DOMAIN object' \ DOMAIN object :
             object'[p].children = 0 /\ object'[p].name = n
        /\ slot' \in [Names -> 0..Len(object')]
        /\ slot'[n] \in DOMAIN object'
        /\ slot'[n] = slot[n] \/ slot'[n] \notin DOMAIN object
        /\ \A m \in Names \ {n} : slot'[m] = slot[m]
        /\ doing' \in [Handlers -> {Rest} \cup Busy(DOMAIN object')]
        /\ doing'[h].object = slot'[n] /\ doing'[h].at = "lock" /\ doing'[h].op = op
        /\ \A g \in Handlers \ {h} : doing'[g] = doing[g]
    BY ObtainFacts
  <1>2. /\ TypeOK /\ Len(object) \in Nat /\ object \in Seq(ObjectType)
        /\ \A p \in DOMAIN object : object[p].children \in {0, 1}
        /\ reaper.object = 0 \/ reaper.object \in DOMAIN object
    BY InvFacts, ObjectFacts, OtherFacts
  <1>3. /\ handle' \in [Handlers -> 0..Len(object')] /\ viewOnly' \subseteq Handlers
        /\ reaper' \in [at : {"asleep", "scan", "close", "closed"}, todo : SUBSET Names,
                       name : Names \cup {NoName}, object : 0..Len(object')]
        /\ idle' \subseteq Names /\ excused' \subseteq DOMAIN object'
        /\ profiles' \in [Names -> 0..MaxVersion] /\ stored' \in [Names -> 0..MaxVersion]
    <2>1. 0..Len(object) \subseteq 0..Len(object')
      BY <1>1, <1>2
    <2> QED
      BY <1>1, <1>2, <2>1, OtherFacts
  <1>4. TypeOK'
    BY <1>1, <1>2, <1>3, KeepsTypes
  <1>5. OneChild' /\ PersistedMatches'
    BY <1>1, <1>2 DEF Inv, OneChild, PersistedMatches
  <1>6. ReaperKnows'
    BY <1>1, <1>2 DEF Inv, ReaperKnows
  <1>7. Sound(h)'
    BY <1>1 DEF Sound, Holds, OpensWhatIsNew, Removed
  <1>8. ASSUME NEW m \in Names, Exposed(m)', m \notin idle'
        PROVE  Exposed(m) /\ m \notin idle
    <2>1. m # n
      BY <1>1, <1>8 DEF Exposed
    <2>2. slot'[m] = slot[m] /\ slot[m] \in DOMAIN object /\ m \notin idle /\ slot[m] # 0
      BY <1>1, <1>2, <1>8, <2>1, OtherFacts DEF Exposed
    <2>3. doing[h].object # slot[m]
      BY <1>2, <2>2, DoingFacts
    <2> QED
      <3>1. object'[slot[m]] = object[slot[m]]
        BY <1>1, <2>2
      <3>2. /\ object'[slot[m]].children > 0 /\ object'[slot[m]].on = {}
            /\ slot[m] \notin excused /\ reaper.object # slot[m]
            /\ \A g \in Handlers : doing'[g].object # slot[m]
        BY <1>8, <2>2 DEF Exposed
      <3>3. \A g \in Handlers : doing[g].object # slot[m]
        BY <1>1, <2>3, <3>2
      <3> QED
        BY <2>2, <3>1, <3>2, <3>3 DEF Exposed
  <1>9. \A o \in DOMAIN object :
          /\ object'[o].name = object[o].name
          /\ \A g \in Handlers \ {h} :
               object[o].lock = g => object'[o].lock = g /\ object'[o].children <= object[o].children
    <2>1. \A o \in DOMAIN object :
            object'[o] = object[o] /\ object[o].children <= object[o].children
      <3>1. \A o \in DOMAIN object : object[o].children <= object[o].children
        BY <1>2
      <3> QED
        BY <1>1, <3>1
    <2> QED
      BY <2>1
  <1>10. \A m \in Names :
           \/ slot'[m] \in {0, slot[m]}
           \/ slot'[m] \notin DOMAIN object /\ object'[slot'[m]].name = m
    BY <1>1
  <1> QED
    BY <1>1, <1>4, <1>5, <1>6, <1>7, <1>8, <1>9, <1>10 DEF Step

LEMMA OpenStep ==
  ASSUME Inv, NEW h \in Handlers, NEW n \in Names, Open(h, n)
  PROVE  Step({h})
  <1>1. /\ doing[h] = Rest /\ profiles[n] # 0 /\ Obtain(h, "open", n)
        /\ idle' = idle \ {n} /\ table' = [table EXCEPT ![h] = n]
        /\ handle' = handle /\ viewOnly' = viewOnly /\ reaper' = reaper /\ excused' = excused
        /\ profiles' = profiles /\ stored' = stored
    BY DEF Open, Idle, specs
  <1>2. table' \in [Handlers -> Names \cup {NoName}]
    BY <1>1, InvFacts, OtherFacts
  <1>3. idle' \subseteq idle /\ idle \ idle' \subseteq {n}
    BY <1>1
  <1> QED
    BY <1>1, <1>2, <1>3, ObtainStep

LEMMA StartProfileStep ==
  ASSUME Inv, NEW h \in Handlers, NEW n \in Names, StartProfile(h, n)
  PROVE  Step({h})
  <1>1. /\ doing[h] = Rest /\ profiles[n] # 0 /\ Obtain(h, "start", n)
        /\ idle' = idle /\ table' = table
        /\ handle' = handle /\ viewOnly' = viewOnly /\ reaper' = reaper /\ excused' = excused
        /\ profiles' = profiles /\ stored' = stored
    BY DEF StartProfile, Idle, specs, sessions
  <1>2. table' \in [Handlers -> Names \cup {NoName}]
    BY <1>1, InvFacts, OtherFacts
  <1>3. idle' \subseteq idle /\ idle \ idle' \subseteq {n}
    BY <1>1
  <1> QED
    BY <1>1, <1>2, <1>3, ObtainStep

LEMMA ResumeStep ==
  ASSUME Inv, NEW h \in Handlers, NEW n \in Names, Resume(h, n)
  PROVE  Step({h})
  <1>1. /\ doing[h] = Rest /\ doing' = doing /\ object' = object
        /\ idle' = idle /\ table' = [table EXCEPT ![h] = n]
        /\ slot' = slot /\ handle' = handle
        /\ viewOnly' = viewOnly /\ reaper' = reaper /\ excused' = excused
        /\ profiles' = profiles /\ stored' = stored
    BY DEF Resume, Idle, specs, processes
  <1>2. /\ table' \in [Handlers -> Names \cup {NoName}]
        /\ handle' \in [Handlers -> 0..Len(object)] /\ viewOnly' \subseteq Handlers
        /\ idle' \subseteq Names /\ excused' \subseteq DOMAIN object
        /\ doing' \in [Handlers -> {Rest} \cup Busy(DOMAIN object)]
    BY <1>1, InvFacts, OtherFacts, DoingFacts
  <1>3. Sound(h)' /\ \A n_1 \in Names : Exposed(n_1)' = Exposed(n_1)
    BY <1>1, InvFacts, RestIsSound DEF Exposed
  <1> QED
    BY <1>1, <1>2, <1>3, SameObjects, LocalStep

(***************************************************************************)
(* The steps that take processes out of the table, or end them             *)
(***************************************************************************)
LEMMA LeavingStep ==
  ASSUME Inv, NEW H \in SUBSET Handlers,
         object' \in Seq(ObjectType), Len(object') = Len(object),
         \A o \in DOMAIN object :
           /\ object'[o].name = object[o].name /\ object'[o].lock = object[o].lock
           /\ object'[o].children <= object[o].children,
         doing' \in [Handlers -> {Rest} \cup Busy(DOMAIN object)],
         \A g \in Handlers \ H :
           \/ doing'[g] = doing[g]
           \/ doing[g].at = "new" /\ doing'[g] = [doing[g] EXCEPT !.at = "broken"],
         \A h \in H : Sound(h)',
         slot' \in [Names -> 0..Len(object)], \A n \in Names : slot'[n] \in {0, slot[n]},
         idle' \subseteq Names, table' = table, handle' = handle,
         viewOnly' = viewOnly, excused' = excused,
         profiles' \in [Names -> 0..MaxVersion], stored' \in [Names -> 0..MaxVersion],
         PersistedMatches', ReaperKnows',
         reaper' \in [at : {"asleep", "scan", "close", "closed"}, todo : SUBSET Names,
                     name : Names \cup {NoName}, object : 0..Len(object)],
         \A n \in Names : Exposed(n)' /\ n \notin idle' => Exposed(n) /\ n \notin idle
  PROVE  Step(H)
  <1>1. TypeOK /\ \A o \in DOMAIN object : object[o].children \in {0, 1}
    BY InvFacts
  <1>2. DOMAIN object' = DOMAIN object /\ \A o \in DOMAIN object : object'[o].children \in Nat
    <2>1. DOMAIN object' = DOMAIN object
      BY <1>1, ObjectFacts, LenProperties
    <2>2. \A o \in DOMAIN object' : object'[o] \in ObjectType
      BY LenProperties, ElementOfSeq
    <2> QED
      BY <2>1, <2>2 DEF ObjectType
  <1>3. TypeOK'
    BY <1>1, <1>2, ObjectFacts, OtherFacts, KeepsTypes
  <1>4. OneChild'
    <2> SUFFICES ASSUME NEW o \in DOMAIN object
                 PROVE  object'[o].children <= 1
      BY <1>2 DEF OneChild
    <2>1. /\ object[o].children \in {0, 1} /\ object'[o].children \in Nat
          /\ object'[o].children <= object[o].children
      BY <1>1, <1>2
    <2> QED
      BY <2>1
  <1> QED
    BY <1>2, <1>3, <1>4 DEF Step

(* What the step needs when it leaves some variables as they are.          *)
LEMMA Unchanged ==
  ASSUME Inv
  PROVE  /\ TypeOK
         /\ slot' = slot =>
              slot' \in [Names -> 0..Len(object)] /\ \A n \in Names : slot'[n] \in {0, slot[n]}
         /\ profiles' = profiles /\ stored' = stored =>
              /\ profiles' \in [Names -> 0..MaxVersion] /\ stored' \in [Names -> 0..MaxVersion]
              /\ PersistedMatches'
         /\ reaper' = reaper =>
              reaper' \in [at : {"asleep", "scan", "close", "closed"}, todo : SUBSET Names,
                          name : Names \cup {NoName}, object : 0..Len(object)]
         /\ reaper' = reaper
              /\ (\A o \in DOMAIN object : object'[o].name = object[o].name)
              => ReaperKnows'
         /\ reaper.object = 0 \/ reaper.object \in DOMAIN object
  <1>1. TypeOK
    BY DEF Inv
  <1>2. reaper.object = 0 \/ reaper.object \in DOMAIN object
    BY <1>1, OtherFacts, ObjectFacts
  <1>3. reaper' = reaper /\ (\A o \in DOMAIN object : object'[o].name = object[o].name)
          => ReaperKnows'
    BY <1>2 DEF Inv, ReaperKnows
  <1>4. profiles' = profiles /\ stored' = stored => PersistedMatches'
    BY DEF Inv, PersistedMatches
  <1> QED
    BY <1>1, <1>2, <1>3, <1>4, OtherFacts

LEMMA AppliedFacts ==
  ASSUME Inv, NEW n \in Names, NEW spec \in 0..MaxVersion, NEW op, Applied(op, n, spec)
  PROVE  /\ profiles' \in [Names -> 0..MaxVersion] /\ stored' \in [Names -> 0..MaxVersion]
         /\ PersistedMatches'
  <1>1. /\ profiles \in [Names -> 0..MaxVersion] /\ stored \in [Names -> 0..MaxVersion]
        /\ \A m \in Names \ Static : profiles[m] = stored[m]
    BY InvFacts, OtherFacts DEF Inv, PersistedMatches
  <1>2. CASE UNCHANGED specs
    BY <1>1, <1>2 DEF specs, PersistedMatches
  <1>3. CASE /\ profiles' = [profiles EXCEPT ![n] = spec]
             /\ stored' = [stored EXCEPT ![n] = spec]
    BY <1>1, <1>3 DEF PersistedMatches
  <1> QED
    BY <1>2, <1>3 DEF Applied

LEMMA StopStep ==
  ASSUME Inv, NEW h \in Handlers, NEW n \in Names, NEW op \in {"stop", "update", "delete"},
         NEW spec \in 0..MaxVersion, Stop(h, op, n, spec)
  PROVE  Step({h})
  <1> DEFINE o == slot[n]
             d == [op |-> op, name |-> n, at |-> "close", object |-> o, spec |-> spec]
  <1>1. /\ doing[h] = Rest /\ slot' = [slot EXCEPT ![n] = 0] /\ idle' = idle \ {n}
        /\ table' = table /\ handle' = handle
        /\ viewOnly' = viewOnly /\ reaper' = reaper /\ excused' = excused
    BY DEF Stop, Idle, sessions
  <1>2. /\ TypeOK /\ slot \in [Names -> 0..Len(object)] /\ Len(object) \in Nat
        /\ idle \subseteq Names
        /\ \A m \in Names : slot[m] = 0 \/ slot[m] \in DOMAIN object
        /\ \A p \in DOMAIN object : p # 0 /\ object[p].children \in {0, 1}
        /\ doing[h].object = 0
    BY <1>1, InvFacts, ObjectFacts, OtherFacts, DoingFacts
  <1>3. /\ slot' \in [Names -> 0..Len(object)] /\ slot'[n] = 0
        /\ \A m \in Names \ {n} : slot'[m] = slot[m]
        /\ \A m \in Names : slot'[m] \in {0, slot[m]}
        /\ idle' \subseteq Names
    BY <1>1, <1>2
  <1>4. CASE o = 0 /\ Applied(op, n, spec) /\ object' = object /\ doing' = doing
    <2>1. /\ profiles' \in [Names -> 0..MaxVersion] /\ stored' \in [Names -> 0..MaxVersion]
          /\ PersistedMatches'
      BY <1>4, AppliedFacts
    <2>2. /\ Sound(h)' /\ doing' \in [Handlers -> {Rest} \cup Busy(DOMAIN object)]
          /\ object' \in Seq(ObjectType)
      BY <1>1, <1>2, <1>4, RestIsSound, DoingFacts, ObjectFacts
    <2>3. \A p \in DOMAIN object :
            /\ object'[p].name = object[p].name /\ object'[p].lock = object[p].lock
            /\ object'[p].children <= object[p].children
      BY <1>2, <1>4
    <2>4. ASSUME NEW m \in Names, Exposed(m)', m \notin idle'
          PROVE  Exposed(m) /\ m \notin idle
      BY <1>1, <1>3, <1>4, <2>4 DEF Exposed
    <2>5. /\ ReaperKnows'
          /\ reaper' \in [at : {"asleep", "scan", "close", "closed"}, todo : SUBSET Names,
                         name : Names \cup {NoName}, object : 0..Len(object)]
      BY <1>1, <2>3, Unchanged
    <2> QED
      BY <1>1, <1>3, <1>4, <2>1, <2>2, <2>3, <2>4, <2>5, LeavingStep
  <1>5. CASE /\ o # 0 /\ object' = Dropped(o)
             /\ doing' = [Broken(o, doing) EXCEPT ![h] = d]
             /\ profiles' = profiles /\ stored' = stored
    <2>1. o \in DOMAIN object
      BY <1>2, <1>5
    <2>2. /\ object' \in Seq(ObjectType) /\ Len(object') = Len(object)
          /\ \A p \in DOMAIN object :
               /\ object'[p].name = object[p].name /\ object'[p].lock = object[p].lock
               /\ object'[p].children <= object[p].children
          /\ \A p \in DOMAIN object \ {o} : object'[p] = object[p]
      <3> HIDE DEF o
      <3>1. /\ object' \in Seq(ObjectType) /\ Len(object') = Len(object)
            /\ object'[o].name = object[o].name /\ object'[o].lock = object[o].lock
            /\ object'[o].children = object[o].children
            /\ \A p \in DOMAIN object \ {o} : object'[p] = object[p]
        BY <1>2, <1>5, <2>1, DroppedFacts
      <3>2. \A p \in DOMAIN object : object[p].children <= object[p].children
        BY <1>2
      <3> QED
        BY <3>1, <3>2
    <2>3. d \in Busy(DOMAIN object) /\ d.at = "close" /\ d.object = o
      BY <2>1 DEF Busy
    <2> HIDE DEF d
    <2>4. /\ doing' \in [Handlers -> {Rest} \cup Busy(DOMAIN object)] /\ doing'[h] = d
          /\ \A g \in Handlers \ {h} :
               \/ doing'[g] = doing[g]
               \/ doing[g].at = "new" /\ doing'[g] = [doing[g] EXCEPT !.at = "broken"]
      BY <1>2, <1>5, <2>3, BrokenFacts
    <2>5. \A m \in Names \ {n} : slot[m] # o
      BY <1>2, <1>5 DEF Inv, Placed
    <2>6. Sound(h)'
      BY <1>3, <1>5, <2>3, <2>4, <2>5 DEF Sound, Holds, OpensWhatIsNew, Removed
    <2>7. \A g \in Handlers \ {h} : doing'[g].object = doing[g].object
      BY <1>2, <2>4, DoingFacts DEF Busy
    <2>8. ASSUME NEW m \in Names, Exposed(m)', m \notin idle'
          PROVE  Exposed(m) /\ m \notin idle
      <3>1. m # n /\ slot'[m] = slot[m] /\ slot[m] # 0 /\ slot[m] \in DOMAIN object /\ slot[m] # o
        BY <1>2, <1>3, <2>5, <2>8 DEF Exposed
      <3>2. object'[slot[m]] = object[slot[m]]
        BY <2>2, <3>1
      <3> QED
        BY <1>1, <1>2, <2>7, <2>8, <3>1, <3>2 DEF Exposed
    <2>9. /\ ReaperKnows' /\ PersistedMatches'
          /\ profiles' \in [Names -> 0..MaxVersion] /\ stored' \in [Names -> 0..MaxVersion]
          /\ reaper' \in [at : {"asleep", "scan", "close", "closed"}, todo : SUBSET Names,
                         name : Names \cup {NoName}, object : 0..Len(object)]
      BY <1>1, <1>5, <2>2, Unchanged
    <2> QED
      BY <1>1, <1>3, <2>2, <2>4, <2>6, <2>8, <2>9, LeavingStep
  <1> QED
    BY <1>4, <1>5 DEF Stop, specs

LEMMA KilledStep ==
  ASSUME Inv, NEW h \in Handlers, Killed(h)
  PROVE  Step({h})
  <1> DEFINE o == doing[h].object
  <1>1. /\ doing[h].at = "close" /\ object' = Kill(o) /\ Goes(h, "closed")
        /\ slot' = slot /\ idle' = idle /\ table' = table /\ handle' = handle
        /\ viewOnly' = viewOnly
        /\ reaper' = reaper /\ excused' = excused /\ profiles' = profiles /\ stored' = stored
    BY DEF Killed, At, specs, sessions
  <1>2. /\ TypeOK /\ o \in DOMAIN object /\ Removed(h)
        /\ \A p \in DOMAIN object : object[p].children \in {0, 1}
    BY <1>1, Works, InvFacts DEF Sound
  <1>3. /\ doing' \in [Handlers -> {Rest} \cup Busy(DOMAIN object)]
        /\ doing'[h].at = "closed" /\ doing'[h].object = o
        /\ \A g \in Handlers \ {h} : doing'[g] = doing[g]
    BY <1>1, <1>2, GoesFacts
  <1>4. Sound(h)'
    BY <1>1, <1>2, <1>3 DEF Sound, Holds, OpensWhatIsNew, Removed
  <1>5. /\ object' \in Seq(ObjectType) /\ Len(object') = Len(object)
        /\ object'[o].name = object[o].name /\ object'[o].lock = object[o].lock
        /\ object'[o].children = 0
        /\ \A p \in DOMAIN object \ {o} : object'[p] = object[p]
    BY <1>1, <1>2, KillFacts
  <1>6. \A p \in DOMAIN object :
          /\ object'[p].name = object[p].name /\ object'[p].lock = object[p].lock
          /\ object'[p].children <= object[p].children
    BY <1>2, <1>5
  <1>7. ASSUME NEW m \in Names, Exposed(m)', m \notin idle'
        PROVE  Exposed(m) /\ m \notin idle
    <2>1. slot[m] \in DOMAIN object /\ slot[m] # o
      BY <1>1, <1>2, <1>3, <1>7, OtherFacts DEF Exposed
    <2> QED
      BY <1>1, <1>3, <1>5, <1>7, <2>1 DEF Exposed
  <1>8. idle' \subseteq Names
    BY <1>1, <1>2, OtherFacts
  <1> QED
    BY <1>1, <1>3, <1>4, <1>5, <1>6, <1>7, <1>8, Unchanged, LeavingStep

LEMMA FinishesStep ==
  ASSUME Inv, NEW h \in Handlers, Finishes(h)
  PROVE  Step({h})
  <1>1. /\ doing[h].at = "closed" /\ Applied(doing[h].op, doing[h].name, doing[h].spec)
        /\ doing' = [doing EXCEPT ![h] = Rest] /\ object' = object
        /\ slot' = slot /\ idle' = idle /\ table' = table /\ handle' = handle
        /\ viewOnly' = viewOnly
        /\ reaper' = reaper /\ excused' = excused
    BY DEF Finishes, At, processes, sessions
  <1>2. TypeOK /\ Removed(h) /\ doing[h].name \in Names /\ doing[h].spec \in 0..MaxVersion
    BY <1>1, Works, InvFacts DEF Sound, Busy
  <1>3. /\ doing' \in [Handlers -> {Rest} \cup Busy(DOMAIN object)] /\ doing'[h] = Rest
        /\ \A g \in Handlers \ {h} : doing'[g] = doing[g]
        /\ Sound(h)'
    BY <1>1, <1>2, RestsFacts, RestIsSound
  <1>4. /\ profiles' \in [Names -> 0..MaxVersion] /\ stored' \in [Names -> 0..MaxVersion]
        /\ PersistedMatches'
    BY <1>1, <1>2, AppliedFacts
  <1>5. ASSUME NEW m \in Names, Exposed(m)', m \notin idle'
        PROVE  Exposed(m) /\ m \notin idle
    BY <1>1, <1>2, <1>3, <1>5 DEF Exposed, Removed
  <1>6. /\ object' \in Seq(ObjectType) /\ Len(object') = Len(object)
        /\ \A p \in DOMAIN object :
             /\ object'[p].name = object[p].name /\ object'[p].lock = object[p].lock
             /\ object'[p].children <= object[p].children
    BY <1>1, InvFacts, ObjectFacts
  <1>7. idle' \subseteq Names
    BY <1>1, <1>2, OtherFacts
  <1> QED
    BY <1>1, <1>3, <1>4, <1>5, <1>6, <1>7, Unchanged, LeavingStep

LEMMA CreateProfileStep ==
  ASSUME Inv, NEW h \in Handlers, NEW n \in Names, NEW spec \in 0..MaxVersion,
         CreateProfile(h, n, spec)
  PROVE  Step({h})
  <1>1. /\ doing[h] = Rest /\ doing' = doing /\ object' = object
        /\ slot' = slot /\ idle' = idle /\ table' = table /\ handle' = handle
        /\ viewOnly' = viewOnly
        /\ reaper' = reaper /\ excused' = excused
        /\ profiles' = [profiles EXCEPT ![n] = spec] /\ stored' = [stored EXCEPT ![n] = spec]
    BY DEF CreateProfile, Idle, processes, sessions
  <1>2. /\ profiles' \in [Names -> 0..MaxVersion] /\ stored' \in [Names -> 0..MaxVersion]
        /\ PersistedMatches'
    BY <1>1, InvFacts, OtherFacts DEF Inv, PersistedMatches
  <1>3. /\ doing' \in [Handlers -> {Rest} \cup Busy(DOMAIN object)] /\ Sound(h)'
        /\ idle' \subseteq Names
    BY <1>1, InvFacts, RestIsSound, DoingFacts, OtherFacts
  <1>4. \A m \in Names : Exposed(m)' = Exposed(m)
    BY <1>1 DEF Exposed
  <1>5. /\ object' \in Seq(ObjectType) /\ Len(object') = Len(object)
        /\ \A p \in DOMAIN object :
             /\ object'[p].name = object[p].name /\ object'[p].lock = object[p].lock
             /\ object'[p].children <= object[p].children
    BY <1>1, InvFacts, ObjectFacts
  <1> QED
    BY <1>1, <1>2, <1>3, <1>4, <1>5, Unchanged, LeavingStep

(***************************************************************************)
(* The reaper, and crashes                                                 *)
(***************************************************************************)

(* A step of the reaper alone: the objects stay.                           *)
LEMMA ReaperAlone ==
  ASSUME Inv, object' = object, doing' = doing, table' = table, handle' = handle,
         viewOnly' = viewOnly,
         excused' = excused, profiles' = profiles, stored' = stored,
         slot' \in [Names -> 0..Len(object)], \A n \in Names : slot'[n] \in {0, slot[n]},
         idle' \subseteq Names, ReaperKnows',
         reaper' \in [at : {"asleep", "scan", "close", "closed"}, todo : SUBSET Names,
                     name : Names \cup {NoName}, object : 0..Len(object)],
         \A n \in Names : Exposed(n)' /\ n \notin idle' => Exposed(n) /\ n \notin idle
  PROVE  Step({})
  <1>1. /\ object' \in Seq(ObjectType) /\ Len(object') = Len(object)
        /\ \A p \in DOMAIN object :
             /\ object'[p].name = object[p].name /\ object'[p].lock = object[p].lock
             /\ object'[p].children <= object[p].children
    BY InvFacts, ObjectFacts
  <1>2. /\ doing' \in [Handlers -> {Rest} \cup Busy(DOMAIN object)]
        /\ \A g \in Handlers \ {} : doing'[g] = doing[g]
        /\ \A h \in {} : Sound(h)'
    BY InvFacts, DoingFacts
  <1>3. /\ profiles' \in [Names -> 0..MaxVersion] /\ stored' \in [Names -> 0..MaxVersion]
        /\ PersistedMatches'
    BY Unchanged
  <1>4. {} \in SUBSET Handlers
    OBVIOUS
  <1> QED
    BY <1>1, <1>2, <1>3, <1>4, LeavingStep

LEMMA ScannedFacts ==
  ASSUME TypeOK, NEW n \in Names
  PROVE  /\ Scanned(n) \in [at : {"asleep", "scan", "close", "closed"}, todo : SUBSET Names,
                           name : Names \cup {NoName}, object : 0..Len(object)]
         /\ Scanned(n).at \in {"asleep", "scan"} /\ Scanned(n).object = 0
  <1>1. reaper.todo \subseteq Names /\ 0 \in 0..Len(object)
    BY OtherFacts, ObjectFacts
  <1> QED
    BY <1>1 DEF Scanned, Asleep

LEMMA WakesStep ==
  ASSUME Inv, Wakes
  PROVE  Step({})
  <1>1. /\ object' = object /\ doing' = doing /\ table' = table /\ handle' = handle
        /\ viewOnly' = viewOnly
        /\ excused' = excused /\ profiles' = profiles /\ stored' = stored
        /\ slot' = slot /\ idle' = idle
        /\ reaper = Asleep /\ reaper' = [reaper EXCEPT !.at = "scan", !.todo = idle]
    BY DEF Wakes, specs, processes, sessions
  <1>2. TypeOK /\ idle \subseteq Names /\ 0 \in 0..Len(object)
    BY InvFacts, OtherFacts, ObjectFacts
  <1>3. /\ reaper' \in [at : {"asleep", "scan", "close", "closed"}, todo : SUBSET Names,
                       name : Names \cup {NoName}, object : 0..Len(object)]
        /\ reaper'.at = "scan" /\ reaper'.object = 0 /\ reaper.object = 0
    BY <1>1, <1>2 DEF Asleep
  <1>4. ReaperKnows' /\ \A n \in Names : Exposed(n)' = Exposed(n)
    BY <1>1, <1>3 DEF ReaperKnows, Exposed
  <1> QED
    BY <1>1, <1>2, <1>3, <1>4, Unchanged, ReaperAlone

LEMMA SparesStep ==
  ASSUME Inv, NEW n \in Names, Spares(n)
  PROVE  Step({})
  <1>1. /\ object' = object /\ doing' = doing /\ table' = table /\ handle' = handle
        /\ viewOnly' = viewOnly
        /\ excused' = excused /\ profiles' = profiles /\ stored' = stored
        /\ slot' = slot /\ idle' = IF slot[n] = 0 THEN idle \ {n} ELSE idle
        /\ reaper.at = "scan" /\ reaper' = Scanned(n)
    BY DEF Spares, specs, sessions
  <1>2. TypeOK /\ idle' \subseteq Names /\ reaper.object = 0
    BY <1>1, InvFacts, OtherFacts DEF Inv, ReaperKnows
  <1>3. /\ reaper' \in [at : {"asleep", "scan", "close", "closed"}, todo : SUBSET Names,
                       name : Names \cup {NoName}, object : 0..Len(object)]
        /\ reaper'.at \in {"asleep", "scan"} /\ reaper'.object = 0
    BY <1>1, <1>2, ScannedFacts
  <1>4. ReaperKnows'
    BY <1>3 DEF ReaperKnows
  <1>5. ASSUME NEW m \in Names, Exposed(m)', m \notin idle'
        PROVE  Exposed(m) /\ m \notin idle
    BY <1>1, <1>2, <1>3, <1>5 DEF Exposed
  <1> QED
    BY <1>1, <1>2, <1>3, <1>4, <1>5, Unchanged, ReaperAlone

LEMMA ReapForgetsStep ==
  ASSUME Inv, ReapForgets
  PROVE  Step({})
  <1> DEFINE n == reaper.name
  <1>1. /\ object' = object /\ doing' = doing /\ table' = table /\ handle' = handle
        /\ viewOnly' = viewOnly
        /\ excused' = excused /\ profiles' = profiles /\ stored' = stored
        /\ slot' = [slot EXCEPT ![n] = 0] /\ idle' = idle \ {n}
        /\ reaper.at = "closed" /\ reaper' = Scanned(n)
    BY DEF ReapForgets, specs, sessions
  <1>2. /\ TypeOK /\ n \in Names /\ object[reaper.object].name = n
        /\ idle' \subseteq Names /\ slot \in [Names -> 0..Len(object)]
        /\ Len(object) \in Nat
    BY <1>1, InvFacts, OtherFacts, ObjectFacts DEF Inv, ReaperKnows
  <1>3. /\ slot' \in [Names -> 0..Len(object)] /\ slot'[n] = 0
        /\ \A m \in Names \ {n} : slot'[m] = slot[m]
        /\ \A m \in Names : slot'[m] \in {0, slot[m]}
    BY <1>1, <1>2
  <1>4. /\ reaper' \in [at : {"asleep", "scan", "close", "closed"}, todo : SUBSET Names,
                       name : Names \cup {NoName}, object : 0..Len(object)]
        /\ reaper'.at \in {"asleep", "scan"} /\ reaper'.object = 0
    BY <1>1, <1>2, ScannedFacts
  <1>5. ReaperKnows'
    BY <1>4 DEF ReaperKnows
  <1>6. ASSUME NEW m \in Names, Exposed(m)', m \notin idle'
        PROVE  Exposed(m) /\ m \notin idle
    <2>1. m # n /\ slot'[m] = slot[m] /\ slot[m] # 0
      BY <1>3, <1>6 DEF Exposed
    <2>2. slot[m] # reaper.object
      BY <1>2, <2>1 DEF Inv, Placed
    <2> QED
      BY <1>1, <1>6, <2>1, <2>2 DEF Exposed
  <1> QED
    BY <1>1, <1>2, <1>3, <1>4, <1>5, <1>6, ReaperAlone

LEMMA ReapKillsStep ==
  ASSUME Inv, ReapKills
  PROVE  Step({})
  <1> DEFINE o == reaper.object
  <1>1. /\ object' = Kill(o) /\ doing' = doing /\ table' = table /\ handle' = handle
        /\ viewOnly' = viewOnly
        /\ excused' = excused /\ profiles' = profiles /\ stored' = stored
        /\ slot' = slot /\ idle' = idle
        /\ reaper.at = "close" /\ reaper' = [reaper EXCEPT !.at = "closed"]
    BY DEF ReapKills, specs, sessions
  <1>2. /\ TypeOK /\ idle \subseteq Names /\ o \in DOMAIN object
        /\ o # 0 /\ reaper.name \in Names /\ object[o].name = reaper.name
        /\ \A p \in DOMAIN object : object[p].children \in {0, 1}
    BY <1>1, InvFacts, OtherFacts, ObjectFacts DEF Inv, ReaperKnows
  <1>3. /\ reaper' \in [at : {"asleep", "scan", "close", "closed"}, todo : SUBSET Names,
                       name : Names \cup {NoName}, object : 0..Len(object)]
        /\ reaper'.at = "closed" /\ reaper'.object = o /\ reaper'.name = reaper.name
    BY <1>1, <1>2, OtherFacts
  <1>4. /\ object' \in Seq(ObjectType) /\ Len(object') = Len(object)
        /\ object'[o].name = object[o].name /\ object'[o].lock = object[o].lock
        /\ object'[o].children = 0
        /\ \A p \in DOMAIN object \ {o} : object'[p] = object[p]
    BY <1>1, <1>2, KillFacts
  <1>5. \A p \in DOMAIN object :
          /\ object'[p].name = object[p].name /\ object'[p].lock = object[p].lock
          /\ object'[p].children <= object[p].children
    BY <1>2, <1>4
  <1>6. ReaperKnows'
    BY <1>2, <1>3, <1>4 DEF ReaperKnows
  <1>7. ASSUME NEW m \in Names, Exposed(m)', m \notin idle'
        PROVE  Exposed(m) /\ m \notin idle
    <2>1. slot[m] \in DOMAIN object /\ slot[m] # o
      BY <1>1, <1>2, <1>3, <1>7, OtherFacts DEF Exposed
    <2> QED
      BY <1>1, <1>4, <1>7, <2>1 DEF Exposed
  <1>8. /\ doing' \in [Handlers -> {Rest} \cup Busy(DOMAIN object)]
        /\ \A g \in Handlers \ {} : doing'[g] = doing[g]
        /\ \A h \in {} : Sound(h)'
        /\ {} \in SUBSET Handlers
    BY <1>1, <1>2, DoingFacts
  <1> QED
    BY <1>1, <1>2, <1>3, <1>4, <1>5, <1>6, <1>7, <1>8, Unchanged, LeavingStep

LEMMA ReapsStep ==
  ASSUME Inv, NEW n \in Names, Reaps(n)
  PROVE  Step({})
  <1> DEFINE o == slot[n]
  <1>1. /\ object' = Dropped(o) /\ doing' = Broken(o, doing) /\ table' = table
        /\ handle' = handle
        /\ viewOnly' = viewOnly /\ excused' = excused /\ profiles' = profiles /\ stored' = stored
        /\ slot' = slot /\ idle' = idle /\ reaper.at = "scan" /\ o # 0
        /\ reaper' = [reaper EXCEPT !.at = "close", !.name = n, !.object = o]
    BY DEF Reaps, specs, sessions
  <1>2. /\ TypeOK /\ idle \subseteq Names /\ o \in DOMAIN object /\ o \in 0..Len(object)
        /\ object[o].name = n /\ reaper.object = 0
        /\ \A p \in DOMAIN object : object[p].children \in {0, 1}
    BY <1>1, InvFacts, OtherFacts DEF Inv, Placed, ReaperKnows
  <1>3. /\ reaper' \in [at : {"asleep", "scan", "close", "closed"}, todo : SUBSET Names,
                       name : Names \cup {NoName}, object : 0..Len(object)]
        /\ reaper'.at = "close" /\ reaper'.object = o /\ reaper'.name = n
    BY <1>1, <1>2, OtherFacts
  <1>4. /\ object' \in Seq(ObjectType) /\ Len(object') = Len(object)
        /\ object'[o].name = object[o].name /\ object'[o].lock = object[o].lock
        /\ object'[o].children = object[o].children
        /\ \A p \in DOMAIN object \ {o} : object'[p] = object[p]
    <2> HIDE DEF o
    <2> QED
      BY <1>1, <1>2, DroppedFacts
  <1>5. \A p \in DOMAIN object :
          /\ object'[p].name = object[p].name /\ object'[p].lock = object[p].lock
          /\ object'[p].children <= object[p].children
    BY <1>2, <1>4
  <1>6. ReaperKnows'
    BY <1>1, <1>2, <1>3, <1>4 DEF ReaperKnows
  <1>7. /\ doing' \in [Handlers -> {Rest} \cup Busy(DOMAIN object)]
        /\ \A g \in Handlers \ {} :
             \/ doing'[g] = doing[g]
             \/ doing[g].at = "new" /\ doing'[g] = [doing[g] EXCEPT !.at = "broken"]
        /\ \A h \in {} : Sound(h)'
        /\ {} \in SUBSET Handlers
    BY <1>1, <1>2, BrokenFacts
  <1>8. \A g \in Handlers : doing'[g].object = doing[g].object
    BY <1>2, <1>7, DoingFacts DEF Busy
  <1>9. ASSUME NEW m \in Names, Exposed(m)', m \notin idle'
        PROVE  Exposed(m) /\ m \notin idle
    <2>1. slot[m] \in DOMAIN object /\ slot[m] # o /\ slot[m] # 0
      BY <1>1, <1>2, <1>3, <1>9, OtherFacts DEF Exposed
    <2> QED
      BY <1>1, <1>2, <1>4, <1>8, <1>9, <2>1 DEF Exposed
  <1> QED
    BY <1>1, <1>2, <1>3, <1>4, <1>5, <1>6, <1>7, <1>9, Unchanged, LeavingStep

LEMMA CrashStep ==
  ASSUME Inv, NEW o \in DOMAIN object, Crash(o)
  PROVE  Step({})
  <1> DEFINE on == IF object[o].closing THEN object[o].on ELSE {}
             x == [object[o] EXCEPT !.children = object[o].children - 1, !.conn = FALSE,
                                    !.on = on]
  <1>1. /\ object[o].children > 0 /\ object' = [object EXCEPT ![o] = x]
        /\ doing' = Broken(o, doing) /\ table' = table
        /\ handle' = handle
        /\ viewOnly' = viewOnly /\ excused' = excused /\ profiles' = profiles /\ stored' = stored
        /\ slot' = slot /\ idle' = idle /\ reaper' = reaper
    BY DEF Crash, Running, specs, sessions
  <1>2. /\ TypeOK /\ idle \subseteq Names /\ object[o] \in ObjectType
        /\ object \in Seq(ObjectType)
        /\ \A p \in DOMAIN object : object[p].children \in {0, 1}
    BY InvFacts, ObjectFacts, OtherFacts
  <1>3. object[o].children - 1 = 0 /\ on \in SUBSET Handlers
    BY <1>1, <1>2 DEF ObjectType
  <1> HIDE DEF on
  <1>4. x \in ObjectType /\ x.name = object[o].name /\ x.lock = object[o].lock /\ x.children = 0
    <2>1. x = [object[o] EXCEPT !.children = 0, !.conn = FALSE, !.on = on]
      BY <1>3
    <2> HIDE DEF x
    <2> QED
      BY <1>2, <1>3, <2>1 DEF ObjectType
  <1> HIDE DEF x
  <1>5. /\ object' \in Seq(ObjectType) /\ Len(object') = Len(object) /\ object'[o] = x
        /\ \A p \in DOMAIN object \ {o} : object'[p] = object[p]
    BY <1>1, <1>2, <1>4, Touches
  <1>6. \A p \in DOMAIN object :
          /\ object'[p].name = object[p].name /\ object'[p].lock = object[p].lock
          /\ object'[p].children <= object[p].children
    BY <1>2, <1>4, <1>5
  <1>7. /\ doing' \in [Handlers -> {Rest} \cup Busy(DOMAIN object)]
        /\ \A g \in Handlers \ {} :
             \/ doing'[g] = doing[g]
             \/ doing[g].at = "new" /\ doing'[g] = [doing[g] EXCEPT !.at = "broken"]
        /\ \A h \in {} : Sound(h)'
        /\ {} \in SUBSET Handlers
    BY <1>1, <1>2, BrokenFacts
  <1>8. \A g \in Handlers : doing'[g].object = doing[g].object
    BY <1>2, <1>7, DoingFacts DEF Busy
  <1>9. ASSUME NEW m \in Names, Exposed(m)', m \notin idle'
        PROVE  Exposed(m) /\ m \notin idle
    <2>1. slot[m] \in DOMAIN object /\ slot[m] # o /\ slot[m] # 0
      BY <1>1, <1>2, <1>4, <1>5, <1>9, OtherFacts DEF Exposed
    <2> QED
      BY <1>1, <1>5, <1>8, <1>9, <2>1 DEF Exposed
  <1> QED
    BY <1>1, <1>2, <1>5, <1>6, <1>7, <1>9, Unchanged, LeavingStep

-----------------------------------------------------------------------------
(***************************************************************************)
(* The invariant holds                                                     *)
(***************************************************************************)

(* No process, no session, and nobody at work: the beginning and a restart.*)
LEMMA NothingRuns ==
  ASSUME slot = [n \in Names |-> 0], idle = {}, object = <<>>,
         table = [h \in Handlers |-> NoName], handle = [h \in Handlers |-> 0], viewOnly = {},
         doing = [h \in Handlers |-> Rest], reaper = Asleep, excused = {},
         profiles \in [Names -> 0..MaxVersion], stored \in [Names -> 0..MaxVersion],
         PersistedMatches
  PROVE  Inv
  <1>1. object \in Seq(ObjectType) /\ Len(object) = 0 /\ DOMAIN object = {}
    BY EmptySeq, LenProperties
  <1>2. /\ Rest.at = "none" /\ Rest.object = 0
        /\ \A h \in Handlers : doing[h] = Rest
    BY DEF Rest
  <1>3. TypeOK
    <2>1. reaper \in [at : {"asleep", "scan", "close", "closed"}, todo : SUBSET Names,
                      name : Names \cup {NoName}, object : 0..Len(object)]
      BY <1>1 DEF Asleep
    <2>2. Len(object) <= MaxObjects
      BY <1>1, BoundsAssumption
    <2>3. slot \in [Names -> 0..Len(object)] /\ handle \in [Handlers -> 0..Len(object)]
          /\ viewOnly \subseteq Handlers
      BY <1>1
    <2> QED
      BY <1>1, <2>1, <2>2, <2>3 DEF TypeOK, ObjectType
  <1>4. ReaperKnows
    BY DEF ReaperKnows, Asleep
  <1>5. \A h \in Handlers : Sound(h)
    BY <1>2 DEF Sound, Holds, OpensWhatIsNew, Removed
  <1> QED
    BY <1>1, <1>3, <1>4, <1>5 DEF Inv, OneChild, Placed, Exposed

LEMMA InitInv == Init => Inv
  <1> SUFFICES ASSUME Init PROVE Inv
    OBVIOUS
  <1>1. /\ profiles \in [Names -> 0..MaxVersion] /\ stored \in [Names -> 0..MaxVersion]
        /\ PersistedMatches
    BY BoundsAssumption DEF Init, PersistedMatches
  <1> QED
    BY <1>1, NothingRuns DEF Init

LEMMA RestartKeeps ==
  ASSUME Inv, Restart
  PROVE  Inv'
  <1>1. TypeOK
    BY DEF Inv
  <1>2. /\ profiles' \in [Names -> 0..MaxVersion] /\ stored' \in [Names -> 0..MaxVersion]
        /\ PersistedMatches'
    BY <1>1, OtherFacts, BoundsAssumption DEF Restart, Loaded, PersistedMatches
  <1>3. object' \in Seq(ObjectType) /\ Len(object') = 0 /\ DOMAIN object' = {}
    BY EmptySeq, LenProperties DEF Restart
  <1>4. /\ Rest.at = "none" /\ Rest.object = 0
        /\ \A h \in Handlers : doing'[h] = Rest
    BY DEF Rest, Restart
  <1>5. TypeOK'
    <2>1. reaper' \in [at : {"asleep", "scan", "close", "closed"}, todo : SUBSET Names,
                       name : Names \cup {NoName}, object : 0..Len(object')]
      BY <1>3 DEF Asleep, Restart
    <2>2. Len(object') <= MaxObjects
      BY <1>3, BoundsAssumption
    <2>3. slot' \in [Names -> 0..Len(object')] /\ handle' \in [Handlers -> 0..Len(object')]
          /\ viewOnly' \subseteq Handlers
      BY <1>3 DEF Restart
    <2> QED
      BY <1>2, <1>3, <2>1, <2>2, <2>3 DEF TypeOK, ObjectType, Restart
  <1>6. ReaperKnows'
    BY DEF ReaperKnows, Asleep, Restart
  <1>7. \A h \in Handlers : Sound(h)'
    BY <1>4 DEF Sound, Holds, OpensWhatIsNew, Removed
  <1> QED
    BY <1>2, <1>3, <1>5, <1>6, <1>7 DEF Inv, OneChild, Placed, Exposed, Restart

LEMMA StutterKeeps ==
  ASSUME Inv, UNCHANGED vars
  PROVE  Inv'
  <1>1. /\ profiles' = profiles /\ stored' = stored /\ slot' = slot /\ idle' = idle
        /\ object' = object /\ table' = table /\ handle' = handle
        /\ viewOnly' = viewOnly /\ doing' = doing
        /\ reaper' = reaper /\ excused' = excused
    BY DEF vars, specs, processes, sessions
  <1>2. TypeOK' /\ OneChild' /\ Placed' /\ ReaperKnows' /\ PersistedMatches'
    BY <1>1 DEF Inv, TypeOK, OneChild, Placed, ReaperKnows, PersistedMatches
  <1>3. \A h \in Handlers : Sound(h)'
    BY <1>1 DEF Inv, Sound, Holds, OpensWhatIsNew, Removed
  <1>4. \A n \in Names : Exposed(n)' => n \in idle'
    BY <1>1 DEF Inv, Exposed
  <1> QED
    BY <1>2, <1>3, <1>4 DEF Inv

LEMMA NextInv ==
  ASSUME Inv, [Next]_vars
  PROVE  Inv'
  <1>0. Inv /\ 0 \in 0..MaxVersion /\ 1..MaxVersion \subseteq 0..MaxVersion
    BY BoundsAssumption
  <1>1. ASSUME NEW h \in Handlers, NEW n \in Names, Open(h, n)
        PROVE  Inv'
    <2>1. Step({h})
      BY <1>1, <1>0, OpenStep
    <2> QED
      BY <2>1, StepKeeps
  <1>2. ASSUME NEW h \in Handlers, NEW n \in Names, Resume(h, n)
        PROVE  Inv'
    <2>1. Step({h})
      BY <1>2, <1>0, ResumeStep
    <2> QED
      BY <2>1, StepKeeps
  <1>3. ASSUME NEW h \in Handlers, NEW n \in Names, StartProfile(h, n)
        PROVE  Inv'
    <2>1. Step({h})
      BY <1>3, <1>0, StartProfileStep
    <2> QED
      BY <2>1, StepKeeps
  <1>4. ASSUME NEW h \in Handlers, FindsRunning(h)
        PROVE  Inv'
    <2>1. Step({h})
      BY <1>4, <1>0, FindsRunningStep
    <2> QED
      BY <2>1, StepKeeps
  <1>5. ASSUME NEW h \in Handlers, TakesLock(h)
        PROVE  Inv'
    <2>1. Step({h})
      BY <1>5, <1>0, TakesLockStep
    <2> QED
      BY <2>1, StepKeeps
  <1>6. ASSUME NEW h \in Handlers, Execs(h)
        PROVE  Inv'
    <2>1. Step({h})
      BY <1>6, <1>0, ExecsStep
    <2> QED
      BY <2>1, StepKeeps
  <1>7. ASSUME NEW h \in Handlers, Initialized(h)
        PROVE  Inv'
    <2>1. Step({h})
      BY <1>7, <1>0, InitializedStep
    <2> QED
      BY <2>1, StepKeeps
  <1>8. ASSUME NEW h \in Handlers, ExecFails(h)
        PROVE  Inv'
    <2>1. Step({h})
      BY <1>8, <1>0, ExecFailsStep
    <2> QED
      BY <2>1, StepKeeps
  <1>9. ASSUME NEW h \in Handlers, InitFails(h)
        PROVE  Inv'
    <2>1. Step({h})
      BY <1>9, <1>0, InitFailsStep
    <2> QED
      BY <2>1, StepKeeps
  <1>10. ASSUME NEW h \in Handlers, Opened(h)
        PROVE  Inv'
    <2>1. Step({h})
      BY <1>10, <1>0, OpenedStep
    <2> QED
      BY <2>1, StepKeeps
  <1>11. ASSUME NEW h \in Handlers, Refused(h)
        PROVE  Inv'
    <2>1. Step({h})
      BY <1>11, <1>0, RefusedStep
    <2> QED
      BY <2>1, StepKeeps
  <1>12. ASSUME NEW h \in Handlers, Raises(h)
        PROVE  Inv'
    <2>1. Step({h})
      BY <1>12, <1>0, RaisesStep
    <2> QED
      BY <2>1, StepKeeps
  <1>13. ASSUME NEW h \in Handlers, CloseSession(h)
        PROVE  Inv'
    <2>1. Step({h})
      BY <1>13, <1>0, CloseSessionStep
    <2> QED
      BY <2>1, StepKeeps
  <1>14. ASSUME NEW h \in Handlers, Leaves(h)
        PROVE  Inv'
    <2>1. Step({h})
      BY <1>14, <1>0, LeavesStep
    <2> QED
      BY <2>1, StepKeeps
  <1>15. ASSUME NEW h \in Handlers, NEW n \in Names, StopProfile(h, n)
        PROVE  Inv'
    <2>1. Stop(h, "stop", n, 0)
      BY <1>15 DEF StopProfile
    <2>2. Step({h})
      BY <2>1, <1>0, StopStep
    <2> QED
      BY <2>2, StepKeeps
  <1>16. ASSUME NEW h \in Handlers, NEW n \in Names, NEW v \in 1..MaxVersion, UpdateProfile(h, n, v)
        PROVE  Inv'
    <2>1. Stop(h, "update", n, v)
      BY <1>16 DEF UpdateProfile
    <2>2. Step({h})
      BY <2>1, <1>0, StopStep
    <2> QED
      BY <2>2, StepKeeps
  <1>17. ASSUME NEW h \in Handlers, NEW n \in Names, DeleteProfile(h, n)
        PROVE  Inv'
    <2>1. Stop(h, "delete", n, 0)
      BY <1>17 DEF DeleteProfile
    <2>2. Step({h})
      BY <2>1, <1>0, StopStep
    <2> QED
      BY <2>2, StepKeeps
  <1>18. ASSUME NEW h \in Handlers, NEW n \in Names, NEW v \in 1..MaxVersion, CreateProfile(h, n, v)
        PROVE  Inv'
    <2>1. Step({h})
      BY <1>18, <1>0, CreateProfileStep
    <2> QED
      BY <2>1, StepKeeps
  <1>19. ASSUME NEW h \in Handlers, Killed(h)
        PROVE  Inv'
    <2>1. Step({h})
      BY <1>19, <1>0, KilledStep
    <2> QED
      BY <2>1, StepKeeps
  <1>20. ASSUME NEW h \in Handlers, Finishes(h)
        PROVE  Inv'
    <2>1. Step({h})
      BY <1>20, <1>0, FinishesStep
    <2> QED
      BY <2>1, StepKeeps
  <1>21. CASE Wakes
    <2>1. Step({})
      BY <1>21, <1>0, WakesStep
    <2> QED
      BY <2>1, StepKeeps
  <1>22. ASSUME NEW n \in Names, Spares(n)
        PROVE  Inv'
    <2>1. Step({})
      BY <1>22, <1>0, SparesStep
    <2> QED
      BY <2>1, StepKeeps
  <1>23. ASSUME NEW n \in Names, Reaps(n)
        PROVE  Inv'
    <2>1. Step({})
      BY <1>23, <1>0, ReapsStep
    <2> QED
      BY <2>1, StepKeeps
  <1>24. CASE ReapKills
    <2>1. Step({})
      BY <1>24, <1>0, ReapKillsStep
    <2> QED
      BY <2>1, StepKeeps
  <1>25. CASE ReapForgets
    <2>1. Step({})
      BY <1>25, <1>0, ReapForgetsStep
    <2> QED
      BY <2>1, StepKeeps
  <1>26. ASSUME NEW o \in DOMAIN object, Crash(o)
        PROVE  Inv'
    <2>1. Step({})
      BY <1>26, CrashStep
    <2> QED
      BY <2>1, StepKeeps
  <1>27. CASE Restart
    BY <1>27, RestartKeeps
  <1>28. CASE UNCHANGED vars
    BY <1>28, StutterKeeps
  <1> QED
    BY <1>1, <1>2, <1>3, <1>4, <1>5, <1>6, <1>7, <1>8, <1>9, <1>10, <1>11, <1>12, <1>13, <1>14, <1>15, <1>16, <1>17, <1>18, <1>19, <1>20, <1>21, <1>22, <1>23, <1>24, <1>25, <1>26, <1>27, <1>28 DEF Next

LEMMA InvHolds == Spec => []Inv
  <1>1. Inv /\ [Next]_vars => Inv'
    BY NextInv
  <1> QED
    BY <1>1, InitInv, PTL DEF Spec

(***************************************************************************)
(* What the profiles and their processes promise                           *)
(***************************************************************************)

(* Every variable of the supervisor, the sessions' profile names and       *)
(* backends, and the handlers suspended in a start, an open or a stop      *)
(* (supervisor.py, daemon.py, acp.py) keep their types; an object that a   *)
(* handler waits for was made.                                             *)
THEOREM TypeCorrect == Spec => []TypeOK
  <1>1. Inv => TypeOK
    BY DEF Inv
  <1> QED
    BY <1>1, InvHolds, PTL

(* However opens, starts, stops, reaps and crashes interleave, and however *)
(* many clients there are, an AcpAgentProcess has one child at a time: the *)
(* lock of ensure_started, which whoever starts a child holds until it is  *)
(* initialized or closed, is enough (acp.py:219-222, 486).                 *)
THEOREM OneChildEach == Spec => []OneChild
  <1>1. Inv => OneChild
    BY DEF Inv
  <1> QED
    BY <1>1, InvHolds, PTL

(* A running process of the supervisor that no session uses and nobody     *)
(* works on has its idle clock running, so that the reaper will find it    *)
(* (acp-migration-spec.md:130): no process is left behind by a last close, *)
(* whatever else is under way.  Excused are those that profile.start, an   *)
(* open that failed, or a view-only open has left without a session: the   *)
(* last is forgotten by detach_soft, and not closed (session.py:769).      *)
THEOREM IdleClocked == Spec => []IdleHasClock
  <1>1. Inv => IdleHasClock
    BY DEF Inv, IdleHasClock, Exposed, Running
  <1> QED
    BY <1>1, InvHolds, PTL

(* The profiles made over the wire are those on disk, with the same spec,  *)
(* also when an update and a delete wait for the same process to end: a    *)
(* restart brings back what there was (supervisor.py:193).                 *)
THEOREM ProfilesPersist == Spec => []PersistedMatches
  <1>1. Inv => PersistedMatches
    BY DEF Inv
  <1> QED
    BY <1>1, InvHolds, PTL
=============================================================================
