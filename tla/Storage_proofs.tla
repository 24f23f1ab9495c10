--------------------------- MODULE Storage_proofs ---------------------------
(***************************************************************************)
(* Proofs about Storage, for every set of ids, connections and agent       *)
(* sessions, and every number of objects, turns and deaths of the daemon.  *)
(***************************************************************************)
EXTENDS Storage, SequenceTheorems, TLAPS

Obj ==
  [id : Ids, own : Handlers \cup {Nobody}, parked : BOOLEAN, up : BOOLEAN, late : BOOLEAN,
   fh : {"file", "gone", "none"}, turns : 0..MaxTurns, native : Natives \cup {NoNative}]

(* What a handler is suspended in, when there are n objects.               *)
Suspended(n) ==
  [op : {"open", "prompt", "close"}, at : {"taken", "spawn", "closing"}, id : Ids,
   object : 1..n, load : Natives \cup {NoNative}, delete : BOOLEAN]

(***************************************************************************)
(* The invariant                                                           *)
(***************************************************************************)
Objects ==
  /\ sess \in Seq(Obj) /\ Len(sess) <= MaxObjects
  /\ table \in [Ids -> 0..Len(sess)]
  /\ \A i \in Ids : Known(i) => TheSession(i).id = i

(* A handler waits with an object of its id, and one that closes has taken *)
(* the object out of the table.                                            *)
Suspensions ==
  /\ doing \in [Handlers -> {Rest} \cup Suspended(Len(sess))]
  /\ \A h \in Handlers : ~Idle(h) =>
       /\ sess[doing[h].object].id = doing[h].id
       /\ doing[h].at = "closing" => table[doing[h].id] # doing[h].object

Others ==
  /\ owned \in [Handlers -> SUBSET Ids]
  /\ reaper \in [todo : SUBSET Ids, object : 0..Len(sess)]
  /\ reaper.object # 0 => ~Live(reaper.object)
  /\ fanout \subseteq 1..Len(sess)

Papers ==
  /\ log \in [Ids -> {Absent} \cup 0..MaxTurns]
  /\ side \in [Ids -> {Absent} \cup Kept]
  /\ reg \in [Ids -> {Absent} \cup Kept]
  /\ disk = reg
  /\ cut \in [Ids -> Nat]
  /\ stray \subseteq Ids /\ deleted \subseteq Ids

(* What the table has of an id is the last object made of it, and a log    *)
(* that is open and not unlinked is there.                                 *)
LastHasIt(i) == Known(i) => Newer(table[i]) = {}
OnFile(i)    == \A o \in 1..Len(sess) : sess[o].id = i /\ sess[o].fh = "file" => log[i] # Absent

(* The last object of an id, in the table or out of it, has its files,     *)
(* unless it is closed: its counter is the sidecar's, and the id is not    *)
(* deleted.  What is in the table is not closed.                           *)
LastIsCurrent(i) ==
  \A o \in 1..Len(sess) : sess[o].id = i /\ Newer(o) = {} =>
    /\ sess[o].fh # "gone"
    /\ sess[o].fh = "file" => sess[o].turns = CountedTurns(i) /\ i \notin deleted
    /\ Live(o) => sess[o].fh = "file"

Counted(i)    == LoggedTurns(i) = CountedTurns(i) + cut[i]
Erased(i)     == log[i] = Absent /\ side[i] = Absent /\ disk[i] = Absent
InUse(o)      == sess[o].own # Nobody \/ sess[o].parked
Registered(i) == Known(i) /\ InUse(table[i]) => disk[i] # Absent
Behind(i)     == disk[i] # Absent => disk[i].turns <= CountedTurns(i)

(* As long as only the last object of an id has written its files.         *)
Ordered(i) ==
  /\ LastIsCurrent(i) /\ Counted(i) /\ Registered(i) /\ Behind(i)
  /\ i \in deleted => Erased(i)

FilesOf(i) == LastHasIt(i) /\ OnFile(i) /\ (i \notin stray => Ordered(i))

Files == \A i \in Ids : FilesOf(i)

Inv == Objects /\ Suspensions /\ Others /\ Papers /\ Files

(***************************************************************************)
(* Helpers                                                                 *)
(***************************************************************************)
LEMMA SameLength ==
  ASSUME NEW Q, NEW s \in Seq(Q), NEW t \in [1..Len(s) -> Q]
  PROVE  t \in Seq(Q) /\ Len(t) = Len(s)
  <1>1. Len(s) \in Nat /\ DOMAIN t = 1..Len(s)
    BY LenProperties
  <1>2. t \in Seq(Q)
    BY <1>1, SeqDef
  <1>3. Len(t) \in Nat /\ DOMAIN t = 1..Len(t)
    BY <1>2, LenProperties
  <1> QED
    BY <1>1, <1>2, <1>3

LEMMA ObjectFacts ==
  ASSUME Objects
  PROVE  /\ Len(sess) \in Nat /\ DOMAIN sess = 1..Len(sess)
         /\ \A o \in 1..Len(sess) : sess[o] \in Obj /\ sess[o].id \in Ids
         /\ \A i \in Ids : Known(i) => table[i] \in 1..Len(sess) /\ sess[table[i]].id = i
         /\ \A o \in 1..Len(sess) : Live(o) => Known(sess[o].id) /\ table[sess[o].id] = o
  <1>1. Len(sess) \in Nat /\ DOMAIN sess = 1..Len(sess)
    BY LenProperties DEF Objects
  <1>2. \A o \in 1..Len(sess) : sess[o] \in Obj
    BY ElementOfSeq DEF Objects
  <1>3. \A o \in 1..Len(sess) : sess[o].id \in Ids
    BY <1>2 DEF Obj
  <1> QED
    BY <1>1, <1>2, <1>3 DEF Objects, Known, Live, TheSession

(* What happens to an object.                                              *)
LEMMA Updates ==
  ASSUME NEW s \in Obj
  PROVE  /\ [s EXCEPT !.up = FALSE, !.late = FALSE, !.fh = "none"] \in Obj
         /\ [s EXCEPT !.up = FALSE, !.late = TRUE] \in Obj
         /\ [s EXCEPT !.fh = "gone"] \in Obj
         /\ [s EXCEPT !.up = FALSE] \in Obj
         /\ \A b \in BOOLEAN : [Parked(s) EXCEPT !.up = b] \in Obj
         /\ Parked(s) \in Obj
         /\ \A n \in Natives \cup {NoNative} : [s EXCEPT !.up = TRUE, !.native = n] \in Obj
         /\ \A h \in Handlers : [s EXCEPT !.own = h, !.parked = FALSE] \in Obj
         /\ \A f \in {"file", "gone", "none"} : [s EXCEPT !.fh = f] \in Obj
         /\ s.turns < MaxTurns =>
              \A f \in {"file", "gone", "none"}, b \in BOOLEAN :
                [s EXCEPT !.turns = s.turns + 1, !.fh = f, !.up = b, !.late = FALSE] \in Obj
  <1>1. Parked(s) \in Obj /\ \A b \in BOOLEAN : [Parked(s) EXCEPT !.up = b] \in Obj
    BY DEF Obj, Parked
  <1>2. \A h \in Handlers : [s EXCEPT !.own = h, !.parked = FALSE] \in Obj
    BY DEF Obj
  <1>3. \A n \in Natives \cup {NoNative} : [s EXCEPT !.up = TRUE, !.native = n] \in Obj
    BY DEF Obj
  <1>4. ASSUME s.turns < MaxTurns, NEW f \in {"file", "gone", "none"}, NEW b \in BOOLEAN
        PROVE  [s EXCEPT !.turns = s.turns + 1, !.fh = f, !.up = b, !.late = FALSE] \in Obj
    <2>1. s.turns + 1 \in 0..MaxTurns
      BY <1>4, BoundsAssumption DEF Obj
    <2> QED
      BY <2>1 DEF Obj
  <1>5. /\ [s EXCEPT !.up = FALSE, !.late = FALSE, !.fh = "none"] \in Obj
        /\ [s EXCEPT !.up = FALSE, !.late = TRUE] \in Obj
        /\ [s EXCEPT !.fh = "gone"] \in Obj
        /\ [s EXCEPT !.up = FALSE] \in Obj
        /\ \A f \in {"file", "gone", "none"} : [s EXCEPT !.fh = f] \in Obj
    BY DEF Obj
  <1> QED
    BY <1>1, <1>2, <1>3, <1>4, <1>5

LEMMA KeptFacts ==
  /\ Absent \notin Kept
  /\ \A k \in Kept : k.turns \in 0..MaxTurns /\ k.native \in Natives \cup {NoNative}
  /\ \A n \in Natives \cup {NoNative}, t \in 0..MaxTurns : [native |-> n, turns |-> t] \in Kept
  <1>1. Absent \notin Kept
    <2> SUFFICES ASSUME Absent \in Kept PROVE FALSE
      OBVIOUS
    <2>1. Absent \in [turns : Nat, native : Natives \cup {NoNative}]
      BY BoundsAssumption DEF Kept
    <2> QED
      BY <2>1, AbsenceAssumption
  <1> QED
    BY <1>1 DEF Kept

LEMMA PaperFacts ==
  ASSUME Papers, NEW i \in Ids
  PROVE  /\ log[i] = Absent \/ log[i] \in 0..MaxTurns
         /\ log[i] \in 0..MaxTurns => log[i] # Absent
         /\ side[i] = Absent \/ side[i] \in Kept
         /\ reg[i] = Absent \/ reg[i] \in Kept
         /\ LoggedTurns(i) \in 0..MaxTurns /\ CountedTurns(i) \in 0..MaxTurns
         /\ cut[i] \in Nat
  BY KeptFacts, AbsenceAssumption, BoundsAssumption DEF Papers, LoggedTurns, CountedTurns

(* The objects stay what they are of, and leave the table.                 *)
Stay ==
  /\ sess' \in [1..Len(sess) -> Obj]
  /\ \A o \in 1..Len(sess) : sess'[o].id = sess[o].id
  /\ table' \in [Ids -> 0..Len(sess)]
  /\ \A i \in Ids : table'[i] \in {0, table[i]}

LEMMA StayKeeps ==
  ASSUME Objects, Stay
  PROVE  /\ Objects' /\ Len(sess') = Len(sess)
         /\ \A o \in 1..Len(sess) : Newer(o)' = Newer(o)
         /\ \A o \in 1..Len(sess) : Live(o)' => Live(o)
         /\ \A i \in Ids : Known(i)' => Known(i) /\ table'[i] = table[i]
  <1>1. Len(sess) \in Nat /\ DOMAIN sess = 1..Len(sess)
    BY ObjectFacts
  <1>2. sess' \in Seq(Obj) /\ Len(sess') = Len(sess)
    BY SameLength DEF Stay, Objects
  <1>3. \A i \in Ids : Known(i)' => Known(i) /\ table'[i] = table[i]
    BY DEF Stay, Known
  <1>4. \A i \in Ids : Known(i)' => TheSession(i)'.id = i
    BY <1>3, ObjectFacts DEF Stay, TheSession
  <1>5. Objects'
    BY <1>2, <1>4 DEF Objects, Stay
  <1>6. \A o \in 1..Len(sess) : Newer(o)' = Newer(o)
    <2> TAKE o \in 1..Len(sess)
    <2>1. \A p \in o + 1..Len(sess) : sess'[p].id = sess[p].id
      BY <1>1 DEF Stay
    <2> QED
      BY <1>2, <2>1 DEF Newer, Stay
  <1>7. \A o \in 1..Len(sess) : Live(o)' => Live(o)
    BY <1>1, ObjectFacts DEF Live, Stay
  <1> QED
    BY <1>2, <1>3, <1>5, <1>6, <1>7

(* A handler goes on to d, the others wait with what they have.            *)
LEMMA GoesOn ==
  ASSUME Objects, Suspensions, Objects', NEW h \in Handlers, NEW d,
         doing' = [doing EXCEPT ![h] = d],
         Len(sess) <= Len(sess'),
         \A o \in 1..Len(sess) : sess'[o].id = sess[o].id,
         \A i \in Ids : table'[i] \in 1..Len(sess) => table'[i] = table[i],
         \/ d = Rest
         \/ /\ d \in Suspended(Len(sess')) /\ sess'[d.object].id = d.id
            /\ d.at = "closing" => table'[d.id] # d.object
  PROVE  Suspensions'
  <1>1. Len(sess) \in Nat /\ Len(sess') \in Nat
    BY LenProperties DEF Objects
  <1>2. \A g \in Handlers : doing[g] \in {Rest} \cup Suspended(Len(sess'))
    <2> TAKE g \in Handlers
    <2>1. doing[g] = Rest \/ doing[g] \in Suspended(Len(sess))
      BY DEF Suspensions
    <2>2. Suspended(Len(sess)) \subseteq Suspended(Len(sess'))
      BY <1>1 DEF Suspended
    <2> QED
      BY <2>1, <2>2
  <1>3. doing' \in [Handlers -> {Rest} \cup Suspended(Len(sess'))]
    BY <1>2 DEF Suspensions
  <1>4. ASSUME NEW g \in Handlers, g # h, doing[g] # Rest
        PROVE  /\ sess'[doing[g].object].id = doing[g].id
               /\ doing[g].at = "closing" => table'[doing[g].id] # doing[g].object
    <2>1. doing[g] \in Suspended(Len(sess))
      BY <1>4 DEF Suspensions
    <2>2. doing[g].object \in 1..Len(sess) /\ doing[g].id \in Ids
      BY <2>1 DEF Suspended
    <2> QED
      BY <1>4, <2>2 DEF Suspensions, Idle
  <1>5. \A g \in Handlers : doing'[g] # Rest =>
          /\ sess'[doing'[g].object].id = doing'[g].id
          /\ doing'[g].at = "closing" => table'[doing'[g].id] # doing'[g].object
    BY <1>4 DEF Suspensions
  <1> QED
    BY <1>3, <1>5 DEF Suspensions, Idle

LEMMA AllWait ==
  ASSUME Objects, Suspensions, Objects', doing' = doing,
         Len(sess) <= Len(sess'),
         \A o \in 1..Len(sess) : sess'[o].id = sess[o].id,
         \A i \in Ids : table'[i] \in 1..Len(sess) => table'[i] = table[i]
  PROVE  Suspensions'
  <1>1. Len(sess) \in Nat /\ Len(sess') \in Nat
    BY LenProperties DEF Objects
  <1>2. Suspended(Len(sess)) \subseteq Suspended(Len(sess'))
    BY <1>1 DEF Suspended
  <1>3. doing' \in [Handlers -> {Rest} \cup Suspended(Len(sess'))]
    BY <1>2 DEF Suspensions
  <1>4. ASSUME NEW g \in Handlers, doing[g] # Rest
        PROVE  /\ sess'[doing[g].object].id = doing[g].id
               /\ doing[g].at = "closing" => table'[doing[g].id] # doing[g].object
    <2>1. doing[g] \in Suspended(Len(sess))
      BY <1>4 DEF Suspensions
    <2>2. doing[g].object \in 1..Len(sess) /\ doing[g].id \in Ids
      BY <2>1 DEF Suspended
    <2> QED
      BY <1>4, <2>2 DEF Suspensions, Idle
  <1> QED
    BY <1>3, <1>4 DEF Suspensions, Idle

(* Objects that have left the table do not come back to it.                *)
LEMMA OthersStay ==
  ASSUME Objects, Others, Stay, owned' \in [Handlers -> SUBSET Ids],
         UNCHANGED <<reaper, fanout>>
  PROVE  Others'
  <1>1. /\ Len(sess') = Len(sess)
        /\ \A o \in 1..Len(sess) : Live(o)' => Live(o)
    BY StayKeeps
  <1>2. reaper.object # 0 => reaper.object \in 1..Len(sess)
    BY ObjectFacts DEF Others
  <1>3. PICK o : o = reaper.object
    OBVIOUS
  <1>4. o # 0 => ~Live(o)'
    BY <1>1, <1>2, <1>3 DEF Others
  <1> QED
    BY <1>1, <1>3, <1>4 DEF Others, Live

(***************************************************************************)
(* What steps leave of the files                                           *)
(***************************************************************************)
(* Nothing happens to what there is of an id.                              *)
LEMMA Elsewhere ==
  ASSUME Objects, Stay, NEW i \in Ids, FilesOf(i),
         \A o \in 1..Len(sess) : sess[o].id = i =>
           /\ sess'[o].turns = sess[o].turns /\ sess'[o].fh = sess[o].fh
           /\ Live(o)' /\ InUse(o)' => InUse(o),
         log'[i] = log[i], side'[i] = side[i], disk'[i] = disk[i], cut'[i] = cut[i],
         i \in stray => i \in stray', i \in deleted' => i \in deleted
  PROVE  FilesOf(i)'
  <1>1. /\ Len(sess') = Len(sess)
        /\ \A o \in 1..Len(sess) : Newer(o)' = Newer(o)
        /\ \A o \in 1..Len(sess) : Live(o)' => Live(o)
        /\ Known(i)' => Known(i) /\ table'[i] = table[i]
        /\ \A o \in 1..Len(sess) : sess'[o].id = sess[o].id
    BY StayKeeps DEF Stay
  <1>2. Known(i) => table[i] \in 1..Len(sess) /\ sess[table[i]].id = i
    BY ObjectFacts
  <1>3. LoggedTurns(i)' = LoggedTurns(i) /\ CountedTurns(i)' = CountedTurns(i)
    BY DEF LoggedTurns, CountedTurns
  <1>4. PICK t : t = table[i]
    OBVIOUS
  <1>5. LastHasIt(i)' /\ OnFile(i)'
    BY <1>1, <1>2, <1>4 DEF FilesOf, LastHasIt, OnFile
  <1>6. ASSUME i \notin stray' PROVE Ordered(i)'
    <2>1. Ordered(i)
      BY <1>6 DEF FilesOf
    <2>2. LastIsCurrent(i)'
      BY <2>1, <1>1, <1>3 DEF Ordered, LastIsCurrent
    <2>3. Registered(i)'
      <3>1. Known(i)' => (InUse(t)' => InUse(t))
        BY <1>1, <1>2, <1>4 DEF Live
      <3> QED
        BY <2>1, <3>1, <1>1, <1>4 DEF Ordered, Registered, InUse
    <2> QED
      BY <2>1, <2>2, <2>3, <1>3 DEF Ordered, Counted, Behind, Erased
  <1> QED
    BY <1>5, <1>6 DEF FilesOf

(* The files stay as they are, and no log of an object in the table is     *)
(* closed.                                                                 *)
Quiet ==
  /\ Stay
  /\ \A o \in 1..Len(sess) :
       /\ sess'[o].turns = sess[o].turns
       /\ sess'[o].fh # sess[o].fh => sess'[o].fh = "none" /\ ~Live(o)'
       /\ Live(o)' /\ InUse(o)' => InUse(o)
  /\ UNCHANGED <<reg, files, cut, stray, deleted>>

LEMMA QuietKeeps ==
  ASSUME Objects, Papers, Files, Quiet
  PROVE  Objects' /\ Papers' /\ Files'
  <1>1. /\ Objects' /\ Len(sess') = Len(sess)
        /\ \A o \in 1..Len(sess) : Newer(o)' = Newer(o)
        /\ \A o \in 1..Len(sess) : Live(o)' => Live(o)
        /\ \A i \in Ids : Known(i)' => Known(i) /\ table'[i] = table[i]
        /\ \A o \in 1..Len(sess) : sess'[o].id = sess[o].id
    BY StayKeeps DEF Quiet, Stay
  <1>2. UNCHANGED <<reg, log, side, disk, cut, stray, deleted>>
    BY DEF Quiet, files
  <1>3. Papers'
    BY <1>2 DEF Papers
  <1>4. ASSUME NEW i \in Ids PROVE FilesOf(i)'
    <2>1. Known(i) => table[i] \in 1..Len(sess) /\ sess[table[i]].id = i
      BY ObjectFacts
    <2>2. LoggedTurns(i)' = LoggedTurns(i) /\ CountedTurns(i)' = CountedTurns(i)
      BY <1>2 DEF LoggedTurns, CountedTurns
    <2>3. PICK t : t = table[i]
      OBVIOUS
    <2>4. FilesOf(i)
      BY DEF Files
    <2>5. LastHasIt(i)' /\ OnFile(i)'
      BY <2>1, <2>3, <2>4, <1>1, <1>2 DEF FilesOf, LastHasIt, OnFile, Quiet
    <2>6. ASSUME i \notin stray' PROVE Ordered(i)'
      <3>1. Ordered(i)
        BY <2>6, <2>4, <1>2 DEF FilesOf
      <3>2. LastIsCurrent(i)'
        BY <3>1, <1>1, <1>2, <2>2 DEF Ordered, LastIsCurrent, Quiet
      <3>3. Registered(i)'
        <4>1. Known(i)' => (InUse(t)' => InUse(t))
          BY <1>1, <2>1, <2>3 DEF Live, Quiet
        <4> QED
          BY <3>1, <4>1, <1>1, <1>2, <2>3 DEF Ordered, Registered, InUse
      <3> QED
        BY <3>1, <3>2, <3>3, <2>2, <1>2 DEF Ordered, Counted, Behind, Erased
    <2> QED
      BY <2>5, <2>6 DEF FilesOf
  <1> QED
    BY <1>1, <1>3, <1>4 DEF Files

(* An open has its session, and the registry a record of it.               *)
Recorded(o) ==
  LET i == sess[o].id IN
  /\ Stay /\ table' = table
  /\ \A p \in 1..Len(sess) :
       /\ sess'[p].turns = sess[p].turns /\ sess'[p].fh = sess[p].fh
       /\ p # o => sess'[p].own = sess[p].own /\ sess'[p].parked = sess[p].parked
  /\ \E n \in Natives \cup {NoNative} :
       reg' = [reg EXCEPT ![i] = [native |-> n, turns |-> IF @ = Absent THEN 0 ELSE @.turns]]
  /\ disk' = reg'
  /\ stray' = IF Live(o) THEN stray ELSE stray \cup {i}
  /\ deleted' = deleted \ {i}
  /\ UNCHANGED <<log, side, cut>>

LEMMA RecordedKeeps ==
  ASSUME Objects, Papers, Files, NEW o \in 1..Len(sess), Recorded(o)
  PROVE  Objects' /\ Papers' /\ Files'
  <1>1. PICK i \in Ids : i = sess[o].id
    BY ObjectFacts
  <1>2. PICK n \in Natives \cup {NoNative} :
          reg' = [reg EXCEPT ![i] = [native |-> n, turns |-> IF @ = Absent THEN 0 ELSE @.turns]]
    BY <1>1 DEF Recorded
  <1>3. /\ Stay /\ table' = table /\ disk' = reg'
        /\ stray \subseteq stray' /\ stray' \subseteq stray \cup {i}
        /\ deleted' = deleted \ {i} /\ UNCHANGED <<log, side, cut>>
        /\ \A p \in 1..Len(sess) :
             /\ sess'[p].turns = sess[p].turns /\ sess'[p].fh = sess[p].fh
             /\ p # o => (InUse(p)' => InUse(p))
    BY <1>1 DEF Recorded, InUse
  <1>4. /\ Objects' /\ Len(sess') = Len(sess)
        /\ \A p \in 1..Len(sess) : Newer(p)' = Newer(p)
        /\ \A p \in 1..Len(sess) : Live(p)' => Live(p)
        /\ \A p \in 1..Len(sess) : sess'[p].id = sess[p].id
    BY <1>3, StayKeeps DEF Stay
  <1>5. reg'[i] \in Kept /\ reg'[i].turns = IF reg[i] = Absent THEN 0 ELSE reg[i].turns
    <2>1. (IF reg[i] = Absent THEN 0 ELSE reg[i].turns) \in 0..MaxTurns
      BY PaperFacts, KeptFacts, BoundsAssumption
    <2> QED
      BY <1>2, <2>1, KeptFacts DEF Papers
  <1>6. Papers'
    BY <1>2, <1>3, <1>5, <1>1 DEF Papers
  <1>7. ASSUME NEW j \in Ids, j # i PROVE FilesOf(j)'
    <2>1. disk'[j] = disk[j]
      BY <1>7, <1>2, <1>3 DEF Papers
    <2> QED
      BY <1>7, <2>1, <1>3, <1>1, Elsewhere DEF Files
  <1>8. FilesOf(i)'
    <2>1. PICK t : t = table[i]
      OBVIOUS
    <2>2. Known(i) => t \in 1..Len(sess)
      BY <2>1, ObjectFacts
    <2>3. LastHasIt(i)' /\ OnFile(i)'
      BY <2>1, <2>2, <1>3, <1>4 DEF Files, FilesOf, LastHasIt, OnFile, Known
    <2>4. ASSUME i \notin stray' PROVE Ordered(i)'
      <3>1. Ordered(i)
        BY <2>4, <1>3 DEF Files, FilesOf
      <3>2. CountedTurns(i)' = CountedTurns(i) /\ LoggedTurns(i)' = LoggedTurns(i)
        BY <1>3 DEF CountedTurns, LoggedTurns
      <3>3. LastIsCurrent(i)'
        BY <3>1, <3>2, <1>3, <1>4 DEF Ordered, LastIsCurrent
      <3>4. Registered(i)'
        BY <1>3, <1>5, KeptFacts DEF Registered
      <3>5. Behind(i)'
        <4>1. CountedTurns(i) \in 0..MaxTurns
          BY PaperFacts
        <4> QED
          BY <3>1, <3>2, <1>3, <1>5, <4>1 DEF Behind, Ordered, Papers
      <3> QED
        BY <3>1, <3>2, <3>3, <3>4, <3>5, <1>3 DEF Ordered, Counted
    <2> QED
      BY <2>3, <2>4 DEF FilesOf
  <1> QED
    BY <1>4, <1>6, <1>7, <1>8 DEF Files

(* A delete by an object that is in the table no more.                     *)
Erasure(o) ==
  LET i == sess[o].id IN
  /\ Stay /\ ~Live(o)'
  /\ \A p \in 1..Len(sess) :
       /\ sess'[p].turns = sess[p].turns /\ InUse(p)' = InUse(p)
       /\ sess'[p].fh = IF p = o THEN "none"
                        ELSE IF sess[p].id = i /\ sess[p].fh = "file" THEN "gone" ELSE sess[p].fh
  /\ log' = [log EXCEPT ![i] = Absent] /\ side' = [side EXCEPT ![i] = Absent]
  /\ reg' = [reg EXCEPT ![i] = Absent] /\ disk' = reg'
  /\ cut' = [cut EXCEPT ![i] = 0]
  /\ stray' = IF \E p \in Newer(o) : sess[p].fh = "file" THEN stray \cup {i} ELSE stray
  /\ deleted' = deleted \cup {i}

LEMMA ErasureKeeps ==
  ASSUME Objects, Papers, Files, NEW o \in 1..Len(sess), Erasure(o)
  PROVE  Objects' /\ Papers' /\ Files'
  <1>1. PICK i \in Ids : i = sess[o].id
    BY ObjectFacts
  <1>2. /\ Stay /\ ~Live(o)'
        /\ log' = [log EXCEPT ![i] = Absent] /\ side' = [side EXCEPT ![i] = Absent]
        /\ reg' = [reg EXCEPT ![i] = Absent] /\ disk' = reg'
        /\ cut' = [cut EXCEPT ![i] = 0]
        /\ stray \subseteq stray' /\ stray' \subseteq stray \cup {i}
        /\ i \notin stray' => \A p \in Newer(o) : sess[p].fh # "file"
        /\ deleted' = deleted \cup {i}
    BY <1>1 DEF Erasure
  <1>3. \A p \in 1..Len(sess) :
          /\ sess'[p].turns = sess[p].turns /\ InUse(p)' = InUse(p)
          /\ sess'[p].fh = IF p = o THEN "none"
                           ELSE IF sess[p].id = i /\ sess[p].fh = "file" THEN "gone" ELSE sess[p].fh
    BY <1>1 DEF Erasure
  <1>4. /\ Objects' /\ Len(sess') = Len(sess) /\ Len(sess) \in Nat
        /\ \A p \in 1..Len(sess) : Newer(p)' = Newer(p)
        /\ \A p \in 1..Len(sess) : Live(p)' => Live(p)
        /\ \A p \in 1..Len(sess) : sess'[p].id = sess[p].id
    BY <1>2, StayKeeps, ObjectFacts DEF Stay
  <1>5. Papers'
    BY <1>1, <1>2 DEF Papers
  <1>6. ASSUME NEW j \in Ids, j # i PROVE FilesOf(j)'
    <2>1. /\ log'[j] = log[j] /\ side'[j] = side[j] /\ disk'[j] = disk[j] /\ cut'[j] = cut[j]
          /\ j \in deleted' => j \in deleted
      BY <1>6, <1>2 DEF Papers
    <2>2. \A p \in 1..Len(sess) : sess[p].id = j =>
            /\ sess'[p].turns = sess[p].turns /\ sess'[p].fh = sess[p].fh
            /\ Live(p)' /\ InUse(p)' => InUse(p)
      BY <1>6, <1>1, <1>3
    <2> QED
      BY <2>1, <2>2, <1>2, Elsewhere DEF Files
  <1>7. FilesOf(i)'
    <2>1. PICK t : t = table[i]
      OBVIOUS
    <2>2. /\ Known(i) => t \in 1..Len(sess) /\ sess[t].id = i /\ Live(t)
          /\ Known(i)' => Known(i) /\ table'[i] = t
      BY <2>1, <1>2, StayKeeps, ObjectFacts DEF Live
    <2>3. LastHasIt(i)' /\ OnFile(i)'
      <3>1. \A p \in 1..Len(sess) : sess[p].id = i => sess'[p].fh # "file"
        BY <1>3
      <3> QED
        BY <2>1, <2>2, <3>1, <1>4 DEF Files, FilesOf, LastHasIt, OnFile
    <2>4. ASSUME i \notin stray' PROVE Ordered(i)'
      <3>1. Ordered(i)
        BY <2>4, <1>2 DEF Files, FilesOf
      <3>2. ASSUME NEW p \in 1..Len(sess), sess[p].id = i, Newer(p) = {}
            PROVE  sess'[p].fh = "none" /\ ~Live(p)'
        <4>1. CASE p = o
          BY <4>1, <1>2, <1>3
        <4>2. CASE p # o
          <5>1. p \in Newer(o)
            BY <4>2, <3>2, <1>1, <1>4 DEF Newer
          <5>2. sess[p].fh = "none"
            <6>1. sess[p].fh # "file" /\ sess[p].fh # "gone"
              BY <5>1, <3>1, <3>2, <1>2, <2>4 DEF Ordered, LastIsCurrent
            <6> QED
              BY <6>1, ObjectFacts DEF Obj
          <5> QED
            BY <4>2, <5>2, <3>1, <3>2, <1>3, <1>4 DEF Ordered, LastIsCurrent
        <4> QED
          BY <4>1, <4>2
      <3>3. LastIsCurrent(i)'
        BY <3>2, <1>4 DEF LastIsCurrent
      <3>4. ~Known(i)'
        <4>1. Known(i)' => Live(t)' /\ Newer(t) = {}
          BY <2>1, <2>2, <1>4 DEF Files, FilesOf, LastHasIt, Live
        <4> QED
          BY <4>1, <3>2, <2>2
      <3>5. log'[i] = Absent /\ side'[i] = Absent /\ disk'[i] = Absent /\ cut'[i] = 0
        BY <1>2 DEF Papers
      <3> QED
        BY <3>3, <3>4, <3>5
        DEF Ordered, Counted, Registered, Behind, Erased, LoggedTurns, CountedTurns
    <2> QED
      BY <2>3, <2>4 DEF FilesOf
  <1> QED
    BY <1>4, <1>5, <1>6, <1>7 DEF Files

(* What an append of n results does to the log of its id.                  *)
LEMMA WrittenFacts ==
  ASSUME Objects, Papers, Files, NEW o \in 1..Len(sess), NEW i \in Ids, i = sess[o].id,
         NEW n \in {0, 1}, n = 1 => Counts(o), log' = Written(o, n)
  PROVE  /\ log' \in [Ids -> {Absent} \cup 0..MaxTurns]
         /\ \A j \in Ids \ {i} : log'[j] = log[j]
         /\ log[i] # Absent => log'[i] # Absent
         /\ sess[o].fh # "gone" => log'[i] # Absent /\ LoggedTurns(i)' = LoggedTurns(i) + n
         /\ sess[o].fh = "gone" => log' = log
  <1>1. log \in [Ids -> {Absent} \cup 0..MaxTurns] /\ (log[i] = Absent \/ log[i] \in 0..MaxTurns)
    BY PaperFacts DEF Papers
  <1>2. MaxTurns \in Nat /\ MaxDeaths \in Nat /\ \A k \in Nat : k # Absent
    BY BoundsAssumption, AbsenceAssumption
  <1>3. n = 1 => 0 < MaxTurns /\ (log[i] # Absent => log[i] < MaxTurns)
    <2>1. sess[o].turns \in 0..MaxTurns
      BY ObjectFacts DEF Obj
    <2> QED
      BY <2>1, <1>1, <1>2 DEF Counts
  <1>4. sess[o].fh \in {"file", "gone", "none"} /\ (sess[o].fh = "file" => log[i] # Absent)
    BY ObjectFacts DEF Obj, Files, FilesOf, OnFile
  <1>5. CASE sess[o].fh = "file"
    <2>1. log' = [log EXCEPT ![i] = @ + n] /\ log[i] \in 0..MaxTurns
      BY <1>5, <1>4, <1>1 DEF Written
    <2>2. log[i] + n \in 0..MaxTurns
      BY <2>1, <1>2, <1>3, <1>4, <1>5
    <2> QED
      BY <1>5, <2>1, <2>2, <1>1, <1>2 DEF LoggedTurns
  <1>6. CASE sess[o].fh = "gone"
    BY <1>6, <1>1 DEF Written
  <1>7. CASE sess[o].fh = "none"
    <2>1. log' = [Logged(i) EXCEPT ![i] = @ + n]
      BY <1>7 DEF Written
    <2>2. LoggedTurns(i) \in 0..MaxTurns /\ Logged(i) = [log EXCEPT ![i] = LoggedTurns(i)]
      BY <1>1, <1>2 DEF Logged, LoggedTurns
    <2>3. LoggedTurns(i) + n \in 0..MaxTurns
      BY <2>2, <1>1, <1>2, <1>3 DEF LoggedTurns
    <2>4. log' = [log EXCEPT ![i] = LoggedTurns(i) + n]
      BY <2>1, <2>2, <1>1
    <2>5. log'[i] = LoggedTurns(i) + n /\ log'[i] # Absent
      BY <2>3, <2>4, <1>1, <1>2
    <2>6. LoggedTurns(i)' = LoggedTurns(i) + n
      BY <2>5 DEF LoggedTurns
    <2> QED
      BY <1>7, <2>3, <2>4, <2>5, <2>6, <1>1
  <1> QED
    BY <1>4, <1>5, <1>6, <1>7

(* An object appends n results, and saves what it has counted.             *)
Appending(o, n) ==
  LET i == sess[o].id IN
  /\ Stay /\ table' = table
  /\ \A p \in 1..Len(sess) :
       /\ sess'[p].turns = IF p = o THEN sess[o].turns + n ELSE sess[p].turns
       /\ sess'[p].fh = IF p = o THEN Reopened(o) ELSE sess[p].fh
       /\ InUse(p)' = InUse(p)
  /\ n = 1 => Counts(o)
  /\ log' = Written(o, n)
  /\ n = 0 => side' = side
  /\ n = 1 => \E k \in Kept : side' = [side EXCEPT ![i] = k] /\ k.turns = sess[o].turns + 1
  /\ stray' = Marked(o)
  /\ UNCHANGED <<reg, disk, cut, deleted>>

LEMMA AppendingKeeps ==
  ASSUME Objects, Papers, Files, NEW o \in 1..Len(sess), NEW n \in {0, 1}, Appending(o, n)
  PROVE  Objects' /\ Papers' /\ Files'
  <1>1. PICK i \in Ids : i = sess[o].id
    BY ObjectFacts
  <1>2. /\ Stay /\ table' = table /\ UNCHANGED <<reg, disk, cut, deleted>>
        /\ stray \subseteq stray' /\ stray' \subseteq stray \cup {i}
        /\ i \notin stray' => sess[o].fh # "none" /\ Newer(o) = {}
        /\ log' = Written(o, n) /\ (n = 1 => Counts(o))
    BY <1>1 DEF Appending, Marked, Strays
  <1>3. \A p \in 1..Len(sess) :
          /\ sess'[p].turns = IF p = o THEN sess[o].turns + n ELSE sess[p].turns
          /\ sess'[p].fh = IF p = o THEN Reopened(o) ELSE sess[p].fh
          /\ InUse(p)' = InUse(p)
    BY DEF Appending
  <1>4. /\ Objects' /\ Len(sess') = Len(sess) /\ Len(sess) \in Nat
        /\ \A p \in 1..Len(sess) : Newer(p)' = Newer(p)
        /\ \A p \in 1..Len(sess) : Live(p)' => Live(p)
        /\ \A p \in 1..Len(sess) : sess'[p].id = sess[p].id
    BY <1>2, StayKeeps, ObjectFacts DEF Stay
  <1>5. /\ log' \in [Ids -> {Absent} \cup 0..MaxTurns]
        /\ \A j \in Ids \ {i} : log'[j] = log[j]
        /\ log[i] # Absent => log'[i] # Absent
        /\ sess[o].fh # "gone" => log'[i] # Absent /\ LoggedTurns(i)' = LoggedTurns(i) + n
    BY <1>1, <1>2, WrittenFacts
  <1>6. /\ side' \in [Ids -> {Absent} \cup Kept]
        /\ \A j \in Ids \ {i} : side'[j] = side[j]
        /\ n = 0 => CountedTurns(i)' = CountedTurns(i)
        /\ n = 1 => CountedTurns(i)' = sess[o].turns + 1
    <2>1. CASE n = 0
      BY <2>1 DEF Appending, Papers, CountedTurns
    <2>2. CASE n = 1
      <3>1. PICK k \in Kept : side' = [side EXCEPT ![i] = k] /\ k.turns = sess[o].turns + 1
        BY <2>2, <1>1 DEF Appending
      <3> QED
        BY <2>2, <3>1, KeptFacts DEF Papers, CountedTurns
    <2> QED
      BY <2>1, <2>2
  <1>7. Papers'
    BY <1>1, <1>2, <1>5, <1>6 DEF Papers
  <1>8. ASSUME NEW j \in Ids, j # i PROVE FilesOf(j)'
    <2>1. \A p \in 1..Len(sess) : sess[p].id = j =>
            /\ sess'[p].turns = sess[p].turns /\ sess'[p].fh = sess[p].fh
            /\ Live(p)' /\ InUse(p)' => InUse(p)
      BY <1>8, <1>1, <1>3
    <2> QED
      BY <2>1, <1>2, <1>5, <1>6, <1>8, Elsewhere DEF Files
  <1>9. FilesOf(i)'
    <2>1. PICK t : t = table[i]
      OBVIOUS
    <2>2. Known(i) => t \in 1..Len(sess) /\ sess[t].id = i
      BY <2>1, ObjectFacts
    <2>3. LastHasIt(i)'
      BY <2>1, <2>2, <1>2, <1>4 DEF Files, FilesOf, LastHasIt, Known
    <2>4. OnFile(i)'
      <3>1. sess'[o].fh = "file" => log'[i] # Absent
        BY <1>3, <1>5 DEF Reopened
      <3>2. \A p \in 1..Len(sess) : p # o /\ sess[p].id = i /\ sess'[p].fh = "file" => log'[i] # Absent
        BY <1>3, <1>5 DEF Files, FilesOf, OnFile
      <3> QED
        BY <3>1, <3>2, <1>4 DEF OnFile
    <2>5. ASSUME i \notin stray' PROVE Ordered(i)'
      <3>1. Ordered(i) /\ Newer(o) = {} /\ sess[o].fh # "none"
        BY <2>5, <1>2 DEF Files, FilesOf
      <3>2. sess[o].fh = "file" /\ sess[o].turns = CountedTurns(i) /\ i \notin deleted
        <4>1. sess[o].fh # "gone"
          BY <3>1, <1>1 DEF Ordered, LastIsCurrent
        <4> QED
          BY <3>1, <4>1, <1>1, ObjectFacts DEF Ordered, LastIsCurrent, Obj
      <3>3. CountedTurns(i)' = CountedTurns(i) + n /\ LoggedTurns(i)' = LoggedTurns(i) + n
        BY <3>2, <1>5, <1>6, PaperFacts
      <3>4. sess'[o].turns = CountedTurns(i)' /\ sess'[o].fh = "file"
        BY <3>2, <3>3, <1>3 DEF Reopened
      <3>5. \A p \in 1..Len(sess) : sess[p].id = i /\ Newer(p) = {} => p = o
        BY <3>1, <1>1, <1>4 DEF Newer
      <3>6. LastIsCurrent(i)'
        BY <3>2, <3>4, <3>5, <1>2, <1>4 DEF LastIsCurrent
      <3>7. CountedTurns(i) \in 0..MaxTurns /\ LoggedTurns(i) \in 0..MaxTurns /\ cut[i] \in Nat
        BY PaperFacts
      <3>8. Counted(i)'
        BY <3>1, <3>3, <3>7, <1>2 DEF Ordered, Counted
      <3>9. Registered(i)'
        <4>1. InUse(t)' => InUse(t) \/ t \notin 1..Len(sess)
          BY <1>3
        <4> QED
          BY <2>1, <2>2, <3>1, <4>1, <1>2 DEF Ordered, Registered, Known, InUse
      <3>10. Behind(i)'
        <4>1. disk[i] # Absent => disk[i].turns \in 0..MaxTurns
          BY PaperFacts, KeptFacts DEF Papers
        <4> QED
          BY <3>1, <3>3, <3>7, <4>1, <1>2 DEF Ordered, Behind
      <3> QED
        BY <3>2, <3>6, <3>8, <3>9, <3>10, <1>2 DEF Ordered
    <2> QED
      BY <2>3, <2>4, <2>5 DEF FilesOf
  <1> QED
    BY <1>4, <1>7, <1>8, <1>9 DEF Files

(***************************************************************************)
(* Opening                                                                 *)
(***************************************************************************)
LEMMA LoggedFacts ==
  ASSUME Papers, NEW i \in Ids, log' = Logged(i)
  PROVE  /\ log' \in [Ids -> {Absent} \cup 0..MaxTurns]
         /\ \A j \in Ids : LoggedTurns(j)' = LoggedTurns(j)
         /\ \A j \in Ids : log[j] # Absent => log'[j] = log[j]
         /\ \A j \in Ids \ {i} : log'[j] = log[j]
         /\ log'[i] # Absent
  BY BoundsAssumption, AbsenceAssumption DEF Logged, LoggedTurns, Papers

LEMMA FreshFacts ==
  ASSUME Papers, NEW i \in Ids
  PROVE  /\ Fresh(i) \in Obj /\ Fresh(i).id = i /\ Fresh(i).turns = CountedTurns(i)
         /\ Fresh(i).fh = "file" /\ Fresh(i).own = Nobody /\ Fresh(i).parked = FALSE
         /\ Fresh(i).native \in Natives \cup {NoNative}
  <1>1. /\ CountedTurns(i) \in 0..MaxTurns
        /\ (IF side[i] = Absent THEN NoNative ELSE side[i].native) \in Natives \cup {NoNative}
    BY PaperFacts, KeptFacts
  <1> QED
    BY <1>1 DEF Fresh, Obj, CountedTurns

LEMMA ToLoadType ==
  ASSUME Papers, NEW i \in Ids, NEW n \in Natives \cup {NoNative}
  PROVE  ToLoad(i, n) \in Natives \cup {NoNative}
  BY PaperFacts, KeptFacts DEF ToLoad

(* What a handler is suspended in.                                         *)
AtSpawn(op, i, o, l) ==
  [Rest EXCEPT !.op = op, !.at = "spawn", !.id = i, !.object = o, !.load = l]
AtTaken(i, o) == [Rest EXCEPT !.op = "open", !.at = "taken", !.id = i, !.object = o]
AtClosing(i, o, b) ==
  [Rest EXCEPT !.op = "close", !.at = "closing", !.id = i, !.object = o, !.delete = b]

LEMMA SuspendedFacts ==
  ASSUME NEW k \in Nat, NEW i \in Ids, NEW o \in 1..k
  PROVE  /\ \A op \in {"open", "prompt"}, l \in Natives \cup {NoNative} :
              /\ AtSpawn(op, i, o, l) \in Suspended(k) /\ AtSpawn(op, i, o, l).at = "spawn"
              /\ AtSpawn(op, i, o, l).id = i /\ AtSpawn(op, i, o, l).object = o
         /\ AtTaken(i, o) \in Suspended(k) /\ AtTaken(i, o).at = "taken"
         /\ AtTaken(i, o).id = i /\ AtTaken(i, o).object = o
         /\ \A b \in BOOLEAN :
              /\ AtClosing(i, o, b) \in Suspended(k) /\ AtClosing(i, o, b).at = "closing"
              /\ AtClosing(i, o, b).id = i /\ AtClosing(i, o, b).object = o
  <1> DEFINE Any == [op : {"none", "open", "prompt", "close"}, at : {"none", "taken", "spawn", "closing"},
                     id : Ids \cup {Absent}, object : Nat, load : Natives \cup {NoNative},
                     delete : BOOLEAN]
  <1>1. PICK r \in Any : r = Rest
    BY DEF Rest
  <1>2. ASSUME NEW op \in {"open", "prompt"}, NEW l \in Natives \cup {NoNative}
        PROVE  /\ AtSpawn(op, i, o, l) \in Suspended(k) /\ AtSpawn(op, i, o, l).at = "spawn"
               /\ AtSpawn(op, i, o, l).id = i /\ AtSpawn(op, i, o, l).object = o
    <2>1. PICK d : d = [r EXCEPT !.op = op, !.at = "spawn", !.id = i, !.object = o, !.load = l]
      OBVIOUS
    <2>2. d \in Suspended(k) /\ d.at = "spawn" /\ d.id = i /\ d.object = o
      BY <2>1 DEF Suspended
    <2>3. d = AtSpawn(op, i, o, l)
      BY <2>1, <1>1 DEF AtSpawn
    <2> QED
      BY <2>2, <2>3
  <1>3. /\ AtTaken(i, o) \in Suspended(k) /\ AtTaken(i, o).at = "taken"
        /\ AtTaken(i, o).id = i /\ AtTaken(i, o).object = o
    <2>1. PICK d : d = [r EXCEPT !.op = "open", !.at = "taken", !.id = i, !.object = o]
      OBVIOUS
    <2>2. d \in Suspended(k) /\ d.at = "taken" /\ d.id = i /\ d.object = o
      BY <2>1 DEF Suspended
    <2>3. d = AtTaken(i, o)
      BY <2>1, <1>1 DEF AtTaken
    <2> QED
      BY <2>2, <2>3
  <1>4. ASSUME NEW b \in BOOLEAN
        PROVE  /\ AtClosing(i, o, b) \in Suspended(k) /\ AtClosing(i, o, b).at = "closing"
               /\ AtClosing(i, o, b).id = i /\ AtClosing(i, o, b).object = o
    <2>1. PICK d : d = [r EXCEPT !.op = "close", !.at = "closing", !.id = i, !.object = o, !.delete = b]
      OBVIOUS
    <2>2. d \in Suspended(k) /\ d.at = "closing" /\ d.id = i /\ d.object = o
      BY <2>1 DEF Suspended
    <2>3. d = AtClosing(i, o, b)
      BY <2>1, <1>1 DEF AtClosing
    <2> QED
      BY <2>2, <2>3
  <1> QED
    BY <1>2, <1>3, <1>4

LEMMA OpenColdKeeps ==
  ASSUME Inv, NEW h \in Handlers, NEW i \in Ids, NEW resume \in BOOLEAN, OpenCold(h, i, resume)
  PROVE  Inv'
  <1>0. /\ Objects /\ Suspensions /\ Others /\ Papers /\ Files
        /\ Len(sess) \in Nat /\ DOMAIN sess = 1..Len(sess)
    BY ObjectFacts DEF Inv
  <1>n. PICK n \in Nat : n = Len(sess) + 1
    BY <1>0
  <1>f. PICK f \in Obj :
          /\ f = Fresh(i) /\ f.id = i /\ f.turns = CountedTurns(i) /\ f.fh = "file"
          /\ f.own = Nobody /\ f.parked = FALSE /\ f.native \in Natives \cup {NoNative}
    BY <1>0, FreshFacts
  <1>1. /\ sess' \in Seq(Obj) /\ Len(sess') = n
        /\ \A o \in 1..Len(sess) : sess'[o] = sess[o]
        /\ sess'[n] = f
    <2>1. sess' = Append(sess, f)
      BY <1>f DEF OpenCold
    <2> QED
      BY <2>1, <1>0, <1>n, AppendProperties DEF Objects
  <1>2. /\ table' = [table EXCEPT ![i] = n] /\ log' = Logged(i) /\ deleted' = deleted \ {i}
        /\ UNCHANGED <<owned, reaper, fanout, reg, side, disk, cut, stray>>
        /\ Len(sess) < MaxObjects /\ table[i] = 0
    BY <1>1 DEF OpenCold, counters, Known
  <1>3. Objects'
    <2>1. table' \in [Ids -> 0..n]
      BY <1>0, <1>n, <1>2 DEF Objects
    <2>2. \A j \in Ids : Known(j)' => TheSession(j)'.id = j
      BY <1>0, <1>n, <1>1, <1>2, ObjectFacts, <1>f DEF Objects, Known, TheSession
    <2>3. Len(sess') <= MaxObjects
      BY <1>0, <1>n, <1>1, <1>2, BoundsAssumption
    <2> QED
      BY <2>1, <2>2, <2>3, <1>1 DEF Objects
  <1>4. Papers'
    BY <1>0, <1>2, LoggedFacts DEF Papers
  <1>5. Suspensions'
    <2>1. PICK l \in Natives \cup {NoNative} : Spawning(h, "open", i, n, l)
      BY <1>0, <1>n, <1>1, <1>f, ToLoadType DEF OpenCold
    <2>2. PICK d : d = AtSpawn("open", i, n, l)
      OBVIOUS
    <2>3. doing' = [doing EXCEPT ![h] = d]
      BY <2>1, <2>2 DEF Spawning, AtSpawn
    <2>4. d \in Suspended(n) /\ d.at = "spawn" /\ d.object = n /\ d.id = i
      BY <2>2, <1>0, <1>n, SuspendedFacts
    <2>5. d \in Suspended(Len(sess')) /\ sess'[d.object].id = d.id /\ d.at # "closing"
      BY <2>4, <1>1, <1>f
    <2>6. \A j \in Ids : table'[j] \in 1..Len(sess) => table'[j] = table[j]
      BY <1>0, <1>n, <1>2 DEF Objects
    <2>7. Len(sess) <= Len(sess') /\ \A o \in 1..Len(sess) : sess'[o].id = sess[o].id
      BY <1>0, <1>n, <1>1
    <2> QED
      BY <2>3, <2>5, <2>6, <2>7, <1>0, <1>3, GoesOn
  <1>6. Others'
    <2>1. PICK o : o = reaper.object
      OBVIOUS
    <2>2. o # 0 => o \in 1..Len(sess) /\ ~Live(o)
      BY <2>1, <1>0 DEF Others
    <2>3. o # 0 => ~Live(o)'
      BY <2>2, <1>0, <1>n, <1>1, <1>2, ObjectFacts DEF Live, Objects
    <2> QED
      BY <2>1, <2>3, <1>0, <1>n, <1>1, <1>2 DEF Others, Live
  <1>7. /\ \A o \in 1..Len(sess) : Newer(o) \subseteq Newer(o)'
        /\ \A o \in 1..Len(sess) : sess[o].id # i => Newer(o)' = Newer(o)
        /\ \A o \in 1..Len(sess) : sess[o].id = i => n \in Newer(o)'
        /\ Newer(n)' = {}
    BY <1>0, <1>n, <1>1, <1>f DEF Newer
  <1>8. \A j \in Ids : CountedTurns(j)' = CountedTurns(j) /\ LoggedTurns(j)' = LoggedTurns(j)
    BY <1>0, <1>2, LoggedFacts DEF CountedTurns
  <1>9. ASSUME NEW j \in Ids, j # i PROVE FilesOf(j)'
    <2>1. FilesOf(j) /\ table'[j] = table[j] /\ log'[j] = log[j]
      BY <1>0, <1>2, <1>9, LoggedFacts DEF Files, Objects
    <2>2. PICK t : t = table[j]
      OBVIOUS
    <2>3. Known(j) => t \in 1..Len(sess) /\ sess[t].id = j
      BY <2>2, <1>0, ObjectFacts
    <2>4. \A o \in 1..Len(sess') : sess'[o].id = j => o \in 1..Len(sess) /\ sess[o].id = j /\ sess'[o] = sess[o]
      BY <1>0, <1>n, <1>1, <1>9, <1>f
    <2>5. LastHasIt(j)' /\ OnFile(j)'
      BY <2>1, <2>2, <2>3, <2>4, <1>7, <1>9 DEF FilesOf, LastHasIt, OnFile, Known
    <2>6. ASSUME j \notin stray' PROVE Ordered(j)'
      <3>1. Ordered(j)
        BY <2>6, <2>1, <1>2 DEF FilesOf
      <3>2. LastIsCurrent(j)'
        BY <3>1, <2>1, <2>4, <1>2, <1>7, <1>8, <1>9 DEF Ordered, LastIsCurrent, Live
      <3>3. Registered(j)'
        BY <3>1, <2>1, <2>2, <2>3, <1>1, <1>2 DEF Ordered, Registered, Known, InUse
      <3> QED
        BY <3>1, <3>2, <3>3, <2>1, <1>2, <1>8 DEF Ordered, Counted, Behind, Erased
    <2> QED
      BY <2>5, <2>6 DEF FilesOf
  <1>10. FilesOf(i)'
    <2>1. log'[i] # Absent /\ table'[i] = n
      BY <1>0, <1>2, LoggedFacts DEF Objects
    <2>2. LastHasIt(i)' /\ OnFile(i)'
      BY <2>1, <1>7, AbsenceAssumption DEF LastHasIt, OnFile
    <2>3. ASSUME i \notin stray' PROVE Ordered(i)'
      <3>1. Ordered(i)
        BY <2>3, <1>0, <1>2 DEF Files, FilesOf
      <3>2. \A o \in 1..Len(sess') : sess'[o].id = i /\ Newer(o)' = {} => o = n
        BY <1>0, <1>n, <1>1, <1>7
      <3>3. sess'[n].fh = "file" /\ sess'[n].turns = CountedTurns(i)' /\ ~InUse(n)'
        BY <1>0, <1>n, <1>1, <1>8, <1>f DEF InUse
      <3>4. LastIsCurrent(i)'
        BY <3>2, <3>3, <1>2 DEF LastIsCurrent
      <3>5. Registered(i)'
        BY <3>3, <2>1 DEF Registered, InUse
      <3> QED
        BY <3>1, <3>4, <3>5, <1>2, <1>8 DEF Ordered, Counted, Behind
    <2> QED
      BY <2>2, <2>3 DEF FilesOf
  <1> QED
    BY <1>3, <1>4, <1>5, <1>6, <1>9, <1>10 DEF Inv, Files

(* The objects stay, and handler h goes on to d, or all wait.              *)
LEMMA HandlerGoes ==
  ASSUME Inv, Stay, Objects', Papers', Files',
         owned' \in [Handlers -> SUBSET Ids], UNCHANGED <<reaper, fanout>>,
         NEW h \in Handlers, NEW d, doing' = [doing EXCEPT ![h] = d],
         \/ d = Rest
         \/ /\ d \in Suspended(Len(sess)) /\ sess[d.object].id = d.id
            /\ d.at = "closing" => table'[d.id] # d.object
  PROVE  Inv'
  <1>0. Objects /\ Suspensions /\ Others /\ Len(sess) \in Nat
    BY ObjectFacts DEF Inv
  <1>1. Len(sess') = Len(sess) /\ \A o \in 1..Len(sess) : sess'[o].id = sess[o].id
    BY <1>0, StayKeeps DEF Stay
  <1>2. \A i \in Ids : table'[i] \in 1..Len(sess) => table'[i] = table[i]
    BY <1>0 DEF Stay
  <1>3. d \in Suspended(Len(sess)) => sess'[d.object].id = sess[d.object].id
    BY <1>1 DEF Suspended
  <1>4. Suspensions'
    <2>1. \/ d = Rest
          \/ /\ d \in Suspended(Len(sess')) /\ sess'[d.object].id = d.id
             /\ d.at = "closing" => table'[d.id] # d.object
      BY <1>1, <1>3
    <2>2. Len(sess) <= Len(sess')
      BY <1>0, <1>1
    <2> QED
      BY <1>0, <1>1, <1>2, <2>1, <2>2, GoesOn
  <1> QED
    BY <1>0, <1>4, OthersStay DEF Inv

LEMMA HandlersWait ==
  ASSUME Inv, Stay, Objects', Papers', Files', doing' = doing,
         owned' \in [Handlers -> SUBSET Ids], UNCHANGED reaper,
         fanout' \subseteq 1..Len(sess)
  PROVE  Inv'
  <1>0. Objects /\ Suspensions /\ Others /\ Len(sess) \in Nat
    BY ObjectFacts DEF Inv
  <1>1. Len(sess') = Len(sess) /\ \A o \in 1..Len(sess) : sess'[o].id = sess[o].id
    BY <1>0, StayKeeps DEF Stay
  <1>2. Suspensions'
    BY <1>0, <1>1, AllWait DEF Stay
  <1>3. PICK o : o = reaper.object
    OBVIOUS
  <1>4. o # 0 => ~Live(o)'
    BY <1>0, <1>3, StayKeeps DEF Others
  <1>5. Others'
    BY <1>0, <1>1, <1>3, <1>4 DEF Others, Live
  <1> QED
    BY <1>2, <1>5 DEF Inv

(* The record of a handler's open, over the objects S.                     *)
LEMMA AckedKeeps ==
  ASSUME Inv, NEW h \in Handlers, NEW o \in 1..Len(sess), NEW i \in Ids, i = sess[o].id,
         NEW S \in [1..Len(sess) -> Obj],
         \A p \in 1..Len(sess) :
           /\ S[p].id = sess[p].id /\ S[p].turns = sess[p].turns /\ S[p].fh = sess[p].fh
           /\ S[p].own = sess[p].own /\ S[p].parked = sess[p].parked,
         Acked(h, i, o, S), doing' = [doing EXCEPT ![h] = Rest],
         UNCHANGED <<table, reaper, fanout, log, side, counters>>
  PROVE  Inv'
  <1>0. Objects /\ Papers /\ Files /\ Others /\ Len(sess) \in Nat
    BY ObjectFacts DEF Inv
  <1>1. PICK s \in Obj : s = [S[o] EXCEPT !.own = h, !.parked = FALSE]
    BY Updates
  <1>2. sess' = [S EXCEPT ![o] = s]
    BY <1>1 DEF Acked
  <1>3. s.id = S[o].id /\ s.turns = S[o].turns /\ s.fh = S[o].fh
    BY <1>1 DEF Obj
  <1>4. /\ sess' \in [1..Len(sess) -> Obj]
        /\ \A p \in 1..Len(sess) :
             /\ sess'[p].id = sess[p].id /\ sess'[p].turns = sess[p].turns
             /\ sess'[p].fh = sess[p].fh
             /\ p # o => sess'[p].own = sess[p].own /\ sess'[p].parked = sess[p].parked
    BY <1>2, <1>3
  <1>5. Stay
    BY <1>0, <1>4 DEF Stay, Objects
  <1>6. PICK n \in Natives \cup {NoNative} :
          reg' = [reg EXCEPT ![i] = [native |-> n, turns |-> IF @ = Absent THEN 0 ELSE @.turns]]
    <2>1. S[o].native \in Natives \cup {NoNative}
      BY DEF Obj
    <2> QED
      BY <2>1, <1>0, ToLoadType DEF Acked
  <1>7. Recorded(o)
    BY <1>4, <1>5, <1>6 DEF Recorded, Acked, counters
  <1>8. Objects' /\ Papers' /\ Files'
    BY <1>0, <1>7, RecordedKeeps
  <1>9. owned' \in [Handlers -> SUBSET Ids]
    BY <1>0 DEF Acked, Others
  <1> QED
    BY <1>5, <1>8, <1>9, HandlerGoes

LEMMA SameQuiet ==
  ASSUME Objects, UNCHANGED <<sess, table, reg, files, cut, stray, deleted>>
  PROVE  Quiet
  <1>1. sess \in [1..Len(sess) -> Obj]
    BY LenProperties DEF Objects
  <1> QED
    BY <1>1 DEF Quiet, Stay, Objects, InUse

LEMMA SpawningKeeps ==
  ASSUME Inv, NEW h \in Handlers, NEW op \in {"open", "prompt"}, NEW i \in Ids,
         NEW o \in 1..Len(sess), sess[o].id = i, NEW l \in Natives \cup {NoNative},
         Spawning(h, op, i, o, l), owned' \in [Handlers -> SUBSET Ids],
         UNCHANGED <<sess, table, reaper, fanout, reg, files, cut, stray, deleted>>
  PROVE  Inv'
  <1>0. Objects /\ Papers /\ Files /\ Len(sess) \in Nat
    BY ObjectFacts DEF Inv
  <1>1. PICK d : d = AtSpawn(op, i, o, l)
    OBVIOUS
  <1>2. doing' = [doing EXCEPT ![h] = d]
    BY <1>1 DEF Spawning, AtSpawn
  <1>3. d \in Suspended(Len(sess)) /\ d.at = "spawn" /\ d.object = o /\ d.id = i
    BY <1>0, <1>1, SuspendedFacts
  <1>4. Quiet
    BY <1>0, SameQuiet
  <1>5. Objects' /\ Papers' /\ Files' /\ Stay
    BY <1>0, <1>4, QuietKeeps DEF Quiet
  <1> QED
    BY <1>2, <1>3, <1>5, HandlerGoes

LEMMA ProceedsKeeps ==
  ASSUME Inv, NEW h \in Handlers, NEW i \in Ids, NEW o \in 1..Len(sess), i = sess[o].id,
         Proceeds(h, i, o), UNCHANGED <<table, reaper, fanout, log, side, counters>>
  PROVE  Inv'
  <1>0. Objects /\ Papers /\ Others /\ sess \in [1..Len(sess) -> Obj]
    BY LenProperties DEF Inv, Objects
  <1>1. CASE sess[o].up
    BY <1>0, <1>1, AckedKeeps DEF Proceeds
  <1>2. CASE ~sess[o].up
    <2>1. PICK l \in Natives \cup {NoNative} : Spawning(h, "open", i, o, l)
      <3>1. sess[o].native \in Natives \cup {NoNative}
        BY <1>0 DEF Obj
      <3> QED
        BY <3>1, <1>0, <1>2, ToLoadType DEF Proceeds
    <2>2. UNCHANGED <<sess, table, reaper, fanout, reg, files, cut, stray, deleted, owned>>
      BY <1>2 DEF Proceeds, files, counters
    <2> QED
      BY <2>1, <2>2, <1>0, SpawningKeeps DEF Others
  <1> QED
    BY <1>1, <1>2

LEMMA OpenLiveKeeps ==
  ASSUME Inv, NEW h \in Handlers, NEW i \in Ids, OpenLive(h, i)
  PROVE  Inv'
  <1>1. table[i] \in 1..Len(sess) /\ sess[table[i]].id = i
    BY ObjectFacts DEF Inv, OpenLive
  <1> QED
    BY <1>1, ProceedsKeeps DEF OpenLive

(* A handler that is suspended waits with an object of its id.             *)
LEMMA SuspendedObject ==
  ASSUME Inv, NEW h \in Handlers, doing[h].at # "none"
  PROVE  /\ doing[h] \in Suspended(Len(sess)) /\ doing[h].id \in Ids
         /\ doing[h].object \in 1..Len(sess) /\ sess[doing[h].object].id = doing[h].id
         /\ doing[h].at = "closing" => table[doing[h].id] # doing[h].object
         /\ doing[h].load \in Natives \cup {NoNative} /\ doing[h].delete \in BOOLEAN
  <1>1. doing[h] # Rest
    BY DEF Rest
  <1>2. doing[h] \in Suspended(Len(sess))
    BY <1>1 DEF Inv, Suspensions
  <1> QED
    BY <1>1, <1>2 DEF Inv, Suspensions, Idle, Suspended

LEMMA ToldKeeps ==
  ASSUME Inv, NEW h \in Handlers, Told(h)
  PROVE  Inv'
  BY SuspendedObject, ProceedsKeeps DEF Told

LEMMA TakeOverKeeps ==
  ASSUME Inv, NEW h \in Handlers, NEW i \in Ids, TakeOver(h, i)
  PROVE  Inv'
  <1>0. Objects /\ Papers /\ Files /\ Others /\ Len(sess) \in Nat
    BY ObjectFacts DEF Inv
  <1>1. table[i] \in 1..Len(sess) /\ sess[table[i]].id = i
    BY <1>0, ObjectFacts DEF TakeOver
  <1>2. Quiet
    BY <1>0, SameQuiet DEF TakeOver, counters
  <1>3. Objects' /\ Papers' /\ Files' /\ Stay
    BY <1>0, <1>2, QuietKeeps DEF Quiet
  <1>4. PICK d : d = AtTaken(i, table[i])
    OBVIOUS
  <1>5. doing' = [doing EXCEPT ![h] = d]
    BY <1>4 DEF TakeOver, AtTaken
  <1>6. d \in Suspended(Len(sess)) /\ d.at = "taken" /\ d.object = table[i] /\ d.id = i
    BY <1>0, <1>1, <1>4, SuspendedFacts
  <1>7. owned' \in [Handlers -> SUBSET Ids]
    BY <1>0 DEF TakeOver, Others
  <1>8. UNCHANGED <<reaper, fanout>>
    BY DEF TakeOver
  <1> QED
    BY <1>1, <1>3, <1>5, <1>6, <1>7, <1>8, HandlerGoes

LEMMA RespawnKeeps ==
  ASSUME Inv, NEW h \in Handlers, NEW i \in Ids, Respawn(h, i)
  PROVE  Inv'
  <1>1. /\ Objects /\ Others /\ table[i] \in 1..Len(sess) /\ sess[table[i]].id = i
        /\ sess[table[i]].native \in Natives \cup {NoNative}
    BY ObjectFacts DEF Inv, Respawn, Obj
  <1>2. UNCHANGED <<sess, table, reaper, fanout, reg, files, cut, stray, deleted, owned>>
    BY DEF Respawn, counters
  <1> QED
    BY <1>1, <1>2, SpawningKeeps DEF Respawn, TheSession, Others

LEMMA BackedKeeps ==
  ASSUME Inv, NEW h \in Handlers, doing[h].at = "spawn",
         NEW S \in [1..Len(sess) -> Obj],
         \A p \in 1..Len(sess) :
           /\ S[p].id = sess[p].id /\ S[p].turns = sess[p].turns /\ S[p].fh = sess[p].fh
           /\ S[p].own = sess[p].own /\ S[p].parked = sess[p].parked,
         Backed(h, S)
  PROVE  Inv'
  <1>0. /\ Objects /\ Papers /\ Files /\ Others
        /\ doing[h].id \in Ids /\ doing[h].object \in 1..Len(sess)
        /\ sess[doing[h].object].id = doing[h].id
    BY SuspendedObject DEF Inv
  <1>1. CASE doing[h].op = "open"
    BY <1>0, <1>1, AckedKeeps DEF Backed
  <1>2. CASE doing[h].op # "open"
    <2>1. /\ sess' = S /\ doing' = [doing EXCEPT ![h] = Rest]
          /\ UNCHANGED <<owned, reaper, fanout, table, reg, files, cut, stray, deleted>>
      BY <1>2 DEF Backed, files, counters
    <2>2. Quiet
      BY <1>0, <2>1 DEF Quiet, Stay, InUse, Objects
    <2>3. Objects' /\ Papers' /\ Files' /\ Stay
      BY <1>0, <2>2, QuietKeeps DEF Quiet
    <2> QED
      BY <1>0, <2>1, <2>3, HandlerGoes DEF Others
  <1> QED
    BY <1>1, <1>2

LEMMA SpawnedKeeps ==
  ASSUME Inv, NEW h \in Handlers, SpawnedNew(h) \/ SpawnedLoaded(h) \/ SpawnedViewOnly(h)
  PROVE  Inv'
  <1>0. /\ sess \in [1..Len(sess) -> Obj] /\ doing[h].at = "spawn"
        /\ doing[h].object \in 1..Len(sess) /\ doing[h].load \in Natives \cup {NoNative}
    <2>1. doing[h].at = "spawn"
      BY DEF SpawnedNew, SpawnedLoaded, SpawnedViewOnly
    <2> QED
      BY <2>1, SuspendedObject, LenProperties DEF Inv, Objects
  <1>1. CASE Backed(h, sess)
    BY <1>0, <1>1, BackedKeeps
  <1>2. ASSUME NEW n \in Natives \cup {NoNative}, Backed(h, Started(doing[h].object, n))
        PROVE  Inv'
    <2>1. PICK o \in 1..Len(sess) : o = doing[h].object
      BY <1>0
    <2>2. PICK s \in Obj : s = [sess[o] EXCEPT !.up = TRUE, !.native = n]
      BY <1>0, Updates
    <2>3. /\ s.id = sess[o].id /\ s.turns = sess[o].turns /\ s.fh = sess[o].fh
          /\ s.own = sess[o].own /\ s.parked = sess[o].parked
      BY <1>0, <2>2 DEF Obj
    <2>4. PICK S \in [1..Len(sess) -> Obj] : S = [sess EXCEPT ![o] = s]
      BY <1>0
    <2>5. Started(o, n) = S
      BY <2>2, <2>4 DEF Started
    <2>6. \A p \in 1..Len(sess) :
            /\ S[p].id = sess[p].id /\ S[p].turns = sess[p].turns /\ S[p].fh = sess[p].fh
            /\ S[p].own = sess[p].own /\ S[p].parked = sess[p].parked
      BY <1>0, <2>3, <2>4
    <2>7. Backed(h, S)
      BY <1>2, <2>1, <2>5
    <2> QED
      BY <1>0, <2>6, <2>7, BackedKeeps
  <1> QED
    BY <1>0, <1>1, <1>2 DEF SpawnedNew, SpawnedLoaded, SpawnedViewOnly

(***************************************************************************)
(* Removing                                                                *)
(***************************************************************************)
LEMMA ClosedFacts ==
  ASSUME Objects, NEW o \in 1..Len(sess)
  PROVE  /\ sess \in [1..Len(sess) -> Obj]
         /\ LogClosed(o) \in [1..Len(sess) -> Obj] /\ Waiting(o) \in [1..Len(sess) -> Obj]
         /\ \A p \in 1..Len(sess) \ {o} : LogClosed(o)[p] = sess[p] /\ Waiting(o)[p] = sess[p]
         /\ LogClosed(o)[o].id = sess[o].id /\ LogClosed(o)[o].turns = sess[o].turns
         /\ LogClosed(o)[o].own = sess[o].own /\ LogClosed(o)[o].parked = sess[o].parked
         /\ LogClosed(o)[o].fh = "none"
         /\ Waiting(o)[o].id = sess[o].id /\ Waiting(o)[o].turns = sess[o].turns
         /\ Waiting(o)[o].own = sess[o].own /\ Waiting(o)[o].parked = sess[o].parked
         /\ Waiting(o)[o].fh = sess[o].fh
  <1>1. sess \in [1..Len(sess) -> Obj]
    BY LenProperties DEF Objects
  <1>2. PICK s \in Obj : s = [sess[o] EXCEPT !.up = FALSE, !.late = FALSE, !.fh = "none"]
    BY <1>1, Updates
  <1>3. PICK w \in Obj : w = [sess[o] EXCEPT !.up = FALSE, !.late = TRUE]
    BY <1>1, Updates
  <1>4. /\ s.id = sess[o].id /\ s.turns = sess[o].turns /\ s.fh = "none"
        /\ s.own = sess[o].own /\ s.parked = sess[o].parked
        /\ w.id = sess[o].id /\ w.turns = sess[o].turns /\ w.fh = sess[o].fh
        /\ w.own = sess[o].own /\ w.parked = sess[o].parked
    BY <1>1, <1>2, <1>3 DEF Obj
  <1>5. LogClosed(o) = [sess EXCEPT ![o] = s] /\ Waiting(o) = [sess EXCEPT ![o] = w]
    BY <1>2, <1>3 DEF LogClosed, Waiting
  <1> QED
    BY <1>1, <1>4, <1>5

LEMMA UnlinkedFacts ==
  ASSUME Objects, NEW o \in 1..Len(sess)
  PROVE  /\ Unlinked(o) \in [1..Len(sess) -> Obj]
         /\ \A p \in 1..Len(sess) :
              /\ Unlinked(o)[p].id = sess[p].id /\ Unlinked(o)[p].turns = sess[p].turns
              /\ Unlinked(o)[p].own = sess[p].own /\ Unlinked(o)[p].parked = sess[p].parked
              /\ Unlinked(o)[p].fh =
                   IF p = o THEN "none"
                   ELSE IF sess[p].id = sess[o].id /\ sess[p].fh = "file" THEN "gone" ELSE sess[p].fh
  <1>1. DOMAIN sess = 1..Len(sess) /\ sess \in [1..Len(sess) -> Obj]
    BY LenProperties DEF Objects
  <1>2. ASSUME NEW p \in 1..Len(sess)
        PROVE  /\ Unlinked(o)[p] \in Obj
               /\ Unlinked(o)[p].id = sess[p].id /\ Unlinked(o)[p].turns = sess[p].turns
               /\ Unlinked(o)[p].own = sess[p].own /\ Unlinked(o)[p].parked = sess[p].parked
               /\ Unlinked(o)[p].fh =
                    IF p = o THEN "none"
                    ELSE IF sess[p].id = sess[o].id /\ sess[p].fh = "file" THEN "gone" ELSE sess[p].fh
    <2>1. PICK g \in Obj : g = [sess[p] EXCEPT !.fh = "gone"]
      BY <1>1, Updates
    <2>2. /\ g.id = sess[p].id /\ g.turns = sess[p].turns /\ g.fh = "gone"
          /\ g.own = sess[p].own /\ g.parked = sess[p].parked
      BY <1>1, <2>1 DEF Obj
    <2>3. Unlinked(o)[p] = IF p # o /\ sess[p].id = sess[o].id /\ sess[p].fh = "file"
                           THEN g ELSE LogClosed(o)[p]
      BY <1>1, <2>1 DEF Unlinked
    <2> QED
      BY <2>2, <2>3, <1>1, ClosedFacts
  <1> QED
    BY <1>1, <1>2 DEF Unlinked

LEMMA EndsKeeps ==
  ASSUME Objects, Papers, Files, NEW o \in 1..Len(sess), NEW delete \in BOOLEAN,
         Ends(o, delete), table' \in [Ids -> 0..Len(sess)],
         \A i \in Ids : table'[i] \in {0, table[i]}, table'[sess[o].id] # o
  PROVE  Stay /\ Objects' /\ Papers' /\ Files'
  <1>1. CASE ~delete
    <2>1. sess' = LogClosed(o) /\ UNCHANGED <<reg, files, cut, stray, deleted>>
      BY <1>1 DEF Ends, ClosesLog
    <2>2. Stay
      BY <2>1, ClosedFacts DEF Stay
    <2>3. \A p \in 1..Len(sess) :
            /\ sess'[p].turns = sess[p].turns /\ (InUse(p)' => InUse(p))
            /\ sess'[p].fh # sess[p].fh => sess'[p].fh = "none" /\ p = o
      BY <2>1, ClosedFacts DEF InUse
    <2>4. ~Live(o)'
      BY <2>2 DEF Live, Stay
    <2>5. Quiet
      BY <2>1, <2>2, <2>3, <2>4 DEF Quiet
    <2> QED
      BY <2>2, <2>5, QuietKeeps
  <1>2. CASE delete
    <2>1. Deletes(o)
      BY <1>2 DEF Ends
    <2>2. Stay
      BY <2>1, UnlinkedFacts DEF Stay, Deletes
    <2>3. ~Live(o)'
      BY <2>2 DEF Live, Stay
    <2>4. Erasure(o)
      BY <2>1, <2>2, <2>3, UnlinkedFacts DEF Erasure, Deletes, InUse
    <2> QED
      BY <2>2, <2>4, ErasureKeeps
  <1> QED
    BY <1>1, <1>2

LEMMA RemovesKeeps ==
  ASSUME Inv, NEW h \in Handlers, NEW i \in Ids, NEW delete \in BOOLEAN, Known(i),
         Removes(h, i, delete), owned' \in [Handlers -> SUBSET Ids], UNCHANGED <<reaper, fanout>>
  PROVE  Inv'
  <1>0. Objects /\ Papers /\ Files /\ Len(sess) \in Nat
    BY ObjectFacts DEF Inv
  <1>1. PICK o \in 1..Len(sess) : o = table[i] /\ sess[o].id = i
    BY <1>0, ObjectFacts
  <1>2. /\ table' \in [Ids -> 0..Len(sess)] /\ table'[i] # o
        /\ \A j \in Ids : table'[j] \in {0, table[j]}
    BY <1>0, <1>1 DEF Removes, Objects
  <1>3. CASE Ends(o, delete) /\ doing' = [doing EXCEPT ![h] = Rest]
    <2>1. Stay /\ Objects' /\ Papers' /\ Files'
      BY <1>0, <1>1, <1>2, <1>3, EndsKeeps
    <2> QED
      BY <2>1, <1>3, HandlerGoes
  <1>4. CASE /\ sess' = Waiting(o) /\ UNCHANGED <<reg, files, cut, stray, deleted>>
             /\ doing' = [doing EXCEPT ![h] = AtClosing(i, o, delete)]
    <2>1. Stay
      BY <1>0, <1>2, <1>4, ClosedFacts DEF Stay
    <2>2. \A p \in 1..Len(sess) :
            /\ sess'[p].turns = sess[p].turns /\ (InUse(p)' => InUse(p))
            /\ sess'[p].fh = sess[p].fh
      BY <1>0, <1>4, ClosedFacts DEF InUse
    <2>3. Quiet
      BY <1>4, <2>1, <2>2 DEF Quiet
    <2>4. Objects' /\ Papers' /\ Files'
      BY <1>0, <2>3, QuietKeeps
    <2>5. PICK d : d = AtClosing(i, o, delete)
      OBVIOUS
    <2>6. d \in Suspended(Len(sess)) /\ d.id = i /\ d.object = o
      BY <1>0, <2>5, SuspendedFacts
    <2> QED
      BY <1>1, <1>2, <1>4, <2>1, <2>4, <2>5, <2>6, HandlerGoes
  <1> QED
    BY <1>1, <1>3, <1>4 DEF Removes, AtClosing

LEMMA CloseKeeps ==
  ASSUME Inv, NEW h \in Handlers, NEW i \in Ids, NEW delete \in BOOLEAN, Close(h, i, delete)
  PROVE  Inv'
  <1>1. owned' \in [Handlers -> SUBSET Ids]
    BY DEF Close, Inv, Others
  <1> QED
    BY <1>1, RemovesKeeps DEF Close

LEMMA RemovedKeeps ==
  ASSUME Inv, NEW h \in Handlers, Removed(h)
  PROVE  Inv'
  <1>0. Objects /\ Papers /\ Files /\ Others
    BY DEF Inv
  <1>1. PICK o \in 1..Len(sess) :
          o = doing[h].object /\ table[sess[o].id] # o /\ doing[h].delete \in BOOLEAN
    BY SuspendedObject DEF Removed
  <1>2. /\ Ends(o, doing[h].delete) /\ doing' = [doing EXCEPT ![h] = Rest]
        /\ UNCHANGED <<table, owned, reaper, fanout>>
    BY <1>1 DEF Removed
  <1>3. Stay /\ Objects' /\ Papers' /\ Files'
    BY <1>0, <1>1, <1>2, EndsKeeps DEF Objects
  <1> QED
    BY <1>0, <1>2, <1>3, HandlerGoes DEF Others

LEMMA SpawnFailsKeeps ==
  ASSUME Inv, NEW h \in Handlers, SpawnFails(h)
  PROVE  Inv'
  <1>0. Objects /\ Papers /\ Files /\ Others /\ doing[h].id \in Ids
    BY SuspendedObject DEF Inv, SpawnFails
  <1>1. CASE doing[h].op = "open" /\ Known(doing[h].id)
    BY <1>0, <1>1, RemovesKeeps DEF SpawnFails, Others
  <1>2. CASE ~(doing[h].op = "open" /\ Known(doing[h].id))
    <2>1. /\ doing' = [doing EXCEPT ![h] = Rest]
          /\ UNCHANGED <<sess, table, reg, files, cut, stray, deleted, owned, reaper, fanout>>
      BY <1>2 DEF SpawnFails
    <2>2. Quiet
      BY <1>0, <2>1, SameQuiet
    <2>3. Stay /\ Objects' /\ Papers' /\ Files'
      BY <1>0, <2>2, QuietKeeps DEF Quiet
    <2> QED
      BY <1>0, <2>1, <2>3, HandlerGoes DEF Others
  <1> QED
    BY <1>1, <1>2

LEMMA SameStay ==
  ASSUME Objects, UNCHANGED <<sess, table>>
  PROVE  Stay /\ \A o \in 1..Len(sess) : (Live(o)' <=> Live(o)) /\ (InUse(o)' <=> InUse(o))
  <1>1. sess \in [1..Len(sess) -> Obj]
    BY LenProperties DEF Objects
  <1> QED
    BY <1>1 DEF Stay, Objects, Live, InUse

LEMMA CloseUnknownKeeps ==
  ASSUME Inv, NEW h \in Handlers, NEW i \in Ids, NEW delete \in BOOLEAN,
         CloseUnknown(h, i, delete)
  PROVE  Inv'
  <1>0. Objects /\ Papers /\ Files /\ Others
    BY DEF Inv
  <1>1. /\ ~Known(i) /\ UNCHANGED <<sess, table, doing, reaper, fanout, log, side, cut, stray, deleted>>
        /\ owned' \in [Handlers -> SUBSET Ids]
        /\ reg' \in {reg, [reg EXCEPT ![i] = Absent]} /\ disk' = reg'
    BY <1>0 DEF CloseUnknown, counters, Others, Papers
  <1>2. Papers'
    BY <1>0, <1>1 DEF Papers
  <1>3. /\ Stay /\ Objects'
        /\ \A o \in 1..Len(sess) : (Live(o)' <=> Live(o)) /\ (InUse(o)' <=> InUse(o))
        /\ \A o \in 1..Len(sess) : Newer(o)' = Newer(o)
    BY <1>0, <1>1, SameStay, StayKeeps
  <1>4. ASSUME NEW j \in Ids, j # i PROVE FilesOf(j)'
    <2>1. disk'[j] = disk[j]
      BY <1>0, <1>1, <1>4 DEF Papers
    <2> QED
      BY <1>0, <1>1, <1>3, <2>1, Elsewhere DEF Files
  <1>5. FilesOf(i)'
    <2>1. disk'[i] \in {disk[i], Absent} /\ ~Known(i)'
      BY <1>0, <1>1 DEF Papers, Known
    <2>2. LoggedTurns(i)' = LoggedTurns(i) /\ CountedTurns(i)' = CountedTurns(i)
      BY <1>1 DEF LoggedTurns, CountedTurns
    <2>3. LastHasIt(i)' /\ OnFile(i)'
      BY <1>0, <1>1, <2>1 DEF Files, FilesOf, LastHasIt, OnFile
    <2>4. ASSUME i \notin stray' PROVE Ordered(i)'
      <3>1. Ordered(i)
        BY <1>0, <1>1, <2>4 DEF Files, FilesOf
      <3>2. LastIsCurrent(i)'
        BY <3>1, <2>2, <1>1, <1>3 DEF Ordered, LastIsCurrent
      <3> QED
        BY <3>1, <3>2, <2>1, <2>2, <1>1 DEF Ordered, Counted, Registered, Behind, Erased
    <2> QED
      BY <2>3, <2>4 DEF FilesOf
  <1>6. Files'
    BY <1>4, <1>5 DEF Files
  <1> QED
    BY <1>0, <1>1, <1>2, <1>3, <1>6, HandlersWait DEF Others

LEMMA OpenRefusedKeeps ==
  ASSUME Inv, NEW h \in Handlers, NEW i \in Ids, OpenRefused(h, i)
  PROVE  Inv'
  <1>0. Objects /\ Papers /\ Files /\ Others
    BY DEF Inv
  <1>1. /\ ~Known(i) /\ log' = Logged(i) /\ deleted' = deleted \ {i}
        /\ UNCHANGED <<sess, table, owned, doing, reaper, fanout, reg, side, disk, cut, stray>>
    BY DEF OpenRefused, memory, counters
  <1>2. /\ log' \in [Ids -> {Absent} \cup 0..MaxTurns]
        /\ \A j \in Ids : LoggedTurns(j)' = LoggedTurns(j)
        /\ \A j \in Ids \ {i} : log'[j] = log[j]
        /\ log'[i] # Absent
    BY <1>0, <1>1, LoggedFacts
  <1>3. Papers'
    BY <1>0, <1>1, <1>2 DEF Papers
  <1>4. /\ Stay /\ Objects'
        /\ \A o \in 1..Len(sess) : (Live(o)' <=> Live(o)) /\ (InUse(o)' <=> InUse(o))
        /\ \A o \in 1..Len(sess) : Newer(o)' = Newer(o)
    BY <1>0, <1>1, SameStay, StayKeeps
  <1>5. ASSUME NEW j \in Ids, j # i PROVE FilesOf(j)'
    BY <1>0, <1>1, <1>2, <1>4, <1>5, Elsewhere DEF Files
  <1>6. FilesOf(i)'
    <2>1. CountedTurns(i)' = CountedTurns(i) /\ ~Known(i)'
      BY <1>1 DEF CountedTurns, Known
    <2>2. LastHasIt(i)' /\ OnFile(i)'
      BY <1>2, <2>1 DEF LastHasIt, OnFile
    <2>3. ASSUME i \notin stray' PROVE Ordered(i)'
      <3>1. Ordered(i)
        BY <1>0, <1>1, <2>3 DEF Files, FilesOf
      <3>2. LastIsCurrent(i)'
        BY <3>1, <2>1, <1>1, <1>4 DEF Ordered, LastIsCurrent
      <3> QED
        BY <3>1, <3>2, <2>1, <1>1, <1>2 DEF Ordered, Counted, Registered, Behind
    <2> QED
      BY <2>2, <2>3 DEF FilesOf
  <1>7. Files'
    BY <1>5, <1>6 DEF Files
  <1> QED
    BY <1>0, <1>1, <1>3, <1>4, <1>7, HandlersWait DEF Others

(***************************************************************************)
(* Leaving, and the two reapers                                            *)
(***************************************************************************)
LEMMA ParkedFacts ==
  ASSUME NEW s \in Obj
  PROVE  /\ Parked(s) \in Obj /\ Parked(s).id = s.id /\ Parked(s).turns = s.turns
         /\ Parked(s).fh = s.fh
         /\ \A b \in BOOLEAN :
              /\ [Parked(s) EXCEPT !.up = b] \in Obj /\ [Parked(s) EXCEPT !.up = b].id = s.id
              /\ [Parked(s) EXCEPT !.up = b].turns = s.turns
              /\ [Parked(s) EXCEPT !.up = b].fh = s.fh
  <1>1. PICK r \in Obj : r = Parked(s)
    BY Updates
  <1>2. r.id = s.id /\ r.turns = s.turns /\ r.fh = s.fh
    BY <1>1 DEF Parked, Obj
  <1>3. ASSUME NEW b \in BOOLEAN
        PROVE  /\ [r EXCEPT !.up = b] \in Obj /\ [r EXCEPT !.up = b].id = r.id
               /\ [r EXCEPT !.up = b].turns = r.turns /\ [r EXCEPT !.up = b].fh = r.fh
    BY DEF Obj
  <1> QED
    BY <1>1, <1>2, <1>3

LEMMA DetachKeeps ==
  ASSUME Inv, NEW h \in Handlers, NEW i \in Ids, Detach(h, i)
  PROVE  Inv'
  <1>0. /\ Objects /\ Papers /\ Files /\ Others /\ sess \in [1..Len(sess) -> Obj]
    BY LenProperties DEF Inv, Objects
  <1>1. /\ UNCHANGED <<table, doing, reaper, fanout, reg, files, cut, stray, deleted>>
        /\ owned' \in [Handlers -> SUBSET Ids]
    BY <1>0 DEF Detach, counters, Others
  <1>2. CASE Known(i) /\ TheSession(i).own = h
    <2>1. PICK o \in 1..Len(sess) : o = table[i] /\ sess[o].own = h
      BY <1>0, <1>2, ObjectFacts DEF TheSession
    <2>2. sess' = [sess EXCEPT ![o] = Parked(sess[o])]
      BY <1>2, <2>1 DEF Detach
    <2>3. /\ sess' \in [1..Len(sess) -> Obj]
          /\ \A p \in 1..Len(sess) : /\ sess'[p].id = sess[p].id /\ sess'[p].turns = sess[p].turns
                                      /\ sess'[p].fh = sess[p].fh
      BY <1>0, <2>2, ParkedFacts
    <2>4. \A p \in 1..Len(sess) : InUse(p)' => InUse(p)
      BY <1>0, <2>1, <2>2, AbsenceAssumption DEF InUse
    <2>5. Quiet
      BY <1>0, <1>1, <2>3, <2>4 DEF Quiet, Stay, Objects
    <2>6. Stay /\ Objects' /\ Papers' /\ Files'
      BY <1>0, <2>5, QuietKeeps DEF Quiet
    <2> QED
      BY <1>0, <1>1, <2>6, HandlersWait DEF Others
  <1>3. CASE ~(Known(i) /\ TheSession(i).own = h)
    <2>1. sess' = sess
      BY <1>3 DEF Detach
    <2>2. Quiet
      BY <1>0, <1>1, <2>1, SameQuiet
    <2>3. Stay /\ Objects' /\ Papers' /\ Files'
      BY <1>0, <2>2, QuietKeeps DEF Quiet
    <2> QED
      BY <1>0, <1>1, <2>3, HandlersWait DEF Others
  <1> QED
    BY <1>2, <1>3

LEMMA LeaveKeeps ==
  ASSUME Inv, NEW h \in Handlers, Leave(h)
  PROVE  Inv'
  <1>0. /\ Objects /\ Papers /\ Files /\ Others /\ sess \in [1..Len(sess) -> Obj]
        /\ DOMAIN sess = 1..Len(sess)
    BY LenProperties DEF Inv, Objects
  <1>1. /\ UNCHANGED <<table, doing, reaper, fanout, reg, files, cut, stray, deleted>>
        /\ owned' \in [Handlers -> SUBSET Ids]
    BY <1>0 DEF Leave, counters, Others
  <1> DEFINE mine == {table[i] : i \in {j \in Ids : Known(j) /\ TheSession(j).own = h}}
  <1>2. \A o \in mine : sess[o].own = h
    BY DEF TheSession
  <1>3. PICK busy : sess' = [o \in DOMAIN sess |->
                              IF o \in mine THEN [Parked(sess[o]) EXCEPT !.up = o \in busy] ELSE sess[o]]
    BY DEF Leave
  <1>4. ASSUME NEW o \in 1..Len(sess)
        PROVE  /\ sess'[o] \in Obj /\ sess'[o].id = sess[o].id /\ sess'[o].turns = sess[o].turns
               /\ sess'[o].fh = sess[o].fh /\ (InUse(o)' => InUse(o))
    <2>1. CASE o \in mine
      <3>1. PICK b \in BOOLEAN : b = (o \in busy)
        <4>1. (o \in busy) = TRUE \/ (o \in busy) = FALSE
          OBVIOUS
        <4> QED
          BY <4>1
      <3>2. sess'[o] = [Parked(sess[o]) EXCEPT !.up = b]
        BY <1>0, <1>3, <2>1, <3>1
      <3>3. PICK s \in Obj : s = sess[o]
        BY <1>0
      <3>4. /\ sess'[o] \in Obj /\ sess'[o].id = s.id /\ sess'[o].turns = s.turns
            /\ sess'[o].fh = s.fh
        BY <3>2, <3>3, ParkedFacts
      <3>5. InUse(o)
        BY <1>2, <2>1, AbsenceAssumption DEF InUse
      <3> QED
        BY <3>3, <3>4, <3>5
    <2>2. CASE o \notin mine
      BY <1>0, <1>3, <2>2 DEF InUse
    <2> QED
      BY <2>1, <2>2
  <1>5. sess' \in [1..Len(sess) -> Obj]
    BY <1>0, <1>3, <1>4
  <1>6. Quiet
    BY <1>0, <1>1, <1>4, <1>5 DEF Quiet, Stay, Objects
  <1>7. Stay /\ Objects' /\ Papers' /\ Files'
    BY <1>0, <1>6, QuietKeeps DEF Quiet
  <1> QED
    BY <1>0, <1>1, <1>7, HandlersWait DEF Others

(* A sweep of the reaper takes objects out of the table, and closes logs   *)
(* of those that are out of it.                                            *)
LEMMA SweepsKeeps ==
  ASSUME Inv, NEW todo \in SUBSET Ids, NEW O \in [1..Len(sess) -> Obj],
         \A p \in 1..Len(sess) :
           /\ O[p].id = sess[p].id /\ O[p].turns = sess[p].turns
           /\ O[p].own = sess[p].own /\ O[p].parked = sess[p].parked
           /\ O[p].fh # sess[p].fh => O[p].fh = "none" /\ ~Live(p),
         Sweeps(todo, O), UNCHANGED <<owned, doing, fanout, reg, files, counters, stray, deleted>>
  PROVE  Inv'
  <1>0. /\ Objects /\ Papers /\ Files /\ Others /\ Suspensions /\ Len(sess) \in Nat
        /\ DOMAIN sess = 1..Len(sess)
    BY ObjectFacts DEF Inv
  <1>1. UNCHANGED <<owned, doing, fanout, reg, files, cut, stray, deleted>>
    BY DEF counters
  <1>2. PICK now \in SUBSET todo :
          LET done == {table[i] : i \in now} IN
            \/ /\ now = todo
               /\ reaper' = Asleep
               /\ sess' = [o \in DOMAIN sess |-> IF o \in done THEN LogClosed(o)[o] ELSE O[o]]
               /\ table' = [i \in Ids |-> IF i \in now THEN 0 ELSE table[i]]
            \/ \E i \in todo \ now :
                 /\ Known(i) /\ TheSession(i).up
                 /\ reaper' = [todo |-> todo \ (now \cup {i}), object |-> table[i]]
                 /\ sess' = [o \in DOMAIN sess |-> IF o \in done THEN LogClosed(o)[o]
                                                    ELSE IF o = table[i] THEN Waiting(o)[o] ELSE O[o]]
                 /\ table' = [j \in Ids |-> IF j \in now \cup {i} THEN 0 ELSE table[j]]
    BY DEF Sweeps
  <1> DEFINE done == {table[i] : i \in now}
  <1>3. \A i \in Ids : Known(i) => table[i] \in 1..Len(sess) /\ sess[table[i]].id = i
    BY <1>0, ObjectFacts
  <1>4. /\ table' \in [Ids -> 0..Len(sess)]
        /\ \A i \in Ids : table'[i] \in {0, table[i]} /\ (i \in now => table'[i] = 0)
    BY <1>0, <1>2 DEF Objects
  <1>5. ASSUME NEW o \in 1..Len(sess)
        PROVE  /\ sess'[o] = IF o \in done THEN LogClosed(o)[o]
                             ELSE IF sess'[o] = O[o] THEN O[o] ELSE Waiting(o)[o]
               /\ sess' = [p \in 1..Len(sess) |-> sess'[p]]
    BY <1>0, <1>2
  <1>6. ASSUME NEW o \in 1..Len(sess)
        PROVE  /\ sess'[o] \in Obj /\ sess'[o].id = sess[o].id /\ sess'[o].turns = sess[o].turns
               /\ sess'[o].own = sess[o].own /\ sess'[o].parked = sess[o].parked
               /\ sess'[o].fh # sess[o].fh => sess'[o].fh = "none" /\ (o \in done \/ ~Live(o))
    <2>1. CASE sess'[o] = LogClosed(o)[o] /\ o \in done
      <3>1. /\ LogClosed(o)[o] \in Obj /\ LogClosed(o)[o].id = sess[o].id
            /\ LogClosed(o)[o].turns = sess[o].turns /\ LogClosed(o)[o].fh = "none"
            /\ LogClosed(o)[o].own = sess[o].own /\ LogClosed(o)[o].parked = sess[o].parked
        BY <1>0, ClosedFacts
      <3> QED
        BY <2>1, <3>1
    <2>2. CASE sess'[o] = O[o]
      BY <2>2
    <2>3. CASE sess'[o] = Waiting(o)[o]
      <3>1. /\ Waiting(o)[o] \in Obj /\ Waiting(o)[o].id = sess[o].id
            /\ Waiting(o)[o].turns = sess[o].turns /\ Waiting(o)[o].fh = sess[o].fh
            /\ Waiting(o)[o].own = sess[o].own /\ Waiting(o)[o].parked = sess[o].parked
        BY <1>0, ClosedFacts
      <3> QED
        BY <2>3, <3>1
    <2> QED
      BY <2>1, <2>2, <2>3, <1>5
  <1>7. sess' \in [1..Len(sess) -> Obj]
    BY <1>0, <1>2, <1>6
  <1>8. Stay
    BY <1>4, <1>6, <1>7 DEF Stay
  <1>9. \A o \in 1..Len(sess) : Live(o)' => Live(o)
    BY <1>0, <1>8, StayKeeps
  <1>10. ASSUME NEW o \in 1..Len(sess), o \in done PROVE ~Live(o)'
    <2>1. PICK i \in now : o = table[i]
      BY <1>10
    <2>2. Known(i) /\ sess[o].id = i
      BY <1>0, <1>3, <2>1 DEF Known
    <2>3. sess'[o].id = i /\ table'[i] = 0
      BY <1>4, <1>6, <2>2
    <2> QED
      BY <2>3, <1>0 DEF Live
  <1>11. Quiet
    BY <1>1, <1>6, <1>8, <1>9, <1>10 DEF Quiet, InUse
  <1>12. Objects' /\ Papers' /\ Files' /\ Len(sess') = Len(sess)
    BY <1>0, <1>8, <1>11, QuietKeeps, StayKeeps
  <1>13. Suspensions'
    BY <1>0, <1>1, <1>4, <1>6, <1>12, AllWait
  <1>14. Others'
    <2>1. CASE reaper' = Asleep
      BY <2>1, <1>0, <1>1, <1>12 DEF Others, Asleep
    <2>2. ASSUME NEW i \in todo \ now, Known(i),
                 reaper' = [todo |-> todo \ (now \cup {i}), object |-> table[i]],
                 table' = [j \in Ids |-> IF j \in now \cup {i} THEN 0 ELSE table[j]]
          PROVE  Others'
      <3>1. PICK o \in 1..Len(sess) : o = table[i] /\ sess[o].id = i
        BY <2>2, <1>3
      <3>2. sess'[o].id = i /\ table'[i] = 0
        BY <2>2, <3>1, <1>6
      <3>3. reaper'.object = o /\ reaper' \in [todo : SUBSET Ids, object : 0..Len(sess')]
        BY <2>2, <3>1, <1>0, <1>12
      <3> QED
        BY <3>1, <3>2, <3>3, <1>0, <1>1, <1>12 DEF Others, Live
    <2> QED
      BY <2>1, <2>2, <1>2
  <1> QED
    BY <1>12, <1>13, <1>14 DEF Inv

LEMMA ReapsKeep ==
  ASSUME Inv, Reap \/ Reaped
  PROVE  Inv'
  <1>0. Objects /\ Others /\ sess \in [1..Len(sess) -> Obj]
    BY LenProperties DEF Inv, Objects
  <1>1. CASE Reap
    BY <1>0, <1>1, SweepsKeeps DEF Reap
  <1>2. CASE Reaped
    <2>1. PICK o \in 1..Len(sess) : o = reaper.object /\ ~Live(o)
      BY <1>0, <1>2, ObjectFacts DEF Reaped, Others
    <2>2. PICK O \in [1..Len(sess) -> Obj] : O = LogClosed(o)
      BY <1>0, ClosedFacts
    <2>3. \A p \in 1..Len(sess) :
            /\ O[p].id = sess[p].id /\ O[p].turns = sess[p].turns
            /\ O[p].own = sess[p].own /\ O[p].parked = sess[p].parked
            /\ O[p].fh # sess[p].fh => O[p].fh = "none" /\ ~Live(p)
      <3>1. \A p \in 1..Len(sess) \ {o} : O[p] = sess[p]
        BY <1>0, <2>2, ClosedFacts
      <3>2. /\ O[o].id = sess[o].id /\ O[o].turns = sess[o].turns
            /\ O[o].own = sess[o].own /\ O[o].parked = sess[o].parked /\ O[o].fh = "none"
        BY <1>0, <2>2, ClosedFacts
      <3> QED
        BY <3>1, <3>2, <2>1
    <2>4. Sweeps(reaper.todo, O) /\ UNCHANGED <<owned, doing, fanout, reg, files, counters, stray, deleted>>
      BY <1>2, <2>1, <2>2 DEF Reaped
    <2> QED
      BY <1>0, <2>3, <2>4, SweepsKeeps DEF Others
  <1> QED
    BY <1>1, <1>2

(* What the table has of an id whose files are in order is current.        *)
LEMMA LiveIsCurrent ==
  ASSUME Objects, Files, NEW i \in Ids, i \notin stray, Known(i)
  PROVE  TheSession(i).turns = CountedTurns(i) /\ TheSession(i).fh = "file" /\ i \notin deleted
  <1>1. PICK o \in 1..Len(sess) : o = table[i] /\ sess[o].id = i /\ Live(o) /\ Newer(o) = {}
    BY ObjectFacts DEF Files, FilesOf, LastHasIt, Live
  <1> QED
    BY <1>1 DEF Files, FilesOf, Ordered, LastIsCurrent, TheSession

LEMMA TouchKeeps ==
  ASSUME Inv, Touch
  PROVE  Inv'
  <1>0. Objects /\ Papers /\ Files /\ Others
    BY DEF Inv
  <1>1. /\ reg' = [i \in Ids |-> Touched(i)] /\ disk' = reg'
        /\ UNCHANGED <<sess, table, owned, doing, reaper, fanout, log, side, cut, stray, deleted>>
    BY DEF Touch, counters
  <1>2. ASSUME NEW i \in Ids
        PROVE  /\ Touched(i) \in {Absent} \cup Kept
               /\ Touched(i) = Absent <=> reg[i] = Absent
               /\ Touched(i) # reg[i] => Known(i) /\ Touched(i).turns = TheSession(i).turns
    <2>1. CASE Known(i) /\ reg[i] # Absent
      <3>1. reg[i] \in Kept /\ TheSession(i).turns \in 0..MaxTurns
        BY <1>0, <2>1, PaperFacts, ObjectFacts DEF TheSession, Obj
      <3>2. Touched(i) = [reg[i] EXCEPT !.turns = TheSession(i).turns]
        BY <2>1 DEF Touched
      <3>3. Touched(i) \in Kept /\ Touched(i).turns = TheSession(i).turns
        BY <3>1, <3>2 DEF Kept
      <3> QED
        BY <2>1, <3>3, KeptFacts
    <2>2. CASE ~(Known(i) /\ reg[i] # Absent)
      BY <2>2, <1>0 DEF Touched, Papers
    <2> QED
      BY <2>1, <2>2
  <1>3. Papers'
    BY <1>0, <1>1, <1>2 DEF Papers
  <1>4. /\ Stay /\ Objects'
        /\ \A o \in 1..Len(sess) : (Live(o)' <=> Live(o)) /\ (InUse(o)' <=> InUse(o))
        /\ \A o \in 1..Len(sess) : Newer(o)' = Newer(o)
    BY <1>0, <1>1, SameStay, StayKeeps
  <1>5. ASSUME NEW i \in Ids PROVE FilesOf(i)'
    <2>1. /\ LoggedTurns(i)' = LoggedTurns(i) /\ CountedTurns(i)' = CountedTurns(i)
          /\ disk'[i] = Touched(i) /\ disk[i] = reg[i] /\ (Known(i)' <=> Known(i))
      BY <1>0, <1>1 DEF LoggedTurns, CountedTurns, Papers, Known
    <2>2. LastHasIt(i)' /\ OnFile(i)'
      BY <1>0, <1>1 DEF Files, FilesOf, LastHasIt, OnFile, Known, Newer
    <2>3. ASSUME i \notin stray' PROVE Ordered(i)'
      <3>1. Ordered(i)
        BY <1>0, <1>1, <2>3 DEF Files, FilesOf
      <3>2. LastIsCurrent(i)'
        BY <3>1, <2>1, <1>1, <1>4 DEF Ordered, LastIsCurrent
      <3>3. Registered(i)'
        BY <3>1, <2>1, <1>1, <1>2 DEF Ordered, Registered, InUse
      <3>4. Behind(i)'
        <4>1. CASE Touched(i) = reg[i]
          BY <4>1, <3>1, <2>1 DEF Ordered, Behind
        <4>2. CASE Touched(i) # reg[i]
          <5>1. Touched(i).turns = CountedTurns(i) /\ CountedTurns(i) \in 0..MaxTurns
            BY <4>2, <1>0, <1>1, <1>2, <2>3, LiveIsCurrent, PaperFacts
          <5> QED
            BY <5>1, <2>1 DEF Behind
        <4> QED
          BY <4>1, <4>2
      <3>5. i \in deleted' => Erased(i)'
        BY <3>1, <2>1, <1>1, <1>2 DEF Ordered, Erased
      <3> QED
        BY <3>1, <3>2, <3>3, <3>4, <3>5, <2>1, <1>1 DEF Ordered, Counted
    <2> QED
      BY <2>2, <2>3 DEF FilesOf
  <1>6. Files'
    BY <1>5 DEF Files
  <1> QED
    BY <1>0, <1>1, <1>3, <1>4, <1>6, HandlersWait DEF Others

(***************************************************************************)
(* Events, and deaths                                                      *)
(***************************************************************************)
LEMMA ResultsKeep ==
  ASSUME Inv, NEW o \in 1..Len(sess), Results(o)
  PROVE  Inv'
  <1>0. /\ Objects /\ Papers /\ Files /\ Others /\ sess \in [1..Len(sess) -> Obj]
    BY LenProperties DEF Inv, Objects
  <1>1. /\ Counts(o) /\ log' = Written(o, 1) /\ stray' = Marked(o)
        /\ UNCHANGED <<table, owned, doing, reaper, fanout, reg, disk, cut, deleted>>
    BY DEF Results, counters
  <1>2. PICK up \in BOOLEAN :
          sess' = [sess EXCEPT ![o] = [sess[o] EXCEPT !.turns = sess[o].turns + 1,
                                                      !.fh = Reopened(o), !.up = up, !.late = FALSE]]
    <2>1. {sess[o].up} \cup (IF sess[o].parked THEN {FALSE} ELSE {}) \subseteq BOOLEAN
      BY <1>0 DEF Obj
    <2> QED
      BY <2>1 DEF Results
  <1>3. Reopened(o) \in {"file", "gone", "none"} /\ sess[o].turns < MaxTurns
    BY <1>0, <1>1 DEF Reopened, Obj, Counts
  <1>4. PICK s \in Obj : s = [sess[o] EXCEPT !.turns = sess[o].turns + 1, !.fh = Reopened(o),
                                             !.up = up, !.late = FALSE]
    BY <1>0, <1>3, Updates
  <1>5. /\ s.id = sess[o].id /\ s.turns = sess[o].turns + 1 /\ s.fh = Reopened(o)
        /\ s.own = sess[o].own /\ s.parked = sess[o].parked
    BY <1>0, <1>4 DEF Obj
  <1>6. sess' = [sess EXCEPT ![o] = s]
    BY <1>0, <1>2, <1>4
  <1>7. /\ sess' \in [1..Len(sess) -> Obj]
        /\ \A p \in 1..Len(sess) :
             /\ sess'[p].id = sess[p].id /\ (InUse(p)' = InUse(p))
             /\ sess'[p].turns = IF p = o THEN sess[o].turns + 1 ELSE sess[p].turns
             /\ sess'[p].fh = IF p = o THEN Reopened(o) ELSE sess[p].fh
    BY <1>0, <1>5, <1>6 DEF InUse
  <1>8. Stay
    BY <1>0, <1>1, <1>7 DEF Stay, Objects
  <1>9. \E k \in Kept : side' = [side EXCEPT ![sess[o].id] = k] /\ k.turns = sess[o].turns + 1
    <2>1. side' = [side EXCEPT ![sess[o].id] = [turns |-> sess[o].turns + 1, native |-> sess[o].native]]
      BY <1>7 DEF Results
    <2>2. [turns |-> sess[o].turns + 1, native |-> sess[o].native] \in Kept
      BY <1>0, <1>3, BoundsAssumption DEF Kept, Obj
    <2> QED
      BY <2>1, <2>2
  <1>10. Appending(o, 1)
    <2>1. 1 # 0
      OBVIOUS
    <2> QED
      BY <2>1, <1>1, <1>7, <1>8, <1>9, Zenon DEF Appending
  <1>11. Objects' /\ Papers' /\ Files'
    BY <1>0, <1>10, AppendingKeeps
  <1> QED
    BY <1>0, <1>1, <1>8, <1>11, HandlersWait DEF Others

LEMMA TellKeeps ==
  ASSUME Inv, NEW o \in 1..Len(sess), Tell(o)
  PROVE  Inv'
  <1>0. /\ Objects /\ Papers /\ Files /\ Others /\ sess \in [1..Len(sess) -> Obj]
    BY LenProperties DEF Inv, Objects
  <1>1. /\ log' = Written(o, 0) /\ stray' = Marked(o) /\ fanout' \subseteq 1..Len(sess)
        /\ UNCHANGED <<table, owned, doing, reaper, reg, side, disk, cut, deleted>>
    BY <1>0 DEF Tell, counters, Others
  <1>2. Reopened(o) \in {"file", "gone", "none"}
    BY <1>0 DEF Reopened, Obj
  <1>3. PICK s \in Obj : s = [sess[o] EXCEPT !.fh = Reopened(o)]
    BY <1>0, <1>2, Updates
  <1>4. /\ s.id = sess[o].id /\ s.turns = sess[o].turns /\ s.fh = Reopened(o)
        /\ s.own = sess[o].own /\ s.parked = sess[o].parked
    BY <1>0, <1>3 DEF Obj
  <1>5. sess' = [sess EXCEPT ![o] = s]
    BY <1>0, <1>3 DEF Tell
  <1>6. sess[o].turns + 0 = sess[o].turns
    BY <1>0, BoundsAssumption DEF Obj
  <1>7. /\ sess' \in [1..Len(sess) -> Obj]
        /\ \A p \in 1..Len(sess) :
             /\ sess'[p].id = sess[p].id /\ (InUse(p)' = InUse(p))
             /\ sess'[p].turns = IF p = o THEN sess[o].turns + 0 ELSE sess[p].turns
             /\ sess'[p].fh = IF p = o THEN Reopened(o) ELSE sess[p].fh
    BY <1>0, <1>4, <1>5, <1>6 DEF InUse
  <1>8. Stay
    BY <1>0, <1>1, <1>7 DEF Stay, Objects
  <1>9. Appending(o, 0)
    BY <1>1, <1>7, <1>8 DEF Appending
  <1>10. Objects' /\ Papers' /\ Files'
    BY <1>0, <1>9, AppendingKeeps
  <1> QED
    BY <1>0, <1>1, <1>8, <1>10, HandlersWait DEF Others

LEMMA AgentDiesKeeps ==
  ASSUME Inv, AgentDies
  PROVE  Inv'
  <1>0. /\ Objects /\ Papers /\ Files /\ Others /\ sess \in [1..Len(sess) -> Obj]
        /\ DOMAIN sess = 1..Len(sess)
    BY LenProperties DEF Inv, Objects
  <1>1. /\ fanout' \subseteq 1..Len(sess)
        /\ UNCHANGED <<table, owned, doing, reaper, reg, files, cut, stray, deleted>>
    BY <1>0 DEF AgentDies, counters
  <1>2. ASSUME NEW o \in 1..Len(sess)
        PROVE  /\ sess'[o] \in Obj /\ sess'[o].id = sess[o].id /\ sess'[o].turns = sess[o].turns
               /\ sess'[o].fh = sess[o].fh /\ (InUse(o)' => InUse(o))
    <2>1. PICK s \in Obj : s = [sess[o] EXCEPT !.up = FALSE]
      BY <1>0, Updates
    <2>2. sess'[o] = s
      BY <1>0, <2>1 DEF AgentDies
    <2>3. /\ s.id = sess[o].id /\ s.turns = sess[o].turns /\ s.fh = sess[o].fh
          /\ s.own = sess[o].own /\ s.parked = sess[o].parked
      BY <1>0, <2>1 DEF Obj
    <2> QED
      BY <2>2, <2>3 DEF InUse
  <1>3. sess' \in [1..Len(sess) -> Obj]
    BY <1>0, <1>2 DEF AgentDies
  <1>4. Quiet
    BY <1>0, <1>1, <1>2, <1>3 DEF Quiet, Stay, Objects
  <1>5. Stay /\ Objects' /\ Papers' /\ Files'
    BY <1>0, <1>4, QuietKeeps DEF Quiet
  <1> QED
    BY <1>0, <1>1, <1>5, HandlersWait DEF Others

(* A daemon that starts has no sessions, and what is on disk.              *)
LEMMA ForgetsKeeps ==
  ASSUME Inv, Forgets, Papers',
         \A i \in Ids \ stray' : Counted(i)' /\ Behind(i)' /\ (i \in deleted' => Erased(i)')
  PROVE  Inv'
  <1>1. /\ sess' = <<>> /\ table' = [i \in Ids |-> 0] /\ owned' = [h \in Handlers |-> {}]
        /\ doing' = [h \in Handlers |-> Rest] /\ reaper' = Asleep /\ fanout' = {}
    BY DEF Forgets
  <1>2. sess' \in Seq(Obj) /\ Len(sess') = 0 /\ 1..Len(sess') = {}
    BY <1>1, EmptySeq
  <1>3. \A i \in Ids : ~Known(i)'
    BY <1>1 DEF Known
  <1>4. Objects'
    BY <1>1, <1>2, <1>3, BoundsAssumption DEF Objects
  <1>5. Suspensions' /\ Others'
    BY <1>1, <1>2 DEF Suspensions, Others, Idle, Asleep
  <1>6. \A i \in Ids : LastHasIt(i)' /\ OnFile(i)' /\ LastIsCurrent(i)' /\ Registered(i)'
    BY <1>2, <1>3 DEF LastHasIt, OnFile, LastIsCurrent, Registered
  <1>7. Files'
    BY <1>6 DEF Files, FilesOf, Ordered
  <1> QED
    BY <1>4, <1>5, <1>7 DEF Inv

LEMMA DiesKeeps ==
  ASSUME Inv, Dies
  PROVE  Inv'
  <1>1. UNCHANGED <<log, side, disk, cut, stray, deleted>> /\ reg' = disk /\ Forgets
    BY DEF Dies, Forgets, files
  <1>2. Papers'
    BY <1>1 DEF Inv, Papers
  <1>3. \A i \in Ids \ stray' : Counted(i)' /\ Behind(i)' /\ (i \in deleted' => Erased(i)')
    BY <1>1 DEF Inv, Files, FilesOf, Ordered, Counted, Behind, Erased, LoggedTurns, CountedTurns
  <1> QED
    BY <1>1, <1>2, <1>3, ForgetsKeeps

LEMMA DiesCountingKeeps ==
  ASSUME Inv, NEW o \in 1..Len(sess), DiesCounting(o)
  PROVE  Inv'
  <1>0. Objects /\ Papers /\ Files
    BY DEF Inv
  <1>1. PICK i \in Ids : i = sess[o].id
    BY <1>0, ObjectFacts
  <1>2. /\ Counts(o) /\ log' = Written(o, 1) /\ cut' = [cut EXCEPT ![i] = @ + 1]
        /\ UNCHANGED <<side, disk, deleted>> /\ reg' = disk /\ Forgets /\ sess[o].fh = "file"
        /\ stray \subseteq stray' /\ stray' \subseteq stray \cup {i}
        /\ i \notin stray' => Newer(o) = {}
    BY <1>1 DEF DiesCounting, Forgets, Marked, Strays
  <1>3. /\ log' \in [Ids -> {Absent} \cup 0..MaxTurns]
        /\ \A j \in Ids \ {i} : log'[j] = log[j]
        /\ LoggedTurns(i)' = LoggedTurns(i) + 1
    BY <1>0, <1>1, <1>2, WrittenFacts
  <1>4. Papers'
    BY <1>0, <1>1, <1>2, <1>3 DEF Papers
  <1>5. \A j \in Ids : CountedTurns(j)' = CountedTurns(j)
    BY <1>2 DEF CountedTurns
  <1>6. ASSUME NEW j \in Ids \ stray'
        PROVE  Counted(j)' /\ Behind(j)' /\ (j \in deleted' => Erased(j)')
    <2>1. Ordered(j)
      BY <1>0, <1>2 DEF Files, FilesOf
    <2>2. CASE j = i
      <3>1. j \notin deleted
        BY <2>1, <2>2, <1>1, <1>2 DEF Ordered, LastIsCurrent
      <3>2. Counted(j)'
        <4>1. LoggedTurns(i) \in 0..MaxTurns /\ CountedTurns(i) \in 0..MaxTurns /\ cut[i] \in Nat
          BY <1>0, PaperFacts
        <4>2. cut'[i] = cut[i] + 1
          BY <1>0, <1>2 DEF Papers
        <4> QED
          BY <2>1, <2>2, <4>1, <4>2, <1>3, <1>5, BoundsAssumption DEF Ordered, Counted
      <3> QED
        BY <2>1, <3>1, <3>2, <1>2, <1>5 DEF Ordered, Behind
    <2>3. CASE j # i
      <3>1. log'[j] = log[j] /\ cut'[j] = cut[j]
        BY <2>3, <1>0, <1>2, <1>3 DEF Papers
      <3>2. LoggedTurns(j)' = LoggedTurns(j)
        BY <3>1 DEF LoggedTurns
      <3> QED
        BY <2>1, <3>1, <3>2, <1>2, <1>5 DEF Ordered, Counted, Behind, Erased
    <2> QED
      BY <2>2, <2>3
  <1> QED
    BY <1>2, <1>4, <1>6, ForgetsKeeps

LEMMA DiesDeletingKeeps ==
  ASSUME Inv, NEW h \in Handlers, DiesDeleting(h)
  PROVE  Inv'
  <1>0. Objects /\ Papers /\ Files
    BY DEF Inv
  <1>1. PICK i \in Ids : i = doing[h].id
    BY SuspendedObject DEF DiesDeleting
  <1>2. /\ log' = [log EXCEPT ![i] = Absent] /\ side' \in {side, [side EXCEPT ![i] = Absent]}
        /\ UNCHANGED <<disk, cut, deleted>> /\ reg' = disk /\ Forgets /\ stray' = stray \cup {i}
    BY <1>1 DEF DiesDeleting, Forgets
  <1>3. Papers'
    BY <1>0, <1>1, <1>2 DEF Papers
  <1>4. ASSUME NEW j \in Ids \ stray'
        PROVE  Counted(j)' /\ Behind(j)' /\ (j \in deleted' => Erased(j)')
    <2>1. Ordered(j) /\ log'[j] = log[j] /\ side'[j] = side[j]
      BY <1>0, <1>2 DEF Files, FilesOf, Papers
    <2>2. LoggedTurns(j)' = LoggedTurns(j) /\ CountedTurns(j)' = CountedTurns(j)
      BY <2>1 DEF LoggedTurns, CountedTurns
    <2> QED
      BY <2>1, <2>2, <1>2 DEF Ordered, Counted, Behind, Erased
  <1> QED
    BY <1>2, <1>3, <1>4, ForgetsKeeps

(***************************************************************************)
(* The invariant holds                                                     *)
(***************************************************************************)
LEMMA InitInv == Init => Inv
  <1> SUFFICES ASSUME Init PROVE Inv
    OBVIOUS
  <1>1. sess \in Seq(Obj) /\ Len(sess) = 0 /\ 1..Len(sess) = {}
    BY EmptySeq DEF Init
  <1>2. \A i \in Ids : ~Known(i)
    BY DEF Init, Known
  <1>3. Objects
    BY <1>1, <1>2, BoundsAssumption DEF Objects, Init
  <1>4. Suspensions /\ Others
    BY <1>1 DEF Suspensions, Others, Idle, Asleep, Init
  <1>5. Papers
    BY DEF Papers, Init
  <1>6. \A i \in Ids : FilesOf(i)
    BY <1>1, <1>2 DEF Init, FilesOf, Ordered, LastHasIt, OnFile, LastIsCurrent, Registered,
                      Counted, Behind, LoggedTurns, CountedTurns
  <1> QED
    BY <1>3, <1>4, <1>5, <1>6 DEF Inv, Files

LEMMA NextInv == Inv /\ [Next]_vars => Inv'
  <1> SUFFICES ASSUME Inv, [Next]_vars PROVE Inv'
    OBVIOUS
  <1>0. DOMAIN sess = 1..Len(sess)
    BY LenProperties DEF Inv, Objects
  <1>1. CASE \E h \in Handlers, i \in Ids, resume \in BOOLEAN : OpenCold(h, i, resume)
    BY <1>1, OpenColdKeeps
  <1>2. CASE \E h \in Handlers, i \in Ids : OpenRefused(h, i)
    BY <1>2, OpenRefusedKeeps
  <1>3. CASE \E h \in Handlers, i \in Ids : OpenLive(h, i)
    BY <1>3, OpenLiveKeeps
  <1>4. CASE \E h \in Handlers, i \in Ids : TakeOver(h, i)
    BY <1>4, TakeOverKeeps
  <1>5. CASE \E h \in Handlers : Told(h)
    BY <1>5, ToldKeeps
  <1>6. CASE \E h \in Handlers, i \in Ids : Respawn(h, i)
    BY <1>6, RespawnKeeps
  <1>7. CASE \E h \in Handlers : SpawnedNew(h) \/ SpawnedLoaded(h) \/ SpawnedViewOnly(h)
    BY <1>7, SpawnedKeeps
  <1>8. CASE \E h \in Handlers : SpawnFails(h)
    BY <1>8, SpawnFailsKeeps
  <1>9. CASE \E h \in Handlers, i \in Ids, delete \in BOOLEAN : Close(h, i, delete)
    BY <1>9, CloseKeeps
  <1>10. CASE \E h \in Handlers, i \in Ids, delete \in BOOLEAN : CloseUnknown(h, i, delete)
    BY <1>10, CloseUnknownKeeps
  <1>11. CASE \E h \in Handlers : Removed(h)
    BY <1>11, RemovedKeeps
  <1>12. CASE \E h \in Handlers, i \in Ids : Detach(h, i)
    BY <1>12, DetachKeeps
  <1>13. CASE \E h \in Handlers : Leave(h)
    BY <1>13, LeaveKeeps
  <1>14. CASE Reap \/ Reaped
    BY <1>14, ReapsKeep
  <1>15. CASE Touch
    BY <1>15, TouchKeeps
  <1>16. CASE \E o \in DOMAIN sess : TurnEnds(o) \/ CancelledTurnEnds(o)
    BY <1>0, <1>16, ResultsKeep DEF TurnEnds, CancelledTurnEnds
  <1>17. CASE AgentDies
    BY <1>17, AgentDiesKeeps
  <1>18. CASE \E o \in DOMAIN sess : Tell(o)
    BY <1>0, <1>18, TellKeeps
  <1>19. CASE Dies
    BY <1>19, DiesKeeps
  <1>20. CASE \E o \in DOMAIN sess : DiesCounting(o)
    BY <1>0, <1>20, DiesCountingKeeps
  <1>21. CASE \E h \in Handlers : DiesDeleting(h)
    BY <1>21, DiesDeletingKeeps
  <1>22. CASE UNCHANGED vars
    <2>1. Quiet /\ UNCHANGED <<owned, doing, reaper, fanout>>
      BY <1>22, SameQuiet DEF vars, memory, files, counters, Inv
    <2>2. Stay /\ Objects' /\ Papers' /\ Files'
      BY <2>1, QuietKeeps DEF Quiet, Inv
    <2> QED
      BY <2>1, <2>2, HandlersWait DEF Inv, Others
  <1> QED
    BY <1>1, <1>2, <1>3, <1>4, <1>5, <1>6, <1>7, <1>8, <1>9, <1>10, <1>11, <1>12, <1>13, <1>14,
       <1>15, <1>16, <1>17, <1>18, <1>19, <1>20, <1>21, <1>22 DEF Next

LEMMA InvHolds == Spec => []Inv
  BY InitInv, NextInv, PTL DEF Spec

(***************************************************************************)
(* What a restart finds, and what a delete leaves                          *)
(***************************************************************************)
(* The objects, the table, the handlers, the files and the registry keep   *)
(* their types, across deaths of the daemon (session.py, registry.py): the *)
(* table has of each id an object that was made of it.                     *)
THEOREM TypeCorrect == Spec => []TypeOK
  <1>1. Inv => TypeOK
    <2> SUFFICES ASSUME Inv PROVE TypeOK
      OBVIOUS
    <2>1. Objects /\ Suspensions /\ Others /\ Papers /\ DOMAIN sess = 1..Len(sess)
      BY LenProperties DEF Inv, Objects
    <2>2. \A h \in Handlers :
            Idle(h) \/ doing[h] \in [op : {"open", "prompt", "close"}, at : {"taken", "spawn", "closing"},
                                     id : Ids, object : DOMAIN sess, load : Natives \cup {NoNative},
                                     delete : BOOLEAN]
      BY <2>1 DEF Suspensions, Suspended, Idle
    <2>3. \A i \in Ids : /\ log[i] = Absent \/ log[i] \in 0..MaxTurns
                         /\ \A kept \in {side[i], reg[i], disk[i]} : kept = Absent \/ kept \in Kept
      BY <2>1 DEF Papers
    <2>4. /\ sess \in Seq([id : Ids, own : Handlers \cup {Nobody}, parked : BOOLEAN, up : BOOLEAN,
                           late : BOOLEAN, fh : {"file", "gone", "none"}, turns : 0..MaxTurns,
                           native : Natives \cup {NoNative}])
          /\ Len(sess) <= MaxObjects
      BY <2>1 DEF Objects, Obj
    <2> QED
      BY <2>1, <2>2, <2>3, <2>4 DEF TypeOK, Objects, Others, Papers
  <1> QED
    BY <1>1, InvHolds, PTL

(* The turn counter of a session counts the results in its log, however it *)
(* was closed, reaped, taken over, resumed and restarted, and however many *)
(* objects it had, as long as none wrote that had left the table           *)
(* (session.py:166-176, 586-590).                                          *)
THEOREM CounterAndLogAgree == Spec => []FilesAgree
  <1>1. Inv => FilesAgree
    BY LiveIsCurrent DEF Inv, Files, FilesOf, Ordered, Counted, FilesAgree
  <1> QED
    BY <1>1, InvHolds, PTL

(* A deleted session has nothing on disk until it is opened again, and a   *)
(* restart does not list it: no handler, reaper, or late turn that is      *)
(* still at it brings anything back (daemon.py:714-717).                   *)
THEOREM DeletesHold == Spec => []DeletedIsGone
  <1>1. Inv => DeletedIsGone
    BY DEF Inv, Papers, Files, FilesOf, Ordered, Erased, DeletedIsGone
  <1> QED
    BY <1>1, InvHolds, PTL

(* A session somebody has opened is on disk, for a restart to list, also   *)
(* when deletes and failing opens of its id overlap (daemon.py:497-508).   *)
THEOREM OpenedAreListed == Spec => []LiveIsRegistered
  <1>1. Inv => LiveIsRegistered
    BY DEF Inv, Files, FilesOf, Ordered, Registered, InUse, TheSession, LiveIsRegistered
  <1> QED
    BY <1>1, InvHolds, PTL

(* The registry never has more turns of a session than its sidecar         *)
(* (daemon.py:1245-1247).                                                  *)
THEOREM RegistryFollows == Spec => []RegistryIsBehind
  <1>1. Inv => RegistryIsBehind
    BY DEF Inv, Files, FilesOf, Ordered, Behind, RegistryIsBehind
  <1> QED
    BY <1>1, InvHolds, PTL
=============================================================================
