------------------------ MODULE ExtensionWorkerProofs ------------------------
(***************************************************************************)
(* Proofs about ExtensionWorker, for any number of problems, rounds,       *)
(* submissions, rooms, sockets, messages and stops of the worker.  Three   *)
(* invariants that do not need each other: the worker's variables follow   *)
(* the storage, the chained writes of the touched problems are those of    *)
(* one message after the other, and submissions are forwarded once.        *)
(***************************************************************************)
EXTENDS ExtensionWorker, TLAPS

Stores == [user : BOOLEAN, room : Nat, endTime : BOOLEAN, next : BOOLEAN, pending : SUBSET Subs]
Workers == [up : BOOLEAN, ready : BOOLEAN, blind : BOOLEAN, room : Nat, user : BOOLEAN, socket : Nat]
Events == [user : BOOLEAN, userChanged : BOOLEAN, room : Nat, roomChanged : BOOLEAN]

MemoryTyped == local \in Stores /\ worker \in Workers /\ changes \in Seq(Events)

\* The worker has not read the storage yet, or could not.
Unread(w) == ~ w.ready \/ w.blind

\* The last event about the room tells of the room that is stored; without one the
\* worker knows it, unless it has not read anything.
RoomFollows ==
    /\ \A i \in 1 .. Len(changes) :
         changes[i].roomChanged /\ (\A j \in i + 1 .. Len(changes) : ~ changes[j].roomChanged)
           => changes[i].room = local.room
    /\ (\A i \in 1 .. Len(changes) : ~ changes[i].roomChanged) =>
         worker.room = local.room \/ (Unread(worker) /\ worker.room = 0)

\* The same for the user.
UserFollows ==
    /\ \A i \in 1 .. Len(changes) :
         changes[i].userChanged /\ (\A j \in i + 1 .. Len(changes) : ~ changes[j].userChanged)
           => changes[i].user = local.user
    /\ (\A i \in 1 .. Len(changes) : ~ changes[i].userChanged) =>
         worker.user = local.user \/ (Unread(worker) /\ worker.user = FALSE)

MemoryInv == MemoryTyped /\ RoomFollows /\ UserFollows

----------------------------------------------------------------------------
Keys == RoundKeys \cup {"none"}
Writes == [kind : {"mark", "reset"}, arg : Slugs \cup RoundKeys, at : {"read", "write"},
           seen : SUBSET Slugs, key : Keys]

TouchTyped ==
    /\ touched \subseteq Slugs /\ atomTouched \subseteq Slugs
    /\ round \in Keys /\ atomRound \in Keys
    /\ chain \in Seq(Writes) /\ stops \in Nat
    /\ failed \in [marks : SUBSET Slugs, reset : BOOLEAN]
    /\ \A i \in 1 .. Len(chain) :
         IF chain[i].kind = "mark" THEN chain[i].arg \in Slugs ELSE chain[i].arg \in RoundKeys

\* Only the head of the chain has read anything, and what it read is still there.
HeadIsCurrent ==
    \A i \in 1 .. Len(chain) : chain[i].at = "write" =>
      i = 1 /\ chain[i].seen = touched /\ chain[i].key = round

\* What a write makes of a list and its round.
NewList(t, list, key) == IF t.kind = "mark" THEN MarkedList(list, t.arg) ELSE ResetList(list, key, t.arg)
NewKey(t, key) == IF t.kind = "mark" THEN key ELSE t.arg

\* The same list, but for the problems whose touch was dropped.
Agree(list1, list2) == list1 \ failed.marks = list2 \ failed.marks

\* lists and keys are the lists and rounds between the writes that are still to come.
Leads(lists, keys) ==
    /\ Agree(lists[1], touched) /\ keys[1] = round
    /\ Agree(lists[Len(chain) + 1], atomTouched) /\ keys[Len(chain) + 1] = atomRound
    /\ \A i \in 1 .. Len(chain) :
         /\ Agree(lists[i + 1], NewList(chain[i], lists[i], keys[i]))
         /\ keys[i + 1] = NewKey(chain[i], keys[i])

ChainLeads ==
    stops = 0 /\ ~ failed.reset =>
      \E lists \in [1 .. Len(chain) + 1 -> SUBSET Slugs], keys \in [1 .. Len(chain) + 1 -> Keys] :
        Leads(lists, keys)

TouchInv == TouchTyped /\ HeadIsCurrent /\ ChainLeads

----------------------------------------------------------------------------
Tasks == [kind : {"check", "logout", "pending", "result", "failed"}, sub : Subs \cup {0},
          at : {"fetch", "store", "remove", "finish", "read", "write"}, seen : SUBSET Subs]

SubmissionTyped ==
    /\ local \in Stores /\ tasks \subseteq Tasks /\ late \in BOOLEAN /\ raced \in BOOLEAN
    /\ forwarded \in [Subs -> Nat] /\ accepted \subseteq Subs /\ stops \in Nat
    /\ \A t \in AboutSubmissions : t.sub \in Subs

InTime == ~ (local.endTime /\ late)

\* One message about submissions at a time.
OneMessage == \A t, u \in AboutSubmissions : t = u

\* What a message has read is still stored.
SeenIsCurrent == \A t \in AboutSubmissions : t.at = "write" => t.seen = local.pending

\* An accepted submission is sent, or is about to be.
AcceptedGoes ==
    \A s \in accepted :
      \/ forwarded[s] = 1
      \/ \E t \in AboutSubmissions :
           t.kind = "result" /\ t.sub = s /\ t.at = "read" /\ s \in local.pending /\ InTime

\* A submission that is stored, or about to be, was not sent, or is about to go.
PendingIsUnsent ==
    /\ \A s \in local.pending :
         \/ forwarded[s] = 0
         \/ \E t \in AboutSubmissions : t.kind = "result" /\ t.sub = s /\ t.at = "write"
    /\ \A t \in AboutSubmissions : t.kind = "pending" => forwarded[t.sub] = 0

SubmissionInv ==
    /\ SubmissionTyped
    /\ ~ raced /\ stops = 0 => OneMessage /\ SeenIsCurrent /\ AcceptedGoes /\ PendingIsUnsent

----------------------------------------------------------------------------
(* The worker's variables and the storage.                                 *)

\* What the worker knows of room and user.
Knows(w) == <<w.ready, w.blind, w.room, w.user>>

\* connectWebSocket changes only the socket of what it is given.
LEMMA ConnectKeeps ==
  ASSUME NEW w \in Workers, NEW c, ConnectIf(c, w)
  PROVE  worker' \in Workers /\ Knows(worker') = Knows(w)
<1>1. CASE worker' = w
  BY <1>1 DEF Knows
<1>2. CASE \E i \in Sockets : worker' = [w EXCEPT !.socket = i]
  <2>1. PICK i \in Sockets : worker' = [w EXCEPT !.socket = i]
    BY <1>2
  <2>2. i \in Nat
    BY SocketsAssumption
  <2>. QED  BY <2>1, <2>2 DEF Workers, Knows
<1>. QED  BY <1>1, <1>2 DEF ConnectIf, Connect

LEMMA StoredTypes ==
  ASSUME NEW s \in Stores
  PROVE  s.user \in BOOLEAN /\ s.room \in Nat /\ s.endTime \in BOOLEAN /\ s.pending \in SUBSET Subs
BY DEF Stores

\* Nothing of it changes.
LEMMA MemorySame ==
  ASSUME MemoryInv, worker' \in Workers, Knows(worker') = Knows(worker), UNCHANGED <<local, changes>>
  PROVE  MemoryInv'
<1>1. /\ worker'.ready = worker.ready /\ worker'.blind = worker.blind
      /\ worker'.room = worker.room /\ worker'.user = worker.user
  BY DEF Knows
<1>. QED  BY <1>1 DEF MemoryInv, MemoryTyped, RoomFollows, UserFollows, Unread

\* storage.local is written: its listeners will be told of what has changed.
LEMMA MemoryStore ==
  ASSUME MemoryInv, NEW new \in Stores, Store(new), worker' \in Workers,
         worker'.ready = worker.ready, worker'.blind = worker.blind, worker'.user = worker.user,
         worker'.room = worker.room \/ (worker'.room = 0 /\ new.room = 0)
  PROVE  MemoryInv'
<1>0. local' = new /\ new.user \in BOOLEAN /\ new.room \in Nat /\ local.user \in BOOLEAN /\ local.room \in Nat
  BY StoredTypes DEF Store, MemoryInv, MemoryTyped
<1>1. CASE new.user = local.user /\ new.room = local.room
  <2>1. changes' = changes
    BY <1>1 DEF Store
  <2>. QED  BY <1>0, <1>1, <2>1 DEF MemoryInv, MemoryTyped, RoomFollows, UserFollows, Unread
<1>2. CASE new.user # local.user \/ new.room # local.room
  <2>1. PICK a \in BOOLEAN, b \in BOOLEAN :
          /\ a = (new.user # local.user) /\ b = (new.room # local.room)
    <3>1. (new.user # local.user) \in BOOLEAN /\ (new.room # local.room) \in BOOLEAN
      OBVIOUS
    <3>. QED  BY <3>1, Zenon
  <2>2. (a <=> new.user # local.user) /\ (b <=> new.room # local.room)
    BY <2>1, Zenon
  <2>3. PICK e \in Events : e = [user |-> new.user, userChanged |-> a, room |-> new.room, roomChanged |-> b]
    BY <1>0 DEF Events
  <2>4. changes' = Append(changes, e)
    BY <1>2, <2>1, <2>3 DEF Store
  <2>5. e.user = new.user /\ e.room = new.room /\ (e.userChanged <=> new.user # local.user)
          /\ (e.roomChanged <=> new.room # local.room)
    BY <2>2, <2>3
  <2>6. /\ changes \in Seq(Events) /\ changes' \in Seq(Events) /\ Len(changes) \in Nat
        /\ Len(changes') = Len(changes) + 1 /\ changes'[Len(changes) + 1] = e
        /\ \A i \in 1 .. Len(changes) : changes'[i] = changes[i]
    BY <2>4 DEF MemoryInv, MemoryTyped
  <2>7. RoomFollows'
    <3>1. ASSUME NEW i \in 1 .. Len(changes'), changes'[i].roomChanged,
                 \A j \in i + 1 .. Len(changes') : ~ changes'[j].roomChanged
          PROVE  changes'[i].room = local'.room
      <4>1. CASE i = Len(changes) + 1
        BY <1>0, <2>5, <2>6, <4>1
      <4>2. CASE i # Len(changes) + 1
        <5>1. i \in 1 .. Len(changes) /\ Len(changes) + 1 \in i + 1 .. Len(changes')
          BY <2>6, <4>2
        <5>2. new.room = local.room
          BY <2>5, <2>6, <3>1, <5>1
        <5>3. \A j \in i + 1 .. Len(changes) : j \in i + 1 .. Len(changes') /\ j \in 1 .. Len(changes)
          BY <2>6, <5>1
        <5>4. changes[i].roomChanged /\ \A j \in i + 1 .. Len(changes) : ~ changes[j].roomChanged
          BY <2>6, <3>1, <5>1, <5>3
        <5>. QED  BY <1>0, <2>6, <5>1, <5>2, <5>4 DEF MemoryInv, RoomFollows
      <4>. QED  BY <4>1, <4>2
    <3>2. ASSUME \A i \in 1 .. Len(changes') : ~ changes'[i].roomChanged
          PROVE  worker'.room = local'.room \/ (Unread(worker') /\ worker'.room = 0)
      <4>1. new.room = local.room
        BY <2>5, <2>6, <3>2
      <4>2. \A i \in 1 .. Len(changes) : ~ changes[i].roomChanged
        BY <2>6, <3>2
      <4>. QED  BY <1>0, <4>1, <4>2 DEF MemoryInv, RoomFollows, Unread
    <3>. QED  BY <3>1, <3>2 DEF RoomFollows
  <2>8. UserFollows'
    <3>1. ASSUME NEW i \in 1 .. Len(changes'), changes'[i].userChanged,
                 \A j \in i + 1 .. Len(changes') : ~ changes'[j].userChanged
          PROVE  changes'[i].user = local'.user
      <4>1. CASE i = Len(changes) + 1
        BY <1>0, <2>5, <2>6, <4>1
      <4>2. CASE i # Len(changes) + 1
        <5>1. i \in 1 .. Len(changes) /\ Len(changes) + 1 \in i + 1 .. Len(changes')
          BY <2>6, <4>2
        <5>2. new.user = local.user
          BY <2>5, <2>6, <3>1, <5>1
        <5>3. \A j \in i + 1 .. Len(changes) : j \in i + 1 .. Len(changes') /\ j \in 1 .. Len(changes)
          BY <2>6, <5>1
        <5>4. changes[i].userChanged /\ \A j \in i + 1 .. Len(changes) : ~ changes[j].userChanged
          BY <2>6, <3>1, <5>1, <5>3
        <5>. QED  BY <1>0, <2>6, <5>1, <5>2, <5>4 DEF MemoryInv, UserFollows
      <4>. QED  BY <4>1, <4>2
    <3>2. ASSUME \A i \in 1 .. Len(changes') : ~ changes'[i].userChanged
          PROVE  worker'.user = local'.user \/ (Unread(worker') /\ worker'.user = FALSE)
      <4>1. new.user = local.user
        BY <2>5, <2>6, <3>2
      <4>2. \A i \in 1 .. Len(changes) : ~ changes[i].userChanged
        BY <2>6, <3>2
      <4>. QED  BY <1>0, <4>1, <4>2 DEF MemoryInv, UserFollows, Unread
    <3>. QED  BY <3>1, <3>2 DEF UserFollows
  <2>. QED  BY <1>0, <2>6, <2>7, <2>8 DEF MemoryInv, MemoryTyped
<1>. QED  BY <1>1, <1>2

\* The worker starts or is stopped: it knows nothing.
LEMMA MemoryRestart ==
  ASSUME MemoryInv, worker' \in {Stopped, [Stopped EXCEPT !.up = TRUE]}, UNCHANGED <<local, changes>>
  PROVE  MemoryInv'
<1>1. worker' \in Workers /\ worker'.ready = FALSE /\ worker'.room = 0 /\ worker'.user = FALSE
  <2>1. CASE worker' = Stopped
    BY <2>1 DEF Stopped, Workers
  <2>2. CASE worker' = [Stopped EXCEPT !.up = TRUE]
    BY <2>2 DEF Stopped, Workers
  <2>. QED  BY <2>1, <2>2
<1>. QED  BY <1>1 DEF MemoryInv, MemoryTyped, RoomFollows, UserFollows, Unread

LEMMA MemoryRead == ASSUME MemoryInv, ReadConfig PROVE MemoryInv'
<1>. DEFINE room2 == IF local.room # 0 THEN local.room ELSE worker.room
            user2 == local.user \/ worker.user
<1>0. /\ ~ worker.ready /\ UNCHANGED <<local, changes>> /\ worker \in Workers
      /\ local.user \in BOOLEAN /\ local.room \in Nat /\ worker.user \in BOOLEAN /\ worker.room \in Nat
  BY StoredTypes DEF ReadConfig, MemoryInv, MemoryTyped, Workers
<1>1. room2 \in Nat /\ (room2 = 0 => local.room = 0 /\ worker.room = 0)
  BY <1>0
<1>2. user2 \in BOOLEAN /\ user2 = (local.user \/ worker.user)
  BY <1>0, Zenon
<1>3. (local.room = 0 => room2 = worker.room) /\ (local.room # 0 => room2 = local.room)
  OBVIOUS
<1>4. (local.user => user2 = TRUE) /\ (~ local.user => user2 = worker.user)
  BY <1>0, Zenon
<1>. HIDE DEF room2, user2
<1>5. PICK w \in Workers : w = [worker EXCEPT !.ready = TRUE, !.room = room2, !.user = user2]
  BY <1>0, <1>1, <1>2 DEF Workers
<1>6. w.ready = TRUE /\ w.room = room2 /\ w.user = user2
  BY <1>0, <1>5 DEF Workers
<1>7. ConnectIf(w.room # 0 /\ w.user, w) \/ worker' = [worker EXCEPT !.ready = TRUE, !.blind = TRUE]
  BY <1>0, <1>5 DEF ReadConfig, room2, user2
\* It is read.
<1>8. CASE ConnectIf(w.room # 0 /\ w.user, w)
  <2>1. worker' \in Workers /\ Knows(worker') = Knows(w)
    BY <1>8, ConnectKeeps
  <2>2. worker'.ready = TRUE /\ worker'.room = room2 /\ worker'.user = user2
    BY <1>6, <2>1 DEF Knows
  <2>3. RoomFollows'
    BY <1>0, <1>3, <2>2 DEF MemoryInv, RoomFollows
  <2>4. UserFollows'
    BY <1>0, <1>4, <2>2 DEF MemoryInv, UserFollows
  <2>. QED  BY <1>0, <2>1, <2>3, <2>4 DEF MemoryInv, MemoryTyped
\* The read fails: room and user are what storage events have told.
<1>9. CASE worker' = [worker EXCEPT !.ready = TRUE, !.blind = TRUE]
  <2>1. /\ worker' \in Workers /\ worker'.blind = TRUE
        /\ worker'.room = worker.room /\ worker'.user = worker.user
    BY <1>0, <1>9 DEF Workers
  <2>. QED  BY <1>0, <2>1 DEF MemoryInv, MemoryTyped, RoomFollows, UserFollows, Unread
<1>. QED  BY <1>7, <1>8, <1>9

LEMMA MemoryChanged == ASSUME MemoryInv, OnChanged PROVE MemoryInv'
<1>0. /\ changes # <<>> /\ changes' = Tail(changes) /\ UNCHANGED local /\ worker \in Workers
      /\ changes \in Seq(Events)
  BY DEF OnChanged, MemoryInv, MemoryTyped
<1>1. /\ Len(changes) \in Nat /\ Len(changes) > 0 /\ changes[1] \in Events /\ Head(changes) = changes[1]
      /\ changes' \in Seq(Events) /\ Len(changes') = Len(changes) - 1
      /\ \A i \in 1 .. Len(changes) - 1 : changes'[i] = changes[i + 1]
  BY <1>0
<1>2. PICK e \in Events : e = changes[1]
  BY <1>1
<1>3. /\ e.room \in Nat /\ e.user \in BOOLEAN /\ e.roomChanged \in BOOLEAN /\ e.userChanged \in BOOLEAN
      /\ worker.room \in Nat /\ worker.user \in BOOLEAN
  BY <1>0 DEF Events, Workers
<1>4. PICK room2 \in Nat : room2 = IF e.roomChanged THEN e.room ELSE worker.room
  BY <1>3
<1>5. PICK user2 \in BOOLEAN : user2 = IF e.userChanged THEN e.user ELSE worker.user
  BY <1>3
<1>6. PICK w \in Workers : w = [worker EXCEPT !.room = room2, !.user = user2]
  BY <1>0 DEF Workers
<1>7. w.ready = worker.ready /\ w.blind = worker.blind /\ w.room = room2 /\ w.user = user2
  BY <1>0, <1>6 DEF Workers
<1>8. ConnectIf(w.room # 0 /\ w.user, w)
  BY <1>0, <1>1, <1>2, <1>4, <1>5, <1>6 DEF OnChanged
<1>9. worker' \in Workers /\ Knows(worker') = Knows(w)
  BY <1>8, ConnectKeeps
<1>10. /\ worker'.ready = worker.ready /\ worker'.blind = worker.blind
       /\ worker'.room = room2 /\ worker'.user = user2
  BY <1>7, <1>9 DEF Knows
<1>11. \A j \in 2 .. Len(changes) : j - 1 \in 1 .. Len(changes) - 1 /\ changes'[j - 1] = changes[j]
  <2>. SUFFICES ASSUME NEW j \in 2 .. Len(changes)
                PROVE  j - 1 \in 1 .. Len(changes) - 1 /\ changes'[j - 1] = changes[j]
    OBVIOUS
  <2>1. j - 1 \in 1 .. Len(changes) - 1 /\ (j - 1) + 1 = j
    BY <1>1
  <2>. QED  BY <1>1, <2>1
<1>12. RoomFollows'
  <2>1. ASSUME NEW i \in 1 .. Len(changes'), changes'[i].roomChanged,
               \A j \in i + 1 .. Len(changes') : ~ changes'[j].roomChanged
        PROVE  changes'[i].room = local'.room
    <3>1. i + 1 \in 1 .. Len(changes) /\ changes[i + 1] = changes'[i]
      BY <1>1
    <3>2. \A j \in (i + 1) + 1 .. Len(changes) : ~ changes[j].roomChanged
      <4>. SUFFICES ASSUME NEW j \in (i + 1) + 1 .. Len(changes) PROVE ~ changes[j].roomChanged
        OBVIOUS
      <4>1. j - 1 \in i + 1 .. Len(changes') /\ j \in 2 .. Len(changes)
        BY <1>1
      <4>. QED  BY <1>11, <2>1, <4>1
    <3>. QED  BY <1>0, <2>1, <3>1, <3>2 DEF MemoryInv, RoomFollows
  <2>2. ASSUME \A i \in 1 .. Len(changes') : ~ changes'[i].roomChanged
        PROVE  worker'.room = local'.room \/ (Unread(worker') /\ worker'.room = 0)
    <3>1. \A j \in 2 .. Len(changes) : ~ changes[j].roomChanged
      BY <1>1, <1>11, <2>2
    <3>2. CASE e.roomChanged
      <4>1. 1 \in 1 .. Len(changes) /\ \A j \in 1 + 1 .. Len(changes) : ~ changes[j].roomChanged
        BY <1>1, <3>1
      <4>2. changes[1].room = local.room
        BY <1>2, <3>2, <4>1 DEF MemoryInv, RoomFollows
      <4>. QED  BY <1>0, <1>2, <1>4, <1>10, <3>2, <4>2
    <3>3. CASE ~ e.roomChanged
      <4>1. \A j \in 1 .. Len(changes) : ~ changes[j].roomChanged
        BY <1>1, <1>2, <3>1, <3>3
      <4>. QED  BY <1>0, <1>4, <1>10, <3>3, <4>1 DEF MemoryInv, RoomFollows, Unread
    <3>. QED  BY <3>2, <3>3
  <2>. QED  BY <2>1, <2>2 DEF RoomFollows
<1>13. UserFollows'
  <2>1. ASSUME NEW i \in 1 .. Len(changes'), changes'[i].userChanged,
               \A j \in i + 1 .. Len(changes') : ~ changes'[j].userChanged
        PROVE  changes'[i].user = local'.user
    <3>1. i + 1 \in 1 .. Len(changes) /\ changes[i + 1] = changes'[i]
      BY <1>1
    <3>2. \A j \in (i + 1) + 1 .. Len(changes) : ~ changes[j].userChanged
      <4>. SUFFICES ASSUME NEW j \in (i + 1) + 1 .. Len(changes) PROVE ~ changes[j].userChanged
        OBVIOUS
      <4>1. j - 1 \in i + 1 .. Len(changes') /\ j \in 2 .. Len(changes)
        BY <1>1
      <4>. QED  BY <1>11, <2>1, <4>1
    <3>. QED  BY <1>0, <2>1, <3>1, <3>2 DEF MemoryInv, UserFollows
  <2>2. ASSUME \A i \in 1 .. Len(changes') : ~ changes'[i].userChanged
        PROVE  worker'.user = local'.user \/ (Unread(worker') /\ worker'.user = FALSE)
    <3>1. \A j \in 2 .. Len(changes) : ~ changes[j].userChanged
      BY <1>1, <1>11, <2>2
    <3>2. CASE e.userChanged
      <4>1. 1 \in 1 .. Len(changes) /\ \A j \in 1 + 1 .. Len(changes) : ~ changes[j].userChanged
        BY <1>1, <3>1
      <4>2. changes[1].user = local.user
        BY <1>2, <3>2, <4>1 DEF MemoryInv, UserFollows
      <4>. QED  BY <1>0, <1>2, <1>5, <1>10, <3>2, <4>2
    <3>3. CASE ~ e.userChanged
      <4>1. \A j \in 1 .. Len(changes) : ~ changes[j].userChanged
        BY <1>1, <1>2, <3>1, <3>3
      <4>. QED  BY <1>0, <1>5, <1>10, <3>3, <4>1 DEF MemoryInv, UserFollows, Unread
    <3>. QED  BY <3>2, <3>3
  <2>. QED  BY <2>1, <2>2 DEF UserFollows
<1>. QED  BY <1>0, <1>1, <1>9, <1>12, <1>13 DEF MemoryInv, MemoryTyped

LEMMA MemoryStep ==
  ASSUME MemoryInv, (local \in Stores)', [Next]_vars
  PROVE  MemoryInv'
<1>0. worker \in Workers /\ local \in Stores
  BY DEF MemoryInv, MemoryTyped
<1>1. CASE UNCHANGED <<local, worker, changes>>
  BY <1>0, <1>1, MemorySame
\* The storage is written, and the worker's variables stay.
<1>2. ASSUME NEW new, Store(new), UNCHANGED worker PROVE MemoryInv'
  <2>1. new \in Stores
    BY <1>2 DEF Store
  <2>. QED  BY <1>0, <1>2, <2>1, MemoryStore
<1>3. CASE Start \/ Stop
  BY <1>3, MemoryRestart DEF Start, Stop
<1>4. CASE ReadConfig \/ OnChanged
  BY <1>4, MemoryRead, MemoryChanged
<1>5. CASE Reconnect
  <2>1. ConnectIf(worker.room # 0, worker) /\ UNCHANGED <<local, changes>>
    BY <1>5 DEF Reconnect
  <2>. QED  BY <1>0, <2>1, ConnectKeeps, MemorySame
<1>6. ASSUME NEW i \in Sockets, OnClose(i) PROVE MemoryInv'
  <2>1. worker' = [worker EXCEPT !.socket = 0] /\ UNCHANGED <<local, changes>>
    BY <1>6 DEF OnClose
  <2>2. worker' \in Workers /\ Knows(worker') = Knows(worker)
    BY <1>0, <2>1 DEF Workers, Knows
  <2>. QED  BY <2>1, <2>2, MemorySame
<1>7. ASSUME NEW t \in tasks, Logout(t) PROVE MemoryInv'
  <2>1. CASE UNCHANGED <<local, changes, worker>>
    BY <1>1, <2>1
  <2>2. CASE Store(NothingStored) /\ worker' = [worker EXCEPT !.room = 0, !.socket = 0]
    <3>1. /\ worker' \in Workers /\ worker'.ready = worker.ready /\ worker'.blind = worker.blind
          /\ worker'.user = worker.user /\ worker'.room = 0
      BY <1>0, <2>2 DEF Workers
    <3>2. NothingStored \in Stores /\ NothingStored.room = 0
      BY DEF NothingStored, Stores
    <3>. QED  BY <2>2, <3>1, <3>2, MemoryStore
  <2>. QED  BY <1>7, <2>1, <2>2 DEF Logout
<1>8. ASSUME NEW t \in tasks, CheckAuth(t) \/ StorePending(t) \/ Forward(t) PROVE MemoryInv'
  BY <1>1, <1>2, <1>8 DEF CheckAuth, StorePending, Forward
<1>9. CASE Callback
  <2>1. ASSUME NEW i \in Sockets, OnOpen(i) PROVE MemoryInv'
    BY <1>1, <2>1 DEF OnOpen
  <2>2. CASE Chain
    BY <1>1, <2>2 DEF Chain
  <2>. QED  BY <1>4, <1>5, <1>6, <1>7, <1>8, <1>9, <2>1, <2>2 DEF Callback
<1>10. ASSUME NEW i \in Sockets, NEW type \in {"next-problem", "room-expired"}, OnMessage(i, type)
       PROVE  MemoryInv'
  BY <1>2, <1>10 DEF OnMessage
<1>11. ASSUME NEW r \in Rooms \cup {0}, PanelRoom(r) PROVE MemoryInv'
  BY <1>2, <1>11 DEF PanelRoom
<1>12. ASSUME NEW k \in RoundKeys, PanelRound(k) PROVE MemoryInv'
  BY <1>2, <1>12 DEF PanelRound
<1>13. ASSUME \/ \E i \in Sockets : Lose(i)
              \/ LogIn \/ TimeUp \/ LoadPage
              \/ \E kind \in {"check", "logout"} : Ask(kind)
              \/ \E slug \in Slugs : TypeCode(slug)
              \/ \E s \in Subs : Submit(s)
              \/ \E s \in Subs, kind \in {"result", "failed"} : Result(s, kind)
              \/ UNCHANGED vars
       PROVE  MemoryInv'
  BY <1>1, <1>13 DEF Lose, LogIn, TimeUp, LoadPage, Ask, TypeCode, Submit, Result, vars
<1>. QED  BY <1>3, <1>9, <1>10, <1>11, <1>12, <1>13 DEF Next

----------------------------------------------------------------------------
(* The touched problems.                                                   *)

\* A write keeps two lists alike.
LEMMA AgreeNew ==
  ASSUME NEW t, NEW list1, NEW list2, NEW key, Agree(list1, list2)
  PROVE  Agree(NewList(t, list2, key), NewList(t, list1, key))
BY DEF Agree, NewList, MarkedList, ResetList

\* A write is put at the end of the chain.
LEMMA TouchAppend ==
  ASSUME TouchInv, NEW t \in Writes, t.at = "read",
         IF t.kind = "mark" THEN t.arg \in Slugs ELSE t.arg \in RoundKeys,
         chain' = Append(chain, t), UNCHANGED <<touched, round, failed, stops>>,
         atomTouched' = NewList(t, atomTouched, atomRound), atomRound' = NewKey(t, atomRound)
  PROVE  TouchInv'
<1>0. /\ chain \in Seq(Writes) /\ Len(chain) \in Nat /\ chain' \in Seq(Writes) /\ Len(chain') = Len(chain) + 1
      /\ chain'[Len(chain) + 1] = t /\ \A i \in 1 .. Len(chain) : chain'[i] = chain[i]
  BY DEF TouchInv, TouchTyped
<1>1. atomTouched' \subseteq Slugs /\ atomRound' \in Keys
  BY DEF TouchInv, TouchTyped, NewList, NewKey, MarkedList, ResetList, Keys, Writes
<1>2. TouchTyped'
  BY <1>0, <1>1 DEF TouchInv, TouchTyped
<1>3. HeadIsCurrent'
  BY <1>0 DEF TouchInv, HeadIsCurrent
<1>4. ASSUME stops = 0, ~ failed.reset
      PROVE  \E lists \in [1 .. Len(chain') + 1 -> SUBSET Slugs], keys \in [1 .. Len(chain') + 1 -> Keys] :
               Leads(lists, keys)'
  <2>1. PICK lists \in [1 .. Len(chain) + 1 -> SUBSET Slugs], keys \in [1 .. Len(chain) + 1 -> Keys] :
               Leads(lists, keys)
    BY <1>4 DEF TouchInv, ChainLeads
  <2>. DEFINE n == Len(chain) + 1
              ls == [i \in 1 .. n + 1 |-> IF i = n + 1 THEN atomTouched' ELSE lists[i]]
              ks == [i \in 1 .. n + 1 |-> IF i = n + 1 THEN atomRound' ELSE keys[i]]
  <2>2. n \in Nat /\ n >= 1 /\ Len(chain') = n
    BY <1>0
  <2>3. ls \in [1 .. Len(chain') + 1 -> SUBSET Slugs] /\ ks \in [1 .. Len(chain') + 1 -> Keys]
    BY <1>1, <2>2
  <2>4. /\ ls[n + 1] = atomTouched' /\ ks[n + 1] = atomRound'
        /\ \A i \in 1 .. n : ls[i] = lists[i] /\ ks[i] = keys[i]
    BY <2>2
  <2>5. PICK l \in [1 .. Len(chain') + 1 -> SUBSET Slugs], k \in [1 .. Len(chain') + 1 -> Keys] : l = ls /\ k = ks
    BY <2>3
  <2>6. Agree(l[1], touched)' /\ k[1] = round'
    BY <2>1, <2>2, <2>4, <2>5 DEF Leads, Agree
  <2>7. \A i \in 1 .. Len(chain) : Agree(l[i + 1], NewList(chain'[i], l[i], k[i])) /\ k[i + 1] = NewKey(chain'[i], k[i])
    <3>. SUFFICES ASSUME NEW i \in 1 .. Len(chain)
                  PROVE  Agree(l[i + 1], NewList(chain'[i], l[i], k[i])) /\ k[i + 1] = NewKey(chain'[i], k[i])
      OBVIOUS
    <3>1. i \in 1 .. n /\ i + 1 \in 1 .. n
      BY <1>0
    <3>2. l[i] = lists[i] /\ l[i + 1] = lists[i + 1] /\ k[i] = keys[i] /\ k[i + 1] = keys[i + 1]
      BY <2>4, <2>5, <3>1
    <3>. QED  BY <1>0, <2>1, <3>2 DEF Leads
  <2>8. Agree(l[n + 1], NewList(chain'[n], l[n], k[n])) /\ k[n + 1] = NewKey(chain'[n], k[n])
    <3>1. Agree(l[n], atomTouched) /\ k[n] = atomRound
      BY <2>1, <2>2, <2>4, <2>5 DEF Leads
    <3>2. l[n + 1] = NewList(t, atomTouched, atomRound) /\ k[n + 1] = NewKey(t, atomRound) /\ chain'[n] = t
      BY <1>0, <2>4, <2>5
    <3>3. Agree(NewList(t, atomTouched, atomRound), NewList(t, l[n], atomRound))
      BY <3>1, AgreeNew
    <3>. QED  BY <3>1, <3>2, <3>3
  <2>9. \A i \in 1 .. Len(chain') : Agree(l[i + 1], NewList(chain'[i], l[i], k[i])) /\ k[i + 1] = NewKey(chain'[i], k[i])
    <3>. SUFFICES ASSUME NEW i \in 1 .. Len(chain')
                  PROVE  Agree(l[i + 1], NewList(chain'[i], l[i], k[i])) /\ k[i + 1] = NewKey(chain'[i], k[i])
      OBVIOUS
    <3>1. i \in 1 .. Len(chain) \/ i = n
      BY <1>0
    <3>. QED  BY <2>7, <2>8, <3>1
  <2>10. l[Len(chain') + 1] = atomTouched' /\ k[Len(chain') + 1] = atomRound'
    BY <2>2, <2>4, <2>5
  <2>11. Leads(l, k)'
    BY <2>6, <2>9, <2>10 DEF Leads, Agree
  <2>. QED  BY <2>11
<1>. QED  BY <1>2, <1>3, <1>4 DEF TouchInv, ChainLeads

\* The head of the chain reads.
LEMMA TouchRead ==
  ASSUME TouchInv, chain # <<>>,
         chain' = [chain EXCEPT ![1] = [Head(chain) EXCEPT !.at = "write", !.seen = touched, !.key = round]],
         UNCHANGED <<touched, round, failed, stops, atomTouched, atomRound>>
  PROVE  TouchInv'
<1>0. /\ chain \in Seq(Writes) /\ Len(chain) \in Nat /\ 1 \in 1 .. Len(chain) /\ Head(chain) = chain[1]
      /\ chain[1] \in Writes /\ touched \in SUBSET Slugs /\ round \in Keys
  BY DEF TouchInv, TouchTyped
<1>1. PICK t \in Writes : t = [chain[1] EXCEPT !.at = "write", !.seen = touched, !.key = round]
  BY <1>0 DEF Writes
<1>2. t.kind = chain[1].kind /\ t.arg = chain[1].arg /\ t.seen = touched /\ t.key = round
  BY <1>0, <1>1 DEF Writes
<1>3. /\ chain' \in Seq(Writes) /\ Len(chain') = Len(chain) /\ chain'[1] = t
      /\ \A i \in 1 .. Len(chain) : i # 1 => chain'[i] = chain[i]
  <2>1. chain' = [chain EXCEPT ![1] = t]
    BY <1>0, <1>1
  <2>2. chain' \in Seq(Writes) /\ Len(chain') = Len(chain)
    BY <1>0, <2>1
  <2>. QED  BY <1>0, <2>1, <2>2
<1>4. \A i \in 1 .. Len(chain) : chain'[i].kind = chain[i].kind /\ chain'[i].arg = chain[i].arg
  BY <1>2, <1>3
<1>5. TouchTyped'
  BY <1>3, <1>4 DEF TouchInv, TouchTyped
<1>6. HeadIsCurrent'
  BY <1>2, <1>3 DEF TouchInv, HeadIsCurrent
<1>7. ChainLeads'
  <2>. SUFFICES ASSUME stops = 0, ~ failed.reset
                PROVE  \E lists \in [1 .. Len(chain) + 1 -> SUBSET Slugs], keys \in [1 .. Len(chain) + 1 -> Keys] :
                         Leads(lists, keys)'
    BY <1>3 DEF ChainLeads
  <2>1. PICK lists \in [1 .. Len(chain) + 1 -> SUBSET Slugs], keys \in [1 .. Len(chain) + 1 -> Keys] :
               Leads(lists, keys)
    BY DEF TouchInv, ChainLeads
  <2>2. Leads(lists, keys)'
    BY <1>3, <1>4, <2>1 DEF Leads, Agree, NewList, NewKey
  <2>. QED  BY <2>2
<1>. QED  BY <1>5, <1>6, <1>7 DEF TouchInv

\* The head of the chain is done: it has written what it makes of what it read, or it is a
\* mark that was dropped.
LEMMA TouchNext ==
  ASSUME TouchInv, chain # <<>>, chain' = Tail(chain), touched' \subseteq Slugs, round' \in Keys,
         (failed \in [marks : SUBSET Slugs, reset : BOOLEAN])',
         failed.marks \subseteq failed'.marks, failed'.reset = failed.reset,
         NewList(Head(chain), touched, round) \ failed'.marks = touched' \ failed'.marks,
         round' = NewKey(Head(chain), round),
         UNCHANGED <<stops, atomTouched, atomRound>>
  PROVE  TouchInv'
<1>0. /\ chain \in Seq(Writes) /\ Len(chain) \in Nat /\ 1 \in 1 .. Len(chain) /\ Head(chain) = chain[1]
      /\ chain' \in Seq(Writes) /\ Len(chain') = Len(chain) - 1
      /\ \A i \in 1 .. Len(chain) - 1 : chain'[i] = chain[i + 1] /\ i + 1 \in 1 .. Len(chain)
  BY DEF TouchInv, TouchTyped
<1>1. TouchTyped'
  BY <1>0 DEF TouchInv, TouchTyped
<1>2. HeadIsCurrent'
  BY <1>0 DEF TouchInv, HeadIsCurrent
<1>3. \A list1, list2 : Agree(list1, list2) => list1 \ failed'.marks = list2 \ failed'.marks
  BY DEF Agree
<1>4. ChainLeads'
  <2>. SUFFICES ASSUME stops = 0, ~ failed.reset
                PROVE  \E lists \in [1 .. Len(chain') + 1 -> SUBSET Slugs], keys \in [1 .. Len(chain') + 1 -> Keys] :
                         Leads(lists, keys)'
    BY DEF ChainLeads
  <2>1. PICK lists \in [1 .. Len(chain) + 1 -> SUBSET Slugs], keys \in [1 .. Len(chain) + 1 -> Keys] :
               Leads(lists, keys)
    BY DEF TouchInv, ChainLeads
  <2>. DEFINE ls == [i \in 1 .. Len(chain') + 1 |-> lists[i + 1]]
              ks == [i \in 1 .. Len(chain') + 1 |-> keys[i + 1]]
  <2>2. \A i \in 1 .. Len(chain') + 1 : i + 1 \in 1 .. Len(chain) + 1
    BY <1>0
  <2>3. ls \in [1 .. Len(chain') + 1 -> SUBSET Slugs] /\ ks \in [1 .. Len(chain') + 1 -> Keys]
    BY <2>2
  <2>4. PICK l \in [1 .. Len(chain') + 1 -> SUBSET Slugs], k \in [1 .. Len(chain') + 1 -> Keys] : l = ls /\ k = ks
    BY <2>3
  <2>5. \A i \in 1 .. Len(chain') + 1 : l[i] = lists[i + 1] /\ k[i] = keys[i + 1]
    BY <2>4
  <2>6. l[1] \ failed'.marks = touched' \ failed'.marks /\ k[1] = round'
    <3>1. 1 \in 1 .. Len(chain') + 1 /\ l[1] = lists[2] /\ k[1] = keys[2]
      BY <1>0, <2>5
    <3>2. Agree(lists[2], NewList(chain[1], lists[1], keys[1])) /\ keys[2] = NewKey(chain[1], keys[1])
      BY <1>0, <2>1 DEF Leads
    <3>3. Agree(lists[1], touched) /\ keys[1] = round
      BY <2>1 DEF Leads
    <3>4. Agree(NewList(chain[1], touched, round), NewList(chain[1], lists[1], round))
      BY <3>3, AgreeNew
    <3>5. Agree(lists[2], NewList(Head(chain), touched, round))
      BY <1>0, <3>2, <3>3, <3>4 DEF Agree
    <3>. QED  BY <1>0, <1>3, <3>1, <3>2, <3>3, <3>5
  <2>7. l[Len(chain') + 1] \ failed'.marks = atomTouched' \ failed'.marks /\ k[Len(chain') + 1] = atomRound'
    <3>1. Len(chain') + 1 \in 1 .. Len(chain') + 1 /\ (Len(chain') + 1) + 1 = Len(chain) + 1
      BY <1>0
    <3>2. Agree(lists[Len(chain) + 1], atomTouched) /\ keys[Len(chain) + 1] = atomRound
      BY <2>1 DEF Leads
    <3>. QED  BY <1>3, <2>5, <3>1, <3>2
  <2>8. \A i \in 1 .. Len(chain') :
          /\ l[i + 1] \ failed'.marks = NewList(chain'[i], l[i], k[i]) \ failed'.marks
          /\ k[i + 1] = NewKey(chain'[i], k[i])
    <3>. SUFFICES ASSUME NEW i \in 1 .. Len(chain')
                  PROVE  /\ l[i + 1] \ failed'.marks = NewList(chain'[i], l[i], k[i]) \ failed'.marks
                         /\ k[i + 1] = NewKey(chain'[i], k[i])
      OBVIOUS
    <3>1. i \in 1 .. Len(chain') + 1 /\ i + 1 \in 1 .. Len(chain') + 1 /\ i + 1 \in 1 .. Len(chain)
      BY <1>0
    <3>2. l[i] = lists[i + 1] /\ l[i + 1] = lists[(i + 1) + 1] /\ k[i] = keys[i + 1] /\ k[i + 1] = keys[(i + 1) + 1]
      BY <2>5, <3>1
    <3>3. chain'[i] = chain[i + 1]
      BY <1>0
    <3>4. /\ Agree(lists[(i + 1) + 1], NewList(chain[i + 1], lists[i + 1], keys[i + 1]))
          /\ keys[(i + 1) + 1] = NewKey(chain[i + 1], keys[i + 1])
      BY <2>1, <3>1 DEF Leads
    <3>. QED  BY <1>3, <3>2, <3>3, <3>4
  <2>9. Leads(l, k)'
    BY <2>6, <2>7, <2>8 DEF Leads, Agree
  <2>. QED  BY <2>9
<1>. QED  BY <1>1, <1>2, <1>4 DEF TouchInv

\* A reset is dropped: nothing is claimed from then on.
LEMMA TouchDropped ==
  ASSUME TouchInv, chain # <<>>, chain' = Tail(chain), failed' = [failed EXCEPT !.reset = TRUE],
         UNCHANGED <<touched, round, stops, atomTouched, atomRound>>
  PROVE  TouchInv'
<1>0. /\ chain \in Seq(Writes) /\ Len(chain) \in Nat /\ Len(chain) > 0
      /\ chain' \in Seq(Writes) /\ Len(chain') = Len(chain) - 1
      /\ \A i \in 1 .. Len(chain) - 1 : chain'[i] = chain[i + 1] /\ i + 1 \in 1 .. Len(chain)
  BY DEF TouchInv, TouchTyped
<1>1. failed' \in [marks : SUBSET Slugs, reset : BOOLEAN] /\ failed'.reset = TRUE
  BY DEF TouchInv, TouchTyped
<1>2. TouchTyped'
  BY <1>0, <1>1 DEF TouchInv, TouchTyped
<1>3. HeadIsCurrent'
  BY <1>0 DEF TouchInv, HeadIsCurrent
<1>. QED  BY <1>1, <1>2, <1>3 DEF TouchInv, ChainLeads

LEMMA TouchSame ==
  ASSUME TouchInv, UNCHANGED <<touched, round, chain, failed, atomTouched, atomRound, stops>>
  PROVE  TouchInv'
BY DEF TouchInv, TouchTyped, HeadIsCurrent, ChainLeads, Leads, Agree

LEMMA TouchStep == ASSUME TouchInv, [Next]_vars PROVE TouchInv'
<1>1. CASE UNCHANGED <<touches, stops>>
  BY <1>1, TouchSame DEF touches
\* After a stop nothing is claimed.
<1>2. CASE Stop
  <2>1. chain' = <<>> /\ stops' = stops + 1 /\ UNCHANGED <<touched, round, failed, atomTouched, atomRound>>
    BY <1>2 DEF Stop
  <2>2. stops' \in Nat /\ stops' # 0
    BY <2>1 DEF TouchInv, TouchTyped
  <2>3. chain' \in Seq(Writes) /\ Len(chain') = 0
    BY <2>1
  <2>. QED  BY <2>1, <2>2, <2>3 DEF TouchInv, TouchTyped, HeadIsCurrent, ChainLeads
<1>3. ASSUME NEW slug \in Slugs, TypeCode(slug) PROVE TouchInv'
  <2>1. PICK t \in Writes : t = [kind |-> "mark", arg |-> slug, at |-> "read", seen |-> {}, key |-> "none"]
    BY DEF Writes, Keys
  <2>2. t.kind = "mark" /\ t.arg = slug /\ t.at = "read"
    BY <2>1
  <2>3. /\ chain' = Append(chain, t) /\ atomTouched' = MarkedList(atomTouched, slug)
        /\ UNCHANGED <<touched, round, failed, stops, atomRound>>
    BY <1>3, <2>1 DEF TypeCode
  <2>. QED  BY <2>2, <2>3, TouchAppend DEF NewList, NewKey
<1>4. ASSUME NEW k \in RoundKeys, PanelRound(k) PROVE TouchInv'
  <2>1. PICK t \in Writes : t = [kind |-> "reset", arg |-> k, at |-> "read", seen |-> {}, key |-> "none"]
    BY DEF Writes, Keys
  <2>2. t.kind = "reset" /\ t.arg = k /\ t.at = "read"
    BY <2>1
  <2>3. /\ chain' = Append(chain, t) /\ atomTouched' = ResetList(atomTouched, atomRound, k) /\ atomRound' = k
        /\ UNCHANGED <<touched, round, failed, stops>>
    BY <1>4, <2>1 DEF PanelRound
  <2>. QED  BY <2>2, <2>3, TouchAppend DEF NewList, NewKey
<1>5. CASE Chain
  <2>0. /\ chain # <<>> /\ UNCHANGED <<stops, atomTouched, atomRound>>
        /\ touched \subseteq Slugs /\ round \in Keys /\ failed \in [marks : SUBSET Slugs, reset : BOOLEAN]
    BY <1>5 DEF Chain, TouchInv, TouchTyped
  <2>1. PICK t : t = Head(chain)
    OBVIOUS
  <2>2. /\ t \in Writes /\ t = chain[1]
        /\ IF t.kind = "mark" THEN t.arg \in Slugs ELSE t.arg \in RoundKeys
    <3>1. chain \in Seq(Writes) /\ Head(chain) = chain[1] /\ 1 \in 1 .. Len(chain) /\ chain[1] \in Writes
      BY <2>0 DEF TouchInv, TouchTyped
    <3>. QED  BY <2>1, <3>1 DEF TouchInv, TouchTyped
  \* It reads.
  <2>3. CASE /\ t.at = "read" /\ UNCHANGED <<touched, round, failed>>
             /\ chain' = [chain EXCEPT ![1] = [t EXCEPT !.at = "write", !.seen = touched, !.key = round]]
    BY <2>0, <2>1, <2>3, TouchRead
  \* It writes what it makes of what it has read, which is still there.
  <2>4. CASE /\ t.at = "write" /\ chain' = Tail(chain) /\ UNCHANGED failed
             /\ IF t.kind = "mark" THEN touched' = MarkedList(t.seen, t.arg) /\ UNCHANGED round
                  ELSE IF t.key = t.arg THEN UNCHANGED <<touched, round>>
                  ELSE touched' = {} /\ round' = t.arg
    <3>1. t.seen = touched /\ t.key = round
      <4>1. chain \in Seq(Writes) /\ 1 \in 1 .. Len(chain)
        BY <2>0 DEF TouchInv, TouchTyped
      <4>. QED  BY <2>2, <2>4, <4>1 DEF TouchInv, HeadIsCurrent
    <3>2. touched' = NewList(t, touched, round) /\ round' = NewKey(t, round)
      BY <2>4, <3>1 DEF NewList, NewKey, ResetList
    <3>3. touched' \subseteq Slugs /\ round' \in Keys
      BY <2>0, <2>2, <3>2 DEF NewList, NewKey, MarkedList, ResetList, Keys
    <3>. QED  BY <2>0, <2>1, <2>4, <3>2, <3>3, TouchNext
  \* storage.session refuses the one or the other.
  <2>5. CASE /\ chain' = Tail(chain) /\ UNCHANGED <<touched, round>>
             /\ failed' = IF t.kind = "mark" THEN [failed EXCEPT !.marks = @ \cup {t.arg}]
                                             ELSE [failed EXCEPT !.reset = TRUE]
    <3>1. CASE t.kind = "mark"
      <4>1. PICK f \in [marks : SUBSET Slugs, reset : BOOLEAN] :
              f = [failed EXCEPT !.marks = failed.marks \cup {t.arg}]
        BY <2>0, <2>2, <3>1
      <4>2. f.marks = failed.marks \cup {t.arg} /\ f.reset = failed.reset /\ failed' = f
        BY <2>0, <2>5, <3>1, <4>1
      <4>3. NewList(t, touched, round) \ f.marks = touched \ f.marks /\ round = NewKey(t, round)
        BY <3>1, <4>2 DEF NewList, NewKey, MarkedList
      <4>. QED  BY <2>0, <2>1, <2>5, <4>2, <4>3, TouchNext
    <3>2. CASE t.kind # "mark"
      BY <2>0, <2>5, <3>2, TouchDropped
    <3>. QED  BY <3>1, <3>2
  <2>. QED  BY <1>5, <2>1, <2>3, <2>4, <2>5 DEF Chain
<1>6. CASE LoadPage
  BY <1>6, TouchSame DEF LoadPage
<1>7. CASE Callback
  <2>1. CASE ReadConfig \/ OnChanged \/ Reconnect
    BY <1>1, <2>1 DEF ReadConfig, OnChanged, Reconnect
  <2>2. ASSUME NEW i \in Sockets, OnOpen(i) \/ OnClose(i) PROVE TouchInv'
    BY <1>1, <2>2 DEF OnOpen, OnClose
  <2>3. ASSUME NEW t \in tasks, CheckAuth(t) \/ Logout(t) \/ StorePending(t) \/ Forward(t) PROVE TouchInv'
    BY <1>1, <2>3 DEF CheckAuth, Logout, StorePending, Forward
  <2>. QED  BY <1>5, <1>7, <2>1, <2>2, <2>3 DEF Callback
<1>8. ASSUME \/ Start
             \/ \E i \in Sockets : Lose(i)
             \/ \E i \in Sockets, type \in {"next-problem", "room-expired"} : OnMessage(i, type)
             \/ \E r \in Rooms \cup {0} : PanelRoom(r)
             \/ LogIn \/ TimeUp
             \/ \E kind \in {"check", "logout"} : Ask(kind)
             \/ \E s \in Subs : Submit(s)
             \/ \E s \in Subs, kind \in {"result", "failed"} : Result(s, kind)
             \/ UNCHANGED vars
      PROVE  TouchInv'
  BY <1>1, <1>8 DEF Start, Lose, OnMessage, PanelRoom, LogIn, TimeUp, Ask, Submit, Result, vars
<1>. QED  BY <1>2, <1>3, <1>4, <1>6, <1>7, <1>8 DEF Next

----------------------------------------------------------------------------
(* Submissions.                                                            *)

\* What the invariant says as long as nothing raced and the worker ran.
SubmissionsGo == OneMessage /\ SeenIsCurrent /\ AcceptedGoes /\ PendingIsUnsent

\* Nothing about submissions changes, except that a round may come into its time or lose
\* its end.
LEMMA SubmissionSame ==
  ASSUME SubmissionInv, (SubmissionTyped)', AboutSubmissions' = AboutSubmissions,
         UNCHANGED <<forwarded, accepted, raced, stops>>,
         local'.pending = local.pending,
         ~ raced /\ stops = 0 /\ AboutSubmissions # {} /\ InTime => InTime'
  PROVE  SubmissionInv'
<1>. SUFFICES ASSUME ~ raced, stops = 0 PROVE SubmissionsGo'
  BY DEF SubmissionInv, SubmissionsGo
<1>1. SubmissionsGo
  BY DEF SubmissionInv, SubmissionsGo
<1>2. OneMessage' /\ SeenIsCurrent' /\ PendingIsUnsent'
  BY <1>1 DEF SubmissionsGo, OneMessage, SeenIsCurrent, PendingIsUnsent
<1>3. AcceptedGoes'
  BY <1>1 DEF SubmissionsGo, AcceptedGoes
<1>. QED  BY <1>2, <1>3 DEF SubmissionsGo

\* Nothing of all this changes.
LEMMA SubmissionIdle ==
  ASSUME SubmissionInv, UNCHANGED <<local, tasks, late, raced, forwarded, accepted, stops>>
  PROVE  SubmissionInv'
<1>1. AboutSubmissions' = AboutSubmissions /\ (InTime => InTime')
  BY DEF AboutSubmissions, InTime
<1>2. SubmissionTyped'
  BY <1>1 DEF SubmissionInv, SubmissionTyped
<1>. QED  BY <1>1, <1>2, SubmissionSame

\* The storage is written, and its submissions stay; tasks of other kinds may come and go.
LEMMA SubmissionStore ==
  ASSUME SubmissionInv, (local \in Stores)', local'.pending = local.pending, tasks' \subseteq Tasks,
         AboutSubmissions' = AboutSubmissions, (late \in BOOLEAN)', InTime => InTime',
         UNCHANGED <<forwarded, accepted, raced, stops>>
  PROVE  SubmissionInv'
<1>1. SubmissionTyped'
  BY DEF SubmissionInv, SubmissionTyped
<1>. QED  BY <1>1, SubmissionSame

\* Once messages have raced, or the worker was stopped, only the types are left.
LEMMA SubmissionRaced ==
  ASSUME SubmissionTyped', raced' \/ stops' # 0
  PROVE  SubmissionInv'
BY DEF SubmissionInv

\* A message about submission s arrives.
LEMMA MessageArrives ==
  ASSUME SubmissionInv, NEW t \in Tasks, t.kind \in {"pending", "result", "failed"}, t.sub \in Subs, t.at = "read",
         tasks' = tasks \cup {t}, raced' = (raced \/ AboutSubmissions # {}),
         UNCHANGED <<local, forwarded, late, stops>>,
         t.kind = "pending" => forwarded[t.sub] = 0,
         accepted' = accepted \/ (/\ accepted' = accepted \cup {t.sub} /\ t.kind = "result"
                                  /\ t.sub \in local.pending /\ InTime)
  PROVE  SubmissionInv'
<1>0. tasks \subseteq Tasks /\ tasks' \subseteq Tasks /\ local' = local /\ SubmissionTyped
  BY DEF SubmissionInv, SubmissionTyped
<1>1. \A v : v \in AboutSubmissions' <=> v \in AboutSubmissions \/ v = t
  BY DEF AboutSubmissions
<1>2. SubmissionTyped'
  BY <1>0, <1>1 DEF SubmissionTyped
<1>3. ASSUME ~ raced', stops' = 0 PROVE SubmissionsGo'
  <2>1. ~ raced /\ AboutSubmissions = {} /\ stops = 0
    BY <1>3
  <2>2. SubmissionsGo
    BY <2>1 DEF SubmissionInv, SubmissionsGo
  <2>3. \A v : v \in AboutSubmissions' <=> v = t
    BY <1>1, <2>1
  <2>4. OneMessage' /\ SeenIsCurrent'
    BY <2>3 DEF OneMessage, SeenIsCurrent
  <2>5. InTime' = InTime
    BY <1>0 DEF InTime
  <2>6. AcceptedGoes'
    BY <1>0, <2>1, <2>2, <2>3, <2>5 DEF SubmissionsGo, AcceptedGoes
  <2>7. PendingIsUnsent'
    BY <1>0, <2>1, <2>2, <2>3 DEF SubmissionsGo, PendingIsUnsent
  <2>. QED  BY <2>4, <2>6, <2>7 DEF SubmissionsGo
<1>. QED  BY <1>2, <1>3 DEF SubmissionInv, SubmissionsGo

\* What is known of the message under way when nothing has raced.
LEMMA OnlyMessage ==
  ASSUME SubmissionInv, ~ raced, stops = 0, NEW t \in AboutSubmissions
  PROVE  /\ \A v : v \in AboutSubmissions <=> v = t
         /\ t.at = "write" => t.seen = local.pending
         /\ \A s \in accepted : forwarded[s] = 1 \/
              (t.kind = "result" /\ t.sub = s /\ t.at = "read" /\ s \in local.pending /\ InTime)
         /\ \A s \in local.pending : forwarded[s] = 0 \/ (t.kind = "result" /\ t.sub = s /\ t.at = "write")
         /\ t.kind = "pending" => forwarded[t.sub] = 0
<1>1. \A v : v \in AboutSubmissions <=> v = t
  BY DEF SubmissionInv, OneMessage
<1>2. t.at = "write" => t.seen = local.pending
  BY DEF SubmissionInv, SeenIsCurrent
<1>3. \A s \in accepted : forwarded[s] = 1 \/
              (t.kind = "result" /\ t.sub = s /\ t.at = "read" /\ s \in local.pending /\ InTime)
  BY <1>1 DEF SubmissionInv, AcceptedGoes
<1>4. /\ \A s \in local.pending : forwarded[s] = 0 \/ (t.kind = "result" /\ t.sub = s /\ t.at = "write")
      /\ t.kind = "pending" => forwarded[t.sub] = 0
  BY <1>1 DEF SubmissionInv, PendingIsUnsent
<1>. QED  BY <1>1, <1>2, <1>3, <1>4

\* A message has been handled: it leaves stored what has not been sent.
LEMMA MessageEnds ==
  ASSUME SubmissionInv, NEW t \in AboutSubmissions, Finish(t), (local \in Stores)',
         UNCHANGED <<forwarded, accepted, raced, late, stops>>,
         ~ raced /\ stops = 0 =>
           /\ \A s \in accepted : forwarded[s] = 1
           /\ \A s \in local'.pending : forwarded[s] = 0
  PROVE  SubmissionInv'
<1>0. tasks' = tasks \ {t} /\ SubmissionTyped
  BY DEF Finish, SubmissionInv
<1>1. \A v : v \in AboutSubmissions' <=> v \in AboutSubmissions /\ v # t
  BY <1>0 DEF AboutSubmissions
<1>2. SubmissionTyped'
  BY <1>0, <1>1 DEF SubmissionTyped
<1>3. ASSUME ~ raced, stops = 0 PROVE SubmissionsGo'
  <2>1. \A v : v \notin AboutSubmissions'
    BY <1>1, <1>3, OnlyMessage
  <2>. QED  BY <1>3, <2>1 DEF SubmissionsGo, OneMessage, SeenIsCurrent, AcceptedGoes, PendingIsUnsent
<1>. QED  BY <1>2, <1>3 DEF SubmissionInv, SubmissionsGo

\* A message has read what is stored.
LEMMA MessageReads ==
  ASSUME SubmissionInv, NEW t \in AboutSubmissions, t.at = "read", NEW u \in Tasks,
         u.kind = t.kind, u.sub = t.sub, u.at = "write", u.seen = local.pending,
         Becomes(t, u), forwarded' \in [Subs -> Nat],
         UNCHANGED <<local, accepted, raced, late, stops>>,
         ~ raced /\ stops = 0 =>
           /\ \A s \in accepted : forwarded'[s] = 1
           /\ \A s \in local.pending : forwarded'[s] = 0 \/ (u.kind = "result" /\ u.sub = s)
           /\ u.kind = "pending" => forwarded'[u.sub] = 0
  PROVE  SubmissionInv'
<1>0. tasks' = (tasks \ {t}) \cup {u} /\ SubmissionTyped
  BY DEF Becomes, SubmissionInv
<1>1. \A v : v \in AboutSubmissions' <=> (v \in AboutSubmissions /\ v # t) \/ v = u
  BY <1>0 DEF AboutSubmissions
<1>2. SubmissionTyped'
  BY <1>0, <1>1 DEF SubmissionTyped
<1>3. ASSUME ~ raced, stops = 0 PROVE SubmissionsGo'
  <2>1. \A v : v \in AboutSubmissions' <=> v = u
    BY <1>1, <1>3, OnlyMessage
  <2>2. OneMessage' /\ SeenIsCurrent'
    BY <2>1 DEF OneMessage, SeenIsCurrent
  <2>3. AcceptedGoes'
    BY <1>3 DEF AcceptedGoes
  <2>4. PendingIsUnsent'
    BY <1>3, <2>1 DEF PendingIsUnsent
  <2>. QED  BY <2>2, <2>3, <2>4 DEF SubmissionsGo
<1>. QED  BY <1>2, <1>3 DEF SubmissionInv, SubmissionsGo

LEMMA StorePendingOK == ASSUME SubmissionInv, NEW t \in tasks, StorePending(t) PROVE SubmissionInv'
<1>0. /\ t \in AboutSubmissions /\ t \in Tasks /\ t.kind = "pending" /\ t.sub \in Subs /\ local \in Stores
      /\ UNCHANGED <<forwarded, accepted, raced, late, stops>> /\ forwarded \in [Subs -> Nat]
  BY DEF StorePending, AboutSubmissions, SubmissionInv, SubmissionTyped, submissions
<1>1. CASE t.at = "read" /\ Becomes(t, [t EXCEPT !.at = "write", !.seen = local.pending]) /\ UNCHANGED local
  <2>1. local.pending \in SUBSET Subs
    BY <1>0 DEF Stores
  <2>2. PICK u \in Tasks : u = [t EXCEPT !.at = "write", !.seen = local.pending]
    BY <1>0, <2>1 DEF Tasks
  <2>3. u.kind = t.kind /\ u.sub = t.sub /\ u.at = "write" /\ u.seen = local.pending
    BY <1>0, <2>2 DEF Tasks
  <2>4. ASSUME ~ raced, stops = 0
        PROVE  /\ \A s \in accepted : forwarded'[s] = 1
               /\ \A s \in local.pending : forwarded'[s] = 0
               /\ forwarded'[u.sub] = 0
    BY <1>0, <2>3, <2>4, OnlyMessage
  <2>. QED  BY <1>0, <1>1, <2>2, <2>3, <2>4, MessageReads
<1>2. CASE t.at = "write" /\ Finish(t) /\ Store([local EXCEPT !.pending = t.seen \cup {t.sub}])
  <2>1. t.seen \cup {t.sub} \in SUBSET Subs
    BY <1>0 DEF Tasks
  <2>2. local' \in Stores /\ local'.pending = t.seen \cup {t.sub}
    BY <1>0, <1>2, <2>1 DEF Store, Stores
  <2>3. ASSUME ~ raced, stops = 0
        PROVE  (\A s \in accepted : forwarded[s] = 1) /\ (\A s \in local'.pending : forwarded[s] = 0)
    BY <1>0, <1>2, <2>2, <2>3, OnlyMessage
  <2>. QED  BY <1>0, <1>2, <2>2, <2>3, MessageEnds
<1>. QED  BY <1>1, <1>2 DEF StorePending

LEMMA ForwardOK == ASSUME SubmissionInv, NEW t \in tasks, Forward(t) PROVE SubmissionInv'
<1>0. /\ t \in AboutSubmissions /\ t \in Tasks /\ t.kind \in {"result", "failed"} /\ t.sub \in Subs /\ local \in Stores
      /\ UNCHANGED <<accepted, raced, late, stops>> /\ forwarded \in [Subs -> Nat] /\ accepted \subseteq Subs
  BY DEF Forward, AboutSubmissions, SubmissionInv, SubmissionTyped
<1>1. CASE /\ t.at = "read" /\ t.sub \in local.pending
           /\ Becomes(t, [t EXCEPT !.at = "write", !.seen = local.pending])
           /\ forwarded' = IF t.kind = "result" /\ ~(local.endTime /\ late)
                             THEN [forwarded EXCEPT ![t.sub] = @ + 1] ELSE forwarded
           /\ UNCHANGED local
  <2>1. local.pending \in SUBSET Subs
    BY <1>0 DEF Stores
  <2>2. PICK u \in Tasks : u = [t EXCEPT !.at = "write", !.seen = local.pending]
    BY <1>0, <2>1 DEF Tasks
  <2>3. u.kind = t.kind /\ u.sub = t.sub /\ u.at = "write" /\ u.seen = local.pending
    BY <1>0, <2>2 DEF Tasks
  <2>4. forwarded[t.sub] \in Nat /\ forwarded[t.sub] + 1 \in Nat
    BY <1>0
  <2>5. /\ forwarded' \in [Subs -> Nat]
        /\ \A s \in Subs : s # t.sub => forwarded'[s] = forwarded[s]
        /\ t.kind = "result" /\ InTime => forwarded'[t.sub] = forwarded[t.sub] + 1
        /\ ~ (t.kind = "result" /\ InTime) => forwarded' = forwarded
    BY <1>0, <1>1, <2>4 DEF InTime
  <2>6. ASSUME ~ raced, stops = 0
        PROVE  /\ \A s \in accepted : forwarded'[s] = 1
               /\ \A s \in local.pending : forwarded'[s] = 0 \/ (u.kind = "result" /\ u.sub = s)
    <3>1. /\ \A s \in accepted : forwarded[s] = 1 \/ (t.kind = "result" /\ t.sub = s /\ s \in local.pending /\ InTime)
          /\ \A s \in local.pending : forwarded[s] = 0
      BY <1>0, <1>1, <2>6, OnlyMessage
    <3>2. forwarded[t.sub] = 0
      BY <1>1, <3>1
    <3>3. ASSUME NEW s \in accepted PROVE forwarded'[s] = 1
      <4>1. CASE s = t.sub
        BY <2>5, <3>1, <3>2, <4>1
      <4>2. CASE s # t.sub
        BY <1>0, <2>5, <3>1, <4>2
      <4>. QED  BY <4>1, <4>2
    <3>4. ASSUME NEW s \in local.pending PROVE forwarded'[s] = 0 \/ (u.kind = "result" /\ u.sub = s)
      <4>1. CASE s = t.sub
        BY <1>0, <2>3, <2>5, <3>1, <4>1
      <4>2. CASE s # t.sub
        BY <2>1, <2>5, <3>1, <4>2
      <4>. QED  BY <4>1, <4>2
    <3>. QED  BY <3>3, <3>4
  <2>. QED  BY <1>0, <1>1, <2>2, <2>3, <2>5, <2>6, MessageReads
<1>2. CASE t.at = "read" /\ t.sub \notin local.pending /\ Finish(t) /\ UNCHANGED <<forwarded, local>>
  <2>1. ASSUME ~ raced, stops = 0
        PROVE  (\A s \in accepted : forwarded[s] = 1) /\ (\A s \in local.pending : forwarded[s] = 0)
    BY <1>0, <1>2, <2>1, OnlyMessage
  <2>. QED  BY <1>0, <1>2, <2>1, MessageEnds
<1>3. CASE t.at = "write" /\ Finish(t) /\ Store([local EXCEPT !.pending = t.seen \ {t.sub}]) /\ UNCHANGED forwarded
  <2>1. t.seen \ {t.sub} \in SUBSET Subs
    BY <1>0 DEF Tasks
  <2>2. local' \in Stores /\ local'.pending = t.seen \ {t.sub}
    BY <1>0, <1>3, <2>1 DEF Store, Stores
  <2>3. ASSUME ~ raced, stops = 0
        PROVE  (\A s \in accepted : forwarded[s] = 1) /\ (\A s \in local'.pending : forwarded[s] = 0)
    BY <1>0, <1>3, <2>2, <2>3, OnlyMessage
  <2>. QED  BY <1>0, <1>3, <2>2, <2>3, MessageEnds
<1>. QED  BY <1>1, <1>2, <1>3 DEF Forward

\* LOGOUT empties the storage.
LEMMA LogoutOK == ASSUME SubmissionInv, NEW t \in tasks, Logout(t) PROVE SubmissionInv'
<1>0. /\ t \in Tasks /\ t.kind = "logout" /\ UNCHANGED <<forwarded, accepted, late, stops>> /\ SubmissionTyped
  BY DEF Logout, SubmissionInv, SubmissionTyped
<1>1. CASE Becomes(t, [t EXCEPT !.at = "finish"]) /\ UNCHANGED <<local, raced>>
  <2>1. PICK u \in Tasks : u = [t EXCEPT !.at = "finish"]
    BY <1>0 DEF Tasks
  <2>. u.kind = "logout"
    BY <1>0, <2>1 DEF Tasks
  <2>2. tasks' \subseteq Tasks /\ AboutSubmissions' = AboutSubmissions
    BY <1>0, <1>1, <2>1 DEF Becomes, AboutSubmissions, SubmissionTyped
  <2>. QED  BY <1>0, <1>1, <2>2, SubmissionStore DEF SubmissionTyped, InTime
<1>2. CASE Finish(t) /\ Store(NothingStored) /\ raced' = (raced \/ AboutSubmissions # {})
  <2>1. local' \in Stores /\ local'.pending = {}
    BY <1>2 DEF Store, NothingStored, Stores
  <2>2. tasks' \subseteq Tasks /\ AboutSubmissions' = AboutSubmissions
    BY <1>0, <1>2 DEF Finish, AboutSubmissions, SubmissionTyped
  <2>3. SubmissionTyped'
    BY <1>0, <1>2, <2>1, <2>2 DEF SubmissionTyped
  <2>4. ASSUME ~ raced', stops' = 0 PROVE SubmissionsGo'
    <3>1. ~ raced /\ stops = 0 /\ AboutSubmissions = {}
      BY <1>0, <1>2, <2>4
    <3>2. \A s \in accepted : forwarded[s] = 1
      BY <3>1 DEF SubmissionInv, AcceptedGoes
    <3>. QED  BY <1>0, <2>1, <2>2, <3>1, <3>2 DEF SubmissionsGo, OneMessage, SeenIsCurrent, AcceptedGoes, PendingIsUnsent
  <2>. QED  BY <2>3, <2>4 DEF SubmissionInv, SubmissionsGo
<1>. QED  BY <1>1, <1>2 DEF Logout

LEMMA CheckAuthOK == ASSUME SubmissionInv, NEW t \in tasks, CheckAuth(t) PROVE SubmissionInv'
<1>0. /\ t \in Tasks /\ t.kind = "check" /\ SubmissionTyped /\ local \in Stores
      /\ UNCHANGED <<forwarded, accepted, raced, late, stops>>
  BY DEF CheckAuth, SubmissionInv, SubmissionTyped, submissions
<1>1. ASSUME NEW at \in {"store", "remove"}, Becomes(t, [t EXCEPT !.at = at]), UNCHANGED local
      PROVE  SubmissionInv'
  <2>2. PICK u \in Tasks : u = [t EXCEPT !.at = at]
    BY <1>0 DEF Tasks
  <2>. u.kind = "check"
    BY <1>0, <2>2 DEF Tasks
  <2>3. tasks' \subseteq Tasks /\ AboutSubmissions' = AboutSubmissions
    BY <1>0, <1>1, <2>2 DEF Becomes, AboutSubmissions, SubmissionTyped
  <2>. QED  BY <1>0, <1>1, <2>3, SubmissionStore DEF SubmissionTyped, InTime
<1>2. CASE Finish(t) /\ Store([local EXCEPT !.user = (t.at = "store")])
  <2>1. PICK b \in BOOLEAN : b = (t.at = "store")
    <3>1. (t.at = "store") \in BOOLEAN
      OBVIOUS
    <3>. QED  BY <3>1, Zenon
  <2>2. local' = [local EXCEPT !.user = b]
    BY <1>2, <2>1 DEF Store
  <2>3. local' \in Stores /\ local'.pending = local.pending /\ local'.endTime = local.endTime
    BY <1>0, <2>2 DEF Stores
  <2>4. tasks' \subseteq Tasks /\ AboutSubmissions' = AboutSubmissions
    BY <1>0, <1>2 DEF Finish, AboutSubmissions, SubmissionTyped
  <2>. QED  BY <1>0, <2>3, <2>4, SubmissionStore DEF SubmissionTyped, InTime
<1>3. ASSUME Becomes(t, [t EXCEPT !.at = IF session THEN "store" ELSE "remove"]), UNCHANGED local
      PROVE  SubmissionInv'
  <2>1. PICK at \in {"store", "remove"} : at = IF session THEN "store" ELSE "remove"
    OBVIOUS
  <2>. QED  BY <1>1, <1>3, <2>1
<1>. QED  BY <1>1, <1>2, <1>3 DEF CheckAuth

LEMMA SubmissionStep == ASSUME SubmissionInv, [Next]_vars PROVE SubmissionInv'
<1>0. /\ SubmissionTyped /\ local \in Stores /\ tasks \subseteq Tasks /\ late \in BOOLEAN /\ raced \in BOOLEAN
      /\ forwarded \in [Subs -> Nat] /\ accepted \subseteq Subs /\ stops \in Nat
  BY DEF SubmissionInv, SubmissionTyped
<1>1. CASE UNCHANGED <<local, tasks, submissions, stops>>
  BY <1>1, SubmissionIdle DEF submissions
\* The storage is written, except for its submissions and the time of the round.
<1>2. ASSUME NEW new \in Stores, Store(new), new.pending = local.pending, UNCHANGED <<tasks, submissions, stops>>,
             new.endTime => local.endTime
      PROVE  SubmissionInv'
  <2>1. AboutSubmissions' = AboutSubmissions /\ local' = new
    BY <1>2 DEF AboutSubmissions, Store
  <2>2. (InTime => InTime') /\ UNCHANGED <<forwarded, accepted, raced, stops, late>>
    BY <1>2, <2>1 DEF InTime, submissions
  <2>. QED  BY <1>0, <1>2, <2>1, <2>2, SubmissionStore
<1>3. CASE Stop
  <2>1. tasks' = {} /\ stops' = stops + 1 /\ UNCHANGED <<local, submissions>>
    BY <1>3 DEF Stop
  <2>2. stops' \in Nat /\ stops' # 0
    BY <1>0, <2>1
  <2>3. SubmissionTyped'
    BY <1>0, <2>1, <2>2 DEF SubmissionTyped, AboutSubmissions, submissions
  <2>. QED  BY <2>2, <2>3, SubmissionRaced
<1>4. CASE Callback
  <2>1. CASE ReadConfig \/ OnChanged \/ Reconnect \/ Chain
    BY <1>1, <2>1 DEF ReadConfig, OnChanged, Reconnect, Chain
  <2>2. ASSUME NEW i \in Sockets, OnOpen(i) \/ OnClose(i) PROVE SubmissionInv'
    BY <1>1, <2>2 DEF OnOpen, OnClose
  <2>. QED  BY <1>4, <2>1, <2>2, CheckAuthOK, LogoutOK, StorePendingOK, ForwardOK DEF Callback
<1>5. ASSUME NEW i \in Sockets, NEW type \in {"next-problem", "room-expired"}, OnMessage(i, type)
      PROVE  SubmissionInv'
  <2>1. PICK new : Store(new) /\ new \in {[local EXCEPT !.next = TRUE],
                                          [local EXCEPT !.room = 0, !.next = FALSE, !.endTime = FALSE]}
    BY <1>5 DEF OnMessage
  <2>2. new \in Stores /\ new.pending = local.pending /\ (new.endTime => local.endTime)
    <3>1. CASE new = [local EXCEPT !.next = TRUE]
      BY <1>0, <3>1 DEF Stores
    <3>2. CASE new = [local EXCEPT !.room = 0, !.next = FALSE, !.endTime = FALSE]
      BY <1>0, <3>2 DEF Stores
    <3>. QED  BY <2>1, <3>1, <3>2
  <2>. QED  BY <1>2, <1>5, <2>1, <2>2 DEF OnMessage
<1>6. ASSUME NEW r \in Rooms \cup {0}, PanelRoom(r) PROVE SubmissionInv'
  <2>1. r \in Nat
    BY RoomsAssumption
  <2>2. PICK new \in Stores : new = [local EXCEPT !.room = r]
    BY <1>0, <2>1 DEF Stores
  <2>3. new.pending = local.pending /\ new.endTime = local.endTime
    BY <1>0, <2>2 DEF Stores
  <2>. QED  BY <1>2, <1>6, <2>2, <2>3 DEF PanelRoom
\* A round that is started now has its time before it.
<1>7. ASSUME NEW k \in RoundKeys, PanelRound(k) PROVE SubmissionInv'
  <2>1. /\ local' = [local EXCEPT !.endTime = TRUE, !.next = FALSE]
        /\ late' = IF local.endTime /\ k = atomRound THEN late ELSE FALSE
        /\ UNCHANGED <<tasks, forwarded, accepted, raced, stops>>
    BY <1>7 DEF PanelRound, Store
  <2>2. local' \in Stores /\ local'.pending = local.pending /\ (late \in BOOLEAN)'
    BY <1>0, <2>1 DEF Stores
  <2>3. InTime => InTime'
    BY <2>1 DEF InTime
  <2>4. AboutSubmissions' = AboutSubmissions
    BY <2>1 DEF AboutSubmissions
  <2>. QED  BY <1>0, <2>1, <2>2, <2>3, <2>4, SubmissionStore
\* The time of the round passes: a message under way may see the one or the other.
<1>8. CASE TimeUp
  <2>1. /\ late' = TRUE /\ raced' = (raced \/ AboutSubmissions # {})
        /\ UNCHANGED <<local, tasks, forwarded, accepted, stops>>
    BY <1>8 DEF TimeUp
  <2>2. AboutSubmissions' = AboutSubmissions
    BY <2>1 DEF AboutSubmissions
  <2>3. SubmissionTyped'
    BY <1>0, <2>1, <2>2 DEF SubmissionTyped
  <2>4. CASE AboutSubmissions = {} /\ raced' = raced
    BY <2>1, <2>2, <2>3, <2>4, SubmissionSame
  <2>5. CASE raced'
    BY <2>3, <2>5, SubmissionRaced
  <2>6. raced' \/ (AboutSubmissions = {} /\ raced' = raced)
    BY <1>0, <2>1
  <2>. QED  BY <2>4, <2>5, <2>6
<1>9. ASSUME NEW kind \in {"check", "logout"}, Ask(kind) PROVE SubmissionInv'
  <2>1. PICK t : t = [kind |-> kind, sub |-> 0, at |-> "fetch", seen |-> {}]
    OBVIOUS
  <2>2. t \in Tasks /\ t.kind \in {"check", "logout"}
    BY <2>1 DEF Tasks
  <2>3. tasks' = tasks \cup {t} /\ UNCHANGED <<local, submissions, stops>>
    BY <1>9, <2>1 DEF Ask
  <2>4. tasks' \subseteq Tasks /\ AboutSubmissions' = AboutSubmissions
    BY <1>0, <2>2, <2>3 DEF AboutSubmissions
  <2>. QED  BY <1>0, <2>3, <2>4, SubmissionStore DEF InTime, submissions
<1>10. ASSUME NEW s \in Subs, Submit(s) PROVE SubmissionInv'
  <2>1. PICK t \in Tasks : t = [kind |-> "pending", sub |-> s, at |-> "read", seen |-> {}]
    BY DEF Tasks
  <2>2. t.kind = "pending" /\ t.sub = s /\ t.at = "read"
    BY <2>1
  <2>3. /\ tasks' = tasks \cup {t} /\ raced' = (raced \/ AboutSubmissions # {}) /\ forwarded[s] = 0
        /\ UNCHANGED <<local, forwarded, accepted, late, stops>>
    BY <1>10, <2>1 DEF Submit
  <2>. QED  BY <2>2, <2>3, MessageArrives
<1>11. ASSUME NEW s \in Subs, NEW kind \in {"result", "failed"}, Result(s, kind) PROVE SubmissionInv'
  <2>1. PICK t \in Tasks : t = [kind |-> kind, sub |-> s, at |-> "read", seen |-> {}]
    BY DEF Tasks
  <2>2. t.kind = kind /\ t.sub = s /\ t.at = "read"
    BY <2>1
  <2>3. /\ tasks' = tasks \cup {t} /\ raced' = (raced \/ AboutSubmissions # {})
        /\ UNCHANGED <<local, forwarded, late, stops>>
        /\ accepted' = IF kind = "result" /\ s \in local.pending /\ InTime THEN accepted \cup {s} ELSE accepted
    BY <1>11, <2>1 DEF Result, InTime
  <2>. QED  BY <2>2, <2>3, MessageArrives
<1>12. ASSUME \/ Start \/ LogIn \/ LoadPage
              \/ \E i \in Sockets : Lose(i)
              \/ \E slug \in Slugs : TypeCode(slug)
              \/ UNCHANGED vars
       PROVE  SubmissionInv'
  BY <1>1, <1>12 DEF Start, LogIn, LoadPage, Lose, TypeCode, vars
<1>. QED  BY <1>3, <1>4, <1>5, <1>6, <1>7, <1>8, <1>9, <1>10, <1>11, <1>12 DEF Next

----------------------------------------------------------------------------
LEMMA InitWorker == Init => MemoryInv /\ TouchInv /\ SubmissionInv
<1>. SUFFICES ASSUME Init PROVE MemoryInv /\ TouchInv /\ SubmissionInv
  OBVIOUS
<1>1. local \in Stores /\ local.room = 0 /\ local.user = FALSE /\ local.pending = {}
  BY DEF Init, NothingStored, Stores
<1>2. worker \in Workers /\ worker.room = 0 /\ worker.user = FALSE
  BY DEF Init, Stopped, Workers
<1>3. changes \in Seq(Events) /\ Len(changes) = 0
  BY DEF Init
<1>4. MemoryInv
  <2>1. worker.room = local.room /\ worker.user = local.user
    BY <1>1, <1>2
  <2>2. \A i \in 1 .. Len(changes) : FALSE
    BY <1>3
  <2>3. RoomFollows /\ UserFollows
    BY <2>1, <2>2 DEF RoomFollows, UserFollows
  <2>. QED  BY <1>1, <1>2, <1>3, <2>3 DEF MemoryInv, MemoryTyped
<1>5. /\ chain \in Seq(Writes) /\ Len(chain) = 0 /\ touched = {} /\ atomTouched = {} /\ round = "none"
      /\ atomRound = "none" /\ stops = 0 /\ failed \in [marks : SUBSET Slugs, reset : BOOLEAN]
  BY DEF Init
<1>6. TouchTyped /\ HeadIsCurrent
  BY <1>5 DEF TouchTyped, HeadIsCurrent, Keys
<1>7. ChainLeads
  <2>1. PICK l \in [1 .. Len(chain) + 1 -> SUBSET Slugs], k \in [1 .. Len(chain) + 1 -> Keys] :
          l = [i \in 1 .. Len(chain) + 1 |-> {}] /\ k = [i \in 1 .. Len(chain) + 1 |-> "none"]
    BY <1>5 DEF Keys
  <2>2. l[1] = {} /\ k[1] = "none" /\ l[Len(chain) + 1] = {} /\ k[Len(chain) + 1] = "none"
    BY <1>5, <2>1
  <2>3. Leads(l, k)
    BY <1>5, <2>2 DEF Leads, Agree
  <2>. QED  BY <2>3 DEF ChainLeads
<1>8. AboutSubmissions = {} /\ tasks = {} /\ accepted = {}
  BY DEF Init, AboutSubmissions
<1>9. forwarded \in [Subs -> Nat] /\ late \in BOOLEAN /\ raced \in BOOLEAN
  BY DEF Init
<1>10. SubmissionInv
  BY <1>1, <1>5, <1>8, <1>9
     DEF SubmissionInv, SubmissionTyped, OneMessage, SeenIsCurrent, AcceptedGoes, PendingIsUnsent
<1>. QED  BY <1>4, <1>6, <1>7, <1>10 DEF TouchInv

\* The three inductive invariants of the worker, whatever messages come, however its
\* callbacks interleave, and whenever it is stopped.
THEOREM WorkerInvariant == Spec => [](MemoryInv /\ TouchInv /\ SubmissionInv)
<1>1. SubmissionInv' => (local \in Stores)'
  BY DEF SubmissionInv, SubmissionTyped
<1>2. MemoryInv /\ TouchInv /\ SubmissionInv /\ [Next]_vars => (MemoryInv /\ TouchInv /\ SubmissionInv)'
  BY <1>1, MemoryStep, TouchStep, SubmissionStep
<1>. QED  BY <1>2, InitWorker, PTL DEF Spec

\* When all storage events are delivered, room and user in the worker's memory are the
\* stored ones, whatever was changed while it started, and after a logout; a worker whose
\* first read failed has these or none.
THEOREM MemoryIsStorage == Spec => []MemoryFollowsStorage
<1>1. MemoryInv => MemoryFollowsStorage
  <2>. SUFFICES ASSUME MemoryInv, worker.ready, changes = <<>>
                PROVE  /\ worker.room = local.room \/ (worker.blind /\ worker.room = 0)
                       /\ worker.user = local.user \/ (worker.blind /\ ~worker.user)
    BY DEF MemoryFollowsStorage
  <2>1. Len(changes) = 0
    OBVIOUS
  <2>. QED  BY <2>1 DEF MemoryInv, RoomFollows, UserFollows, Unread
<1>. QED  BY <1>1, WorkerInvariant, PTL

\* As long as the worker is not stopped and no reset was refused, its chained reads and
\* writes give the touched problems and their round that the messages make one after the
\* other, except for the problems whose own write was refused.
THEOREM TouchesAreInOrder == Spec => []TouchesInOrder
<1>1. TouchInv => TouchesInOrder
  <2>. SUFFICES ASSUME TouchInv, stops = 0, chain = <<>>, ~ failed.reset
                PROVE  Agree(touched, atomTouched) /\ round = atomRound
    BY DEF TouchesInOrder, Agree
  <2>1. Len(chain) + 1 = 1
    OBVIOUS
  <2>. QED  BY <2>1 DEF TouchInv, ChainLeads, Leads, Agree
<1>. QED  BY <1>1, WorkerInvariant, PTL

\* An accepted submission that was stored in time is sent exactly once, however often its
\* result is reported, unless messages about submissions overlap or the worker is stopped.
THEOREM SentExactlyOnce == Spec => []ForwardedOnce
<1>1. SubmissionInv => ForwardedOnce
  BY DEF SubmissionInv, ForwardedOnce, AcceptedGoes
<1>. QED  BY <1>1, WorkerInvariant, PTL

====
