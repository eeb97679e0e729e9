--------------------------- MODULE RtcServiceProofs ---------------------------
(***************************************************************************)
(* What rtc-service keeps to for any connections, users, requests and      *)
(* losses: a panel that has joined misses no message that is kept, and a   *)
(* room without users leaves the list.                                     *)
(*                                                                         *)
(* The invariant says where each reader is with which request, that a      *)
(* message has one sender and is stored at most once, in the room object   *)
(* the sender then goes through, and who carries a stored message to a     *)
(* panel that has not been written it.                                     *)
(***************************************************************************)
EXTENDS RtcService, SequenceTheorems, TLAPS

Names == Users \cup {"central-service", "none"}
Kept == [type : {ResponseType[t] : t \in RequestTypes}, id : Nat]
RoundState == [status : {"not-started", "in-progress", "ended"}, participants : SUBSET Names]
RoomState == [users : SUBSET Names, messages : Seq(Kept), filter : BOOLEAN, round : RoundState]
Jobs == [type : RequestTypes \cup {"none"}, user : Names, silent : BOOLEAN, error : BOOLEAN,
         id : Nat, obj : 0 .. MaxRooms, start : SUBSET Names, gone : SUBSET Names, old : BOOLEAN,
         done : SUBSET Names, to : Conns, got : BOOLEAN, left : Seq(Kept)]

RoundTypes == {"join-round", "round-start", "round-end"}
Places == {"idle", "ended", "find", "create", "known", "add", "replay", "replaying", "remove",
           "empty", "unlist", "round", "line", "look", "store", "cast", "send", "answer", "expire"}

\* The request a reader serves at each place, and that it has a room object in hand.
Serving(l, j) ==
    /\ l = "find" => j.type \in {"join-room", "leave-room", "chat-message"} \cup RoundTypes
    /\ l \in {"create", "add", "replay", "replaying"} => j.type = "join-room"
    /\ l = "known" => j.type \in {"join-room", "leave-room", "chat-message"}
    /\ l \in {"remove", "empty"} => j.type = "leave-room"
    /\ l = "unlist" => j.type \in {"leave-room", "room-expired"}
    /\ l = "round" => j.type \in RoundTypes
    /\ l = "line" => j.type = "round-start"
    /\ l = "expire" => j.type = "room-expired"
    /\ l \notin {"idle", "ended"} => j.type # "none"
    /\ l \in {"known", "add", "replaying", "remove", "empty", "unlist", "round", "line", "store",
              "cast", "send"} => j.obj # 0

Busy(c) == pc[c] \notin {"idle", "ended"}

TypeOK ==
    /\ created \in 0 .. MaxRooms /\ listed \subseteq 1 .. created
    /\ room \in [RoomObjects -> RoomState]
    /\ readers \in [RoomObjects -> SUBSET Conns]
    /\ services \subseteq Conns /\ named \subseteq Conns /\ caught \subseteq Conns
    /\ shadowed \subseteq Conns /\ split \in BOOLEAN
    /\ link \in [Conns -> {"up", "down"}] /\ writer \in [Conns -> BOOLEAN]
    /\ pc \in [Conns -> Places] /\ job \in [Conns -> Jobs]
    /\ requests \in Nat /\ written \in [Conns -> SUBSET Nat]
    /\ \A c \in Conns : Serving(pc[c], job[c])

-----------------------------------------------------------------------------
(* One message, one sender *)

\* The response of the request has not come to AddMessage yet.
Unstored(l, j) ==
    \/ l \in {"find", "create", "known", "add", "replay", "replaying", "remove", "empty", "round",
              "line", "look", "store"}
    \/ l = "unlist" /\ j.type = "leave-room"

Has(ms, n) == \E i \in DOMAIN ms : ms[i].id = n

\* Requests are numbered as they are read, a message carries the number of its request, and
\* the broadcast of a message goes through the room object that keeps it.
MessagesInv ==
    /\ \A c \in Conns : Busy(c) => job[c].id \in 1 .. requests
    /\ \A c, d \in Conns : Busy(c) /\ Busy(d) /\ c # d => job[c].id # job[d].id
    /\ \A o \in RoomObjects, n \in Nat : Has(room[o].messages, n) => n <= requests
    /\ \A c \in Conns : Unstored(pc[c], job[c]) =>
          job[c].done = {} /\ ~job[c].old /\ \A o \in RoomObjects : ~Has(room[o].messages, job[c].id)
    /\ \A c \in Conns, o \in RoomObjects :
          pc[c] \in {"cast", "send"} /\ Has(room[o].messages, job[c].id) => job[c].obj = o

\* A connection is named by its first message; FindService can only be wrong about names that
\* two connections had.
NamesInv ==
    /\ \A c \in Conns : Busy(c) => c \in named
    /\ caught \subseteq named
    /\ \A c, d \in services \cap named : c # d /\ Owner[c] = Owner[d] => c \in shadowed

\* The user of a connection that was given the history is in a room that is listed.
RoomsInv ==
    /\ ~split => \A o, p \in listed : o = p
    /\ \A c \in caught : \E o \in listed : Owner[c] \in room[o].users

\* Reader d will write message m to connection c: it has yet to come to c's user, who was in
\* the room when the message was stored, or it replays m to its own connection.
Carries(d, m, c) ==
    \/ /\ job[d].id = m.id /\ Owner[c] \in job[d].start /\ ~job[d].old
       /\ \/ pc[d] = "cast" /\ Owner[c] \notin job[d].done
          \/ pc[d] = "send" /\ (job[d].to = c \/ Owner[c] \notin job[d].done)
    \/ d = c /\ pc[c] = "replaying" /\ \E i \in DOMAIN job[c].left : job[c].left[i] = m

Reached(m, c) == m.id \in written[c] \/ \E d \in Conns : Carries(d, m, c)

\* The connections the property is about.
Counts(c) == c \in caught \cap services /\ link[c] = "up" /\ c \notin shadowed /\ ~split

ReachInv ==
    \A o \in listed, c \in Conns : Counts(c) =>
        \A i \in DOMAIN room[o].messages :
            room[o].messages[i].type \in Replayed /\ room[o].messages[i].id # 0
            => Reached(room[o].messages[i], c)

\* A reader that will put a user into room object o, or take o from the list.
SeesTo(l, j, o) ==
    /\ j.obj = o
    /\ l \in {"add", "empty", "unlist"} \/ (l = "known" /\ j.type = "join-room")

EmptyInv == \A o \in listed : room[o].users = {} => \E c \in Conns : SeesTo(pc[c], job[c], o)

Inv == TypeOK /\ MessagesInv /\ NamesInv /\ RoomsInv /\ ReachInv /\ EmptyInv

-----------------------------------------------------------------------------
(* What the operators do *)

LEMMA AddMessageKeeps ==
  ASSUME NEW r \in RoomState, NEW m \in Kept
  PROVE  /\ AddMessage(r, m) \in RoomState
         /\ AddMessage(r, m).users = r.users
         /\ \A i \in DOMAIN AddMessage(r, m).messages :
               \/ AddMessage(r, m).messages[i] = m
               \/ \E k \in DOMAIN r.messages : AddMessage(r, m).messages[i] = r.messages[k]
<1>. DEFINE all == Append(r.messages, m)
            ms == IF Len(all) > MaxHistorySize
                    THEN SubSeq(all, Len(all) - MaxHistorySize + 1, Len(all)) ELSE all
<1>1. r.messages \in Seq(Kept)
  BY DEF RoomState
<1>2. all \in Seq(Kept) /\ Len(all) = Len(r.messages) + 1 /\ Len(all) \in Nat /\ DOMAIN r.messages = 1 .. Len(r.messages)
      /\ DOMAIN all = 1 .. Len(all)
      /\ \A i \in 1 .. Len(all) : all[i] = m \/ (i \in 1 .. Len(r.messages) /\ all[i] = r.messages[i])
  BY <1>1
<1>3. MaxHistorySize \in Nat /\ MaxHistorySize >= 1
  BY BoundsAssumption
<1>4. ms \in Seq(Kept) /\ \A i \in DOMAIN ms : \E k \in 1 .. Len(all) : ms[i] = all[k]
  <2>1. CASE Len(all) > MaxHistorySize
    <3>. DEFINE a == Len(all) - MaxHistorySize + 1
    <3>1. a \in 1 .. Len(all) /\ Len(all) \in 1 .. Len(all)
      BY <2>1, <1>2, <1>3
    <3>2. SubSeq(all, a, Len(all)) \in Seq(Kept) /\ DOMAIN SubSeq(all, a, Len(all)) = 1 .. Len(all) - a + 1
          /\ \A i \in 1 .. Len(all) - a + 1 : SubSeq(all, a, Len(all))[i] = all[a + i - 1]
      BY <3>1, <1>2, SubSeqProperties
    <3>3. \A i \in 1 .. Len(all) - a + 1 : a + i - 1 \in 1 .. Len(all)
      BY <3>1, <1>2
    <3>. QED  BY <2>1, <3>2, <3>3
  <2>. QED  BY <2>1, <1>2
<1>5. AddMessage(r, m) = [r EXCEPT !.messages = ms]
  BY DEF AddMessage
<1>. HIDE DEF ms, all
<1>6. AddMessage(r, m) \in RoomState /\ AddMessage(r, m).users = r.users /\ AddMessage(r, m).messages = ms
  BY <1>4, <1>5 DEF RoomState
<1>. QED  BY <1>2, <1>4, <1>6

LEMMA ResponseTyped == ASSUME TypeOK, NEW c \in Conns, Busy(c) PROVE Response(c) \in Kept /\ Response(c).id = job[c].id
<1>1. job[c] \in Jobs /\ job[c].type \in RequestTypes
  BY DEF TypeOK, Busy, Serving, Jobs
<1>. QED  BY <1>1 DEF Response, Kept, Jobs

LEMMA GotoSteps == ASSUME TypeOK, NEW c \in Conns, NEW l, Goto(c, l) PROVE Step(c, l, job[c])
BY DEF TypeOK, Goto, Step

\* The fields of a request that its steps change.
LEMMA JobFields ==
  ASSUME NEW x \in Jobs
  PROVE  /\ \A o \in 0 .. MaxRooms : [x EXCEPT !.obj = o] \in Jobs
         /\ \A b \in BOOLEAN : [x EXCEPT !.error = b] \in Jobs /\ [x EXCEPT !.silent = b] \in Jobs
                              /\ [x EXCEPT !.got = b] \in Jobs
         /\ \A u \in SUBSET Names : [x EXCEPT !.start = u] \in Jobs /\ [x EXCEPT !.done = u] \in Jobs
                                   /\ [x EXCEPT !.old = TRUE, !.gone = u] \in Jobs
         /\ \A d \in Conns : [x EXCEPT !.to = d] \in Jobs
         /\ \A m \in Seq(Kept) : [x EXCEPT !.left = m] \in Jobs
         /\ \A o \in 0 .. MaxRooms, m \in Seq(Kept) : [x EXCEPT !.obj = o, !.left = m] \in Jobs
<1>1. \A o \in 0 .. MaxRooms : [x EXCEPT !.obj = o] \in Jobs
  BY DEF Jobs
<1>2. \A b \in BOOLEAN : [x EXCEPT !.error = b] \in Jobs
  BY DEF Jobs
<1>3. \A b \in BOOLEAN : [x EXCEPT !.silent = b] \in Jobs
  BY DEF Jobs
<1>4. \A b \in BOOLEAN : [x EXCEPT !.got = b] \in Jobs
  BY DEF Jobs
<1>5. \A u \in SUBSET Names : [x EXCEPT !.start = u] \in Jobs
  BY DEF Jobs
<1>6. \A u \in SUBSET Names : [x EXCEPT !.done = u] \in Jobs
  BY DEF Jobs
<1>7. \A u \in SUBSET Names : [x EXCEPT !.old = TRUE, !.gone = u] \in Jobs
  BY DEF Jobs
<1>8. \A d \in Conns : [x EXCEPT !.to = d] \in Jobs
  BY DEF Jobs
<1>9. \A m \in Seq(Kept) : [x EXCEPT !.left = m] \in Jobs
  BY DEF Jobs
<1>10. \A o \in 0 .. MaxRooms, m \in Seq(Kept) : [x EXCEPT !.obj = o, !.left = m] \in Jobs
  BY DEF Jobs
<1>. QED  BY <1>1, <1>2, <1>3, <1>4, <1>5, <1>6, <1>7, <1>8, <1>9, <1>10

LEMMA NoJobTyped == NoJob \in Jobs
<1>1. 0 \in 0 .. MaxRooms /\ Central \in Conns
  BY BoundsAssumption, ConnsAssumption
<1>2. <<>> \in Seq(Kept)
  OBVIOUS
<1>. QED  BY <1>1, <1>2 DEF NoJob, Jobs, Names

-----------------------------------------------------------------------------
(* Types *)

MoveTypes ==
    /\ pc \in [Conns -> Places] /\ job \in [Conns -> Jobs]
    /\ \A c \in Conns : Serving(pc[c], job[c])

StateTypes ==
    /\ created \in 0 .. MaxRooms /\ listed \subseteq 1 .. created
    /\ room \in [RoomObjects -> RoomState]
    /\ readers \in [RoomObjects -> SUBSET Conns]
    /\ services \subseteq Conns /\ named \subseteq Conns /\ caught \subseteq Conns
    /\ shadowed \subseteq Conns /\ split \in BOOLEAN
    /\ link \in [Conns -> {"up", "down"}] /\ writer \in [Conns -> BOOLEAN]
    /\ requests \in Nat /\ written \in [Conns -> SUBSET Nat]

LEMMA TypeParts == TypeOK <=> MoveTypes /\ StateTypes
BY DEF TypeOK, MoveTypes, StateTypes

LEMMA StepTypes ==
  ASSUME TypeOK, NEW c \in Conns, NEW l \in Places, NEW j \in Jobs, Serving(l, j), Step(c, l, j)
  PROVE  MoveTypes'
BY DEF TypeOK, MoveTypes, Step

\* What GetRoom finds.
LEMMA RoomsFound ==
  ASSUME TypeOK, NEW o \in GetRoom
  PROVE  o \in 0 .. MaxRooms /\ (o # 0 <=> o \in listed) /\ (o # 0 => o \in RoomObjects)
BY BoundsAssumption DEF TypeOK, GetRoom, RoomObjects

-----------------------------------------------------------------------------
(* A reader goes on *)

\* Reader c goes to place l with request x, which is the one it has served so far; it does not
\* come to a broadcast, and what it has not stored yet it has not stored before.
Advances(c, l, x) ==
    /\ c \in Conns /\ Busy(c) /\ l \in Places /\ x \in Jobs /\ Serving(l, x) /\ Step(c, l, x)
    /\ l # "idle" => x.id = job[c].id /\ x.type = job[c].type
    /\ Unstored(l, x) => Unstored(pc[c], job[c]) /\ x.done = job[c].done /\ x.old = job[c].old
    /\ l \in {"cast", "send"} => pc[c] \in {"cast", "send"} /\ x.obj = job[c].obj

SameMessages == \A o \in RoomObjects : room'[o].messages = room[o].messages

LEMMA StepAt ==
  ASSUME TypeOK, NEW c \in Conns, NEW l, NEW x, Step(c, l, x)
  PROVE  /\ pc'[c] = l /\ job'[c] = x
         /\ \A d \in Conns \ {c} : pc'[d] = pc[d] /\ job'[d] = job[d]
BY DEF TypeOK, Step

LEMMA MessagesFrame ==
  ASSUME TypeOK, MessagesInv, NEW c, NEW l, NEW x, Advances(c, l, x), SameMessages, UNCHANGED requests
  PROVE  MessagesInv'
<1>1. c \in Conns /\ pc'[c] = l /\ job'[c] = x /\ \A d \in Conns \ {c} : pc'[d] = pc[d] /\ job'[d] = job[d]
  BY StepAt DEF Advances
<1>2. Busy(c) /\ (l \notin {"idle", "ended"} => x.id = job[c].id)
  BY DEF Advances
<1>3. \A d \in Conns \ {c} : Busy(d)' <=> Busy(d)
  BY <1>1 DEF Busy
<1>4. (\A d \in Conns : Busy(d) => job[d].id \in 1 .. requests)'
  BY <1>1, <1>2, <1>3 DEF MessagesInv, Busy
<1>5. (\A b, d \in Conns : Busy(b) /\ Busy(d) /\ b # d => job[b].id # job[d].id)'
  BY <1>1, <1>2, <1>3 DEF MessagesInv, Busy
<1>6. (\A o \in RoomObjects, n \in Nat : Has(room[o].messages, n) => n <= requests)'
  BY DEF MessagesInv, SameMessages
<1>7. ASSUME NEW d \in Conns, Unstored(pc'[d], job'[d])
      PROVE  job'[d].done = {} /\ ~job'[d].old /\ \A o \in RoomObjects : ~Has(room'[o].messages, job'[d].id)
  <2>1. CASE d = c
    <3>1. Unstored(l, x) /\ l # "idle"
      BY <1>1, <1>7, <2>1 DEF Unstored
    <3>2. Unstored(pc[c], job[c]) /\ x.done = job[c].done /\ x.old = job[c].old /\ x.id = job[c].id
      BY <3>1 DEF Advances
    <3>. QED  BY <1>1, <2>1, <3>2 DEF MessagesInv, SameMessages
  <2>2. CASE d # c
    BY <1>1, <1>7, <2>2 DEF MessagesInv, SameMessages
  <2>. QED  BY <2>1, <2>2
<1>8. ASSUME NEW d \in Conns, NEW o \in RoomObjects, pc'[d] \in {"cast", "send"}, Has(room'[o].messages, job'[d].id)
      PROVE  job'[d].obj = o
  <2>1. CASE d = c
    BY <1>1, <1>8, <2>1 DEF MessagesInv, Advances, SameMessages
  <2>2. CASE d # c
    BY <1>1, <1>8, <2>2 DEF MessagesInv, SameMessages
  <2>. QED  BY <2>1, <2>2
<1>9. (\A d \in Conns : Unstored(pc[d], job[d]) =>
           job[d].done = {} /\ ~job[d].old /\ \A o \in RoomObjects : ~Has(room[o].messages, job[d].id))'
  BY <1>7
<1>10. (\A d \in Conns, o \in RoomObjects : pc[d] \in {"cast", "send"} /\ Has(room[o].messages, job[d].id) => job[d].obj = o)'
  BY <1>8
<1>. QED  BY <1>4, <1>5, <1>6, <1>9, <1>10 DEF MessagesInv

LEMMA NamesFrame ==
  ASSUME TypeOK, NamesInv, NEW c, NEW l, NEW x, Advances(c, l, x), caught' \subseteq caught \cup {c},
         named' = named, services' \subseteq services, shadowed \subseteq shadowed'
  PROVE  NamesInv'
<1>1. c \in Conns /\ Busy(c) /\ \A d \in Conns \ {c} : pc'[d] = pc[d]
  BY StepAt DEF Advances
<1>. QED  BY <1>1 DEF NamesInv, Busy

LEMMA RoomsFrame ==
  ASSUME RoomsInv, listed' = listed, split' = split, caught' \subseteq caught,
         \A o \in listed : room[o].users \subseteq room'[o].users
  PROVE  RoomsInv'
BY DEF RoomsInv

\* Message m is replayed, and kept in a room that is listed.
InHistory(m) == m.type \in Replayed /\ \E o \in listed : Has(room[o].messages, m.id)

\* Nothing that is on its way is forgotten.
LEMMA ReachFrame ==
  ASSUME TypeOK, ReachInv, SameMessages, listed' \subseteq listed, caught' \subseteq caught, services' \subseteq services,
         \A c \in Conns : link'[c] = "up" => link[c] = "up",
         shadowed \subseteq shadowed', ~split' => ~split,
         \A c \in Conns : written[c] \subseteq written'[c],
         \A m \in Kept, c \in Conns : InHistory(m) /\ Counts(c)' =>
             \A d \in Conns : Carries(d, m, c) => Reached(m, c)'
  PROVE  ReachInv'
<1>. SUFFICES ASSUME NEW o \in listed', NEW c \in Conns, Counts(c)', NEW i \in DOMAIN room'[o].messages,
                     NEW m, m = room'[o].messages[i], m.type \in Replayed, m.id # 0
              PROVE  Reached(m, c)'
  BY DEF ReachInv
<1>1. o \in listed /\ o \in RoomObjects
  BY BoundsAssumption DEF TypeOK, RoomObjects
<1>2. room[o].messages = room'[o].messages /\ room[o].messages \in Seq(Kept)
  BY <1>1 DEF SameMessages, TypeOK, RoomState
<1>3. m \in Kept /\ i \in DOMAIN room[o].messages /\ m = room[o].messages[i]
  BY <1>2
<1>4. Counts(c)
  BY DEF Counts
<1>5. Reached(m, c)
  BY <1>1, <1>3, <1>4 DEF ReachInv
<1>6. InHistory(m)
  BY <1>1, <1>3 DEF InHistory, Has
<1>. QED  BY <1>3, <1>5, <1>6 DEF Reached

\* A reader that is neither in a broadcast nor in a replay carries nothing.
LEMMA CarriesStay ==
  ASSUME TypeOK, NEW c, NEW l, NEW x, c \in Conns, Step(c, l, x), pc[c] \notin {"cast", "send", "replaying"}
  PROVE  \A m \in Kept, e, d \in Conns : Carries(d, m, e) => Carries(d, m, e)'
<1>1. \A d \in Conns \ {c} : pc'[d] = pc[d] /\ job'[d] = job[d]
  BY StepAt
<1>2. \A m \in Kept, e \in Conns : ~Carries(c, m, e)
  BY DEF Carries
<1>3. \A m \in Kept, e, d \in Conns : d # c /\ Carries(d, m, e) => Carries(d, m, e)'
  BY <1>1 DEF Carries
<1>. QED  BY <1>2, <1>3

LEMMA EmptyFrame ==
  ASSUME TypeOK, EmptyInv, NEW c, NEW l, NEW x, c \in Conns, Step(c, l, x), listed' \subseteq listed,
         \A o \in listed' : room'[o].users = {} =>
             \/ SeesTo(l, x, o)
             \/ room[o].users = {} /\ ~SeesTo(pc[c], job[c], o)
  PROVE  EmptyInv'
<1>1. pc'[c] = l /\ job'[c] = x /\ \A d \in Conns \ {c} : pc'[d] = pc[d] /\ job'[d] = job[d]
  BY StepAt
<1>. SUFFICES ASSUME NEW o \in listed', room'[o].users = {}
              PROVE  \E d \in Conns : SeesTo(pc'[d], job'[d], o)
  BY DEF EmptyInv
<1>2. CASE SeesTo(l, x, o)
  BY <1>1, <1>2
<1>3. CASE room[o].users = {} /\ ~SeesTo(pc[c], job[c], o)
  <2>1. PICK d \in Conns : SeesTo(pc[d], job[d], o)
    BY <1>3 DEF EmptyInv
  <2>. QED  BY <1>1, <1>3, <2>1
<1>. QED  BY <1>2, <1>3

\* A step of the reader alone, outside of broadcasts and replays.
LEMMA AloneOK ==
  ASSUME Inv, NEW c, NEW l, NEW x, Advances(c, l, x), UNCHANGED <<chat, net, requests, ghost>>,
         pc[c] \notin {"cast", "send", "replaying"},
         \A o \in listed : room[o].users = {} /\ SeesTo(pc[c], job[c], o) => SeesTo(l, x, o)
  PROVE  Inv'
<1>0. TypeOK /\ MessagesInv /\ NamesInv /\ RoomsInv /\ ReachInv /\ EmptyInv
  BY DEF Inv
<1>1. c \in Conns /\ Step(c, l, x) /\ l \in Places /\ x \in Jobs /\ Serving(l, x)
  BY DEF Advances
<1>2. UNCHANGED <<listed, room, created, readers, services, link, writer, named, requests, written, caught, shadowed, split>>
  BY DEF chat, net, ghost
<1>3. TypeOK'
  <2>1. StateTypes'
    BY <1>0, <1>2, TypeParts DEF StateTypes
  <2>2. MoveTypes'
    BY <1>0, <1>1, StepTypes
  <2>. QED  BY <2>1, <2>2, TypeParts, PTL
<1>4. SameMessages
  BY <1>2 DEF SameMessages
<1>5. MessagesInv'
  BY <1>0, <1>2, <1>4, MessagesFrame
<1>6. NamesInv'
  BY <1>0, <1>2, NamesFrame
<1>7. RoomsInv'
  BY <1>0, <1>2, RoomsFrame
<1>8. ReachInv'
  <2>1. \A m \in Kept, e, d \in Conns : Carries(d, m, e) => Reached(m, e)'
    BY <1>0, <1>1, CarriesStay DEF Reached
  <2>. QED  BY <1>0, <1>2, <1>4, <2>1, ReachFrame
<1>9. EmptyInv'
  BY <1>0, <1>1, <1>2, EmptyFrame
<1>. QED  BY <1>3, <1>5, <1>6, <1>7, <1>8, <1>9 DEF Inv

-----------------------------------------------------------------------------
(* Requests before their response *)

LEMMA Parts == Inv => TypeOK /\ MessagesInv /\ NamesInv /\ RoomsInv /\ ReachInv /\ EmptyInv
BY DEF Inv

\* The request with another field, and everything else as it was.
LEMMA JobSame ==
  ASSUME NEW y \in Jobs
  PROVE  /\ \A o \in 0 .. MaxRooms : \E x \in Jobs :
               /\ x = [y EXCEPT !.obj = o]
               /\ x.obj = o /\ x.id = y.id /\ x.type = y.type /\ x.done = y.done /\ x.old = y.old
         /\ \A b \in BOOLEAN : \E x \in Jobs :
               /\ x = [y EXCEPT !.error = b]
               /\ x.obj = y.obj /\ x.id = y.id /\ x.type = y.type /\ x.done = y.done /\ x.old = y.old
         /\ \A b \in BOOLEAN : \E x \in Jobs :
               /\ x = [y EXCEPT !.silent = b]
               /\ x.obj = y.obj /\ x.id = y.id /\ x.type = y.type /\ x.done = y.done /\ x.old = y.old
<1>1. ASSUME NEW o \in 0 .. MaxRooms
      PROVE  \E x \in Jobs : /\ x = [y EXCEPT !.obj = o]
                             /\ x.obj = o /\ x.id = y.id /\ x.type = y.type /\ x.done = y.done /\ x.old = y.old
  <2>1. PICK x \in Jobs : x = [y EXCEPT !.obj = o]
    BY JobFields
  <2>. QED  BY <2>1 DEF Jobs
<1>2. ASSUME NEW b \in BOOLEAN
      PROVE  \E x \in Jobs : /\ x = [y EXCEPT !.error = b]
                             /\ x.obj = y.obj /\ x.id = y.id /\ x.type = y.type /\ x.done = y.done /\ x.old = y.old
  <2>1. PICK x \in Jobs : x = [y EXCEPT !.error = b]
    BY JobFields
  <2>. QED  BY <2>1 DEF Jobs
<1>3. ASSUME NEW b \in BOOLEAN
      PROVE  \E x \in Jobs : /\ x = [y EXCEPT !.silent = b]
                             /\ x.obj = y.obj /\ x.id = y.id /\ x.type = y.type /\ x.done = y.done /\ x.old = y.old
  <2>1. PICK x \in Jobs : x = [y EXCEPT !.silent = b]
    BY JobFields
  <2>. QED  BY <2>1 DEF Jobs
<1>. QED  BY <1>1, <1>2, <1>3

\* The request is refused.
LEMMA RefuseAdvances ==
  ASSUME TypeOK, NEW c \in Conns, Busy(c), Refuse(c)
  PROVE  \E x \in Jobs : Advances(c, "answer", x)
<1>1. job[c] \in Jobs /\ job[c].type # "none"
  BY DEF TypeOK, Busy, Serving
<1>2. PICK x \in Jobs : x = [job[c] EXCEPT !.error = TRUE] /\ x.id = job[c].id /\ x.type = job[c].type
  BY <1>1, JobSame
<1>. QED  BY <1>1, <1>2 DEF Refuse, Advances, Serving, Places, Unstored

\* The reader goes on with the request as it is.
LEMMA GotoAdvances ==
  ASSUME TypeOK, NEW c \in Conns, Busy(c), NEW l \in Places, Serving(l, job[c]), Goto(c, l),
         Unstored(l, job[c]) => Unstored(pc[c], job[c]), l \notin {"cast", "send"}
  PROVE  Advances(c, l, job[c])
BY GotoSteps DEF TypeOK, Advances

\* The request is finished.
LEMMA DoneAdvances == ASSUME TypeOK, NEW c \in Conns, Busy(c), Done(c) PROVE Advances(c, "idle", NoJob)
BY NoJobTyped DEF Done, Advances, Serving, Places, Unstored, NoJob

LEMMA FinishAdvances ==
  ASSUME TypeOK, NEW c \in Conns, Busy(c), Finish(c)
  PROVE  \E l \in {"idle", "expire"}, x \in Jobs : Advances(c, l, x)
<1>1. CASE job[c].type = "room-expired" /\ ~job[c].error
  <2>1. Goto(c, "expire") /\ job[c] \in Jobs /\ Serving("expire", job[c])
    BY <1>1 DEF Finish, TypeOK, Serving
  <2>. QED  BY <2>1, GotoAdvances DEF Places, Unstored
<1>2. CASE ~(job[c].type = "room-expired" /\ ~job[c].error)
  BY <1>2, DoneAdvances, NoJobTyped DEF Finish
<1>. QED  BY <1>1, <1>2

LEMMA FindOK == ASSUME Inv, NEW c \in Conns, Find(c) PROVE Inv'
<1>1. PICK o \in GetRoom :
          LET found == [job[c] EXCEPT !.obj = o]
          IN  CASE job[c].type = "join-room" -> Step(c, IF o = 0 THEN "create" ELSE "known", found)
                [] job[c].type \in {"leave-room", "chat-message"} ->
                       IF o = 0 THEN Refuse(c) ELSE Step(c, "known", found)
                [] OTHER -> Step(c, IF o = 0 THEN "look" ELSE "round", found)
  BY DEF Find
<1>2. UNCHANGED <<chat, net, requests, ghost>> /\ pc[c] = "find"
  BY DEF Find, At
<1>3. TypeOK /\ o \in 0 .. MaxRooms /\ Busy(c) /\ Serving("find", job[c]) /\ job[c] \in Jobs
  BY <1>2, Parts, RoomsFound DEF Busy, TypeOK
<1>4. PICK x \in Jobs : x = [job[c] EXCEPT !.obj = o] /\ x.obj = o /\ x.id = job[c].id /\ x.type = job[c].type
                        /\ x.done = job[c].done /\ x.old = job[c].old
  BY <1>3, JobSame
<1>5. \/ \E l \in {"create", "known", "look", "round"} : Step(c, l, x) /\ Serving(l, x)
      \/ Refuse(c)
  BY <1>1, <1>3, <1>4 DEF Serving, RoundTypes
<1>6. \E l, z : Advances(c, l, z)
  <2>1. CASE Refuse(c)
    BY <1>3, <2>1, RefuseAdvances
  <2>2. ASSUME NEW l \in {"create", "known", "look", "round"}, Step(c, l, x), Serving(l, x) PROVE Advances(c, l, x)
    BY <1>2, <1>3, <1>4, <2>2 DEF Advances, Places, Unstored
  <2>. QED  BY <1>5, <2>1, <2>2
<1>7. \A z \in listed : ~SeesTo(pc[c], job[c], z)
  BY <1>2 DEF SeesTo
<1>. QED  BY <1>2, <1>6, <1>7, AloneOK

LEMMA UserKnownOK == ASSUME Inv, NEW c \in Conns, UserKnown(c) PROVE Inv'
<1>1. UNCHANGED <<chat, net, requests, ghost>> /\ pc[c] = "known" /\ job[c].type # "join-room"
  BY DEF UserKnown, At
<1>2. TypeOK /\ Busy(c) /\ Serving("known", job[c])
  BY <1>1, Parts DEF Busy, TypeOK
<1>3. Refuse(c) \/ \E l \in {"remove", "look"} : Goto(c, l) /\ Serving(l, job[c])
  BY <1>2 DEF UserKnown, Serving
<1>4. \E l, x : Advances(c, l, x)
  <2>1. CASE Refuse(c)
    BY <1>2, <2>1, RefuseAdvances
  <2>2. ASSUME NEW l \in {"remove", "look"}, Goto(c, l), Serving(l, job[c]) PROVE Advances(c, l, job[c])
    BY <1>1, <1>2, <2>2, GotoAdvances DEF Places, Unstored
  <2>. QED  BY <1>3, <2>1, <2>2
<1>5. \A o \in listed : ~SeesTo(pc[c], job[c], o)
  BY <1>1 DEF SeesTo
<1>. QED  BY <1>1, <1>4, <1>5, AloneOK

LEMMA IsEmptyOK == ASSUME Inv, NEW c \in Conns, IsEmpty(c) PROVE Inv'
<1>1. UNCHANGED <<chat, net, requests, ghost>> /\ pc[c] = "empty"
  BY DEF IsEmpty, At
<1>2. TypeOK /\ Busy(c) /\ Serving("empty", job[c])
  BY <1>1, Parts DEF Busy, TypeOK
<1>3. PICK l \in {"unlist", "look"} : Goto(c, l) /\ (l = "look" => room[job[c].obj].users # {}) /\ Serving(l, job[c])
  BY <1>2 DEF IsEmpty, Serving
<1>4. Advances(c, l, job[c])
  BY <1>1, <1>2, <1>3, GotoAdvances DEF Places, Unstored
<1>5. \A o \in listed : room[o].users = {} /\ SeesTo(pc[c], job[c], o) => SeesTo(l, job[c], o)
  BY <1>1, <1>3 DEF SeesTo
<1>. QED  BY <1>1, <1>4, <1>5, AloneOK

LEMMA LookOK == ASSUME Inv, NEW c \in Conns, Look(c) PROVE Inv'
<1>1. UNCHANGED <<chat, net, requests, ghost>> /\ pc[c] = "look"
  BY DEF Look, At
<1>2. TypeOK /\ Busy(c) /\ Serving("look", job[c]) /\ job[c] \in Jobs
  BY <1>1, Parts DEF Busy, TypeOK
<1>3. PICK o \in GetRoom, l \in {"answer", "store"} :
          Step(c, l, [job[c] EXCEPT !.obj = o]) /\ (l = "store" => o # 0)
  BY DEF Look
<1>4. o \in 0 .. MaxRooms
  BY <1>2, RoomsFound
<1>5. PICK x \in Jobs : x = [job[c] EXCEPT !.obj = o] /\ x.obj = o /\ x.id = job[c].id /\ x.type = job[c].type
                        /\ x.done = job[c].done /\ x.old = job[c].old
  BY <1>2, <1>4, JobSame
<1>6. Serving(l, x)
  BY <1>2, <1>3, <1>5 DEF Serving
<1>7. Advances(c, l, x)
  BY <1>1, <1>2, <1>3, <1>5, <1>6 DEF Advances, Places, Unstored
<1>8. \A z \in listed : ~SeesTo(pc[c], job[c], z)
  BY <1>1 DEF SeesTo
<1>. QED  BY <1>1, <1>7, <1>8, AloneOK

-----------------------------------------------------------------------------
(* Changes of a room object other than its messages *)

LEMMA RoomFields ==
  ASSUME NEW r \in RoomState
  PROVE  /\ \A u \in SUBSET Names : \E y \in RoomState :
               y = [r EXCEPT !.users = u] /\ y.users = u /\ y.messages = r.messages
         /\ \A b \in BOOLEAN : \E y \in RoomState :
               y = [r EXCEPT !.filter = b] /\ y.users = r.users /\ y.messages = r.messages
         /\ \A q \in RoundState : \E y \in RoomState :
               y = [r EXCEPT !.round = q] /\ y.users = r.users /\ y.messages = r.messages
<1>1. \A u \in SUBSET Names : [r EXCEPT !.users = u] \in RoomState
  BY DEF RoomState
<1>2. \A b \in BOOLEAN : [r EXCEPT !.filter = b] \in RoomState
  BY DEF RoomState
<1>3. \A q \in RoundState : [r EXCEPT !.round = q] \in RoomState
  BY DEF RoomState
<1>. QED  BY <1>1, <1>2, <1>3 DEF RoomState

LEMMA RoomChangeOK ==
  ASSUME Inv, NEW c, NEW l, NEW x, Advances(c, l, x), pc[c] \notin {"cast", "send", "replaying"},
         NEW o \in RoomObjects, NEW r \in RoomState, room' = [room EXCEPT ![o] = r],
         r.messages = room[o].messages,
         UNCHANGED <<listed, created, readers, net, requests, written, shadowed, split>>,
         caught' \subseteq caught,
         \A d \in caught' : Owner[d] \in room[o].users => Owner[d] \in r.users,
         \A p \in listed : SeesTo(pc[c], job[c], p) /\ p # o => SeesTo(l, x, p),
         r.users = {} => SeesTo(l, x, o) \/ (room[o].users = {} /\ ~SeesTo(pc[c], job[c], o))
  PROVE  Inv'
<1>0. TypeOK /\ MessagesInv /\ NamesInv /\ RoomsInv /\ ReachInv /\ EmptyInv
  BY Parts
<1>1. c \in Conns /\ Step(c, l, x) /\ l \in Places /\ x \in Jobs /\ Serving(l, x)
  BY DEF Advances
<1>2. UNCHANGED <<services, link, writer, named>>
  BY DEF net
<1>3. room'[o] = r /\ (\A p \in RoomObjects \ {o} : room'[p] = room[p]) /\ room' \in [RoomObjects -> RoomState]
      /\ listed \subseteq RoomObjects
  BY <1>0, BoundsAssumption DEF TypeOK, RoomObjects
<1>4. TypeOK'
  <2>1. StateTypes'
    BY <1>0, <1>2, <1>3, TypeParts DEF StateTypes
  <2>2. MoveTypes'
    BY <1>0, <1>1, StepTypes
  <2>. QED  BY <2>1, <2>2, TypeParts, PTL
<1>5. SameMessages
  BY <1>3 DEF SameMessages
<1>6. MessagesInv'
  BY <1>0, <1>5, MessagesFrame
<1>7. NamesInv'
  BY <1>0, <1>2, NamesFrame
<1>8. RoomsInv'
  <2>1. ASSUME NEW d \in caught' PROVE \E p \in listed' : Owner[d] \in room'[p].users
    <3>1. PICK p \in listed : Owner[d] \in room[p].users
      BY <1>0, <2>1 DEF RoomsInv
    <3>. QED  BY <1>3, <2>1, <3>1
  <2>. QED  BY <1>0, <2>1 DEF RoomsInv
<1>9. ReachInv'
  <2>1. \A m \in Kept, e, d \in Conns : Carries(d, m, e) => Reached(m, e)'
    BY <1>0, <1>1, CarriesStay DEF Reached
  <2>. QED  BY <1>0, <1>2, <1>5, <2>1, ReachFrame
<1>10. EmptyInv'
  <2>1. ASSUME NEW p \in listed', room'[p].users = {}
        PROVE  SeesTo(l, x, p) \/ (room[p].users = {} /\ ~SeesTo(pc[c], job[c], p))
    BY <1>3, <2>1
  <2>. QED  BY <1>0, <1>1, <2>1, EmptyFrame
<1>. QED  BY <1>4, <1>6, <1>7, <1>8, <1>9, <1>10 DEF Inv

LEMMA ObjTyped ==
  ASSUME TypeOK, NEW c \in Conns, Serving(pc[c], job[c]) => job[c].obj # 0
  PROVE  job[c].obj \in RoomObjects /\ room[job[c].obj] \in RoomState
BY BoundsAssumption DEF TypeOK, Jobs, RoomObjects

LEMMA JoinKnownOK == ASSUME Inv, NEW c \in Conns, JoinKnown(c) PROVE Inv'
<1>1. pc[c] = "known" /\ job[c].type = "join-room"
      /\ UNCHANGED <<listed, created, readers, net, requests, ghost>>
  BY DEF JoinKnown, At
<1>2. TypeOK /\ Busy(c) /\ Serving("known", job[c]) /\ job[c] \in Jobs
  BY <1>1, Parts DEF Busy, TypeOK
<1>3. PICK o \in RoomObjects : o = job[c].obj /\ room[o] \in RoomState
  BY <1>1, <1>2, ObjTyped DEF Serving
<1>4. PICK b \in BOOLEAN : b = (job[c].silent \/ job[c].user \in room[job[c].obj].users)
  BY Zenon
<1>5. PICK x \in Jobs : x = [job[c] EXCEPT !.silent = b] /\ x.obj = job[c].obj /\ x.id = job[c].id
                        /\ x.type = job[c].type /\ x.done = job[c].done /\ x.old = job[c].old
  BY <1>2, JobSame
<1>6. Step(c, "add", x)
  BY <1>4, <1>5 DEF JoinKnown
<1>7. Advances(c, "add", x)
  BY <1>1, <1>2, <1>3, <1>5, <1>6, BoundsAssumption DEF Advances, Places, Unstored, Serving, RoomObjects
<1>8. PICK r \in RoomState : room' = [room EXCEPT ![o] = r] /\ r.users = room[o].users /\ r.messages = room[o].messages
  <2>1. CASE c = Central
    <3>1. PICK r \in RoomState : r = [room[o] EXCEPT !.filter = ProfanityFilter] /\ r.users = room[o].users
                                 /\ r.messages = room[o].messages
      BY <1>3, RoomFields, FilterAssumption
    <3>. QED  BY <2>1, <3>1, <1>3 DEF JoinKnown
  <2>2. CASE c # Central
    BY <2>2, <1>2, <1>3 DEF JoinKnown, TypeOK
  <2>. QED  BY <2>1, <2>2
<1>9. \A p : SeesTo("known", job[c], p) => SeesTo("add", x, p)
  BY <1>5 DEF SeesTo
<1>10. SeesTo("add", x, o)
  BY <1>3, <1>5 DEF SeesTo
<1>11. UNCHANGED <<written, caught, shadowed, split>>
  BY <1>1 DEF ghost
<1>12. pc[c] \notin {"cast", "send", "replaying"} /\ caught' \subseteq caught
  BY <1>1, <1>11
<1>13. \A d \in caught' : Owner[d] \in room[o].users => Owner[d] \in r.users
  BY <1>1, <1>8, <1>9, <1>10
<1>14. \A p \in listed : SeesTo(pc[c], job[c], p) /\ p # o => SeesTo("add", x, p)
  BY <1>1, <1>8, <1>9, <1>10
<1>15. r.users = {} => SeesTo("add", x, o) \/ (room[o].users = {} /\ ~SeesTo(pc[c], job[c], o))
  BY <1>1, <1>8, <1>9, <1>10
<1>. QED  BY <1>1, <1>7, <1>8, <1>11, <1>12, <1>13, <1>14, <1>15, RoomChangeOK

LEMMA AddUserOK == ASSUME Inv, NEW c \in Conns, AddUser(c) PROVE Inv'
<1>1. pc[c] = "add" /\ UNCHANGED <<listed, created, readers, net, requests, ghost>> /\ Goto(c, "replay")
  BY DEF AddUser, At
<1>2. TypeOK /\ Busy(c) /\ Serving("add", job[c]) /\ job[c] \in Jobs
  BY <1>1, Parts DEF Busy, TypeOK
<1>3. PICK o \in RoomObjects : o = job[c].obj /\ room[o] \in RoomState
  BY <1>1, <1>2, ObjTyped DEF Serving
<1>4. job[c].user \in Names /\ room[o].users \in SUBSET Names
  BY <1>2, <1>3 DEF Jobs, RoomState
<1>5. PICK r \in RoomState : r = [room[o] EXCEPT !.users = room[o].users \cup {job[c].user}]
          /\ r.users = room[o].users \cup {job[c].user} /\ r.messages = room[o].messages
  <2>1. room[o].users \cup {job[c].user} \in SUBSET Names
    BY <1>4
  <2>. QED  BY <1>3, <2>1, RoomFields
<1>6. room' = [room EXCEPT ![o] = r]
  BY <1>3, <1>5 DEF AddUser
<1>7. Advances(c, "replay", job[c])
  BY <1>1, <1>2, GotoAdvances DEF Places, Unstored, Serving
<1>8. UNCHANGED <<written, caught, shadowed, split>>
  BY <1>1 DEF ghost
<1>9. \A p : SeesTo("add", job[c], p) => p = o
  BY <1>3 DEF SeesTo
<1>10. r.users # {} /\ room[o].users \subseteq r.users
  BY <1>5
<1>11. pc[c] \notin {"cast", "send", "replaying"} /\ caught' \subseteq caught
  BY <1>1, <1>8
<1>12. \A d \in caught' : Owner[d] \in room[o].users => Owner[d] \in r.users
  BY <1>1, <1>9, <1>10
<1>13. \A p \in listed : SeesTo(pc[c], job[c], p) /\ p # o => SeesTo("replay", job[c], p)
  BY <1>1, <1>9, <1>10
<1>14. r.users = {} => SeesTo("replay", job[c], o) \/ (room[o].users = {} /\ ~SeesTo(pc[c], job[c], o))
  BY <1>1, <1>9, <1>10
<1>15. r.messages = room[o].messages
  BY <1>5
<1>. QED  BY <1>1, <1>6, <1>7, <1>8, <1>11, <1>12, <1>13, <1>14, <1>15, RoomChangeOK

LEMMA RemoveUserOK == ASSUME Inv, NEW c \in Conns, RemoveUser(c) PROVE Inv'
<1>1. /\ pc[c] = "remove" /\ UNCHANGED <<listed, created, readers, net, requests, written, shadowed, split>>
      /\ Goto(c, "empty") /\ caught' = {d \in caught : Owner[d] # job[c].user}
  BY DEF RemoveUser, At
<1>2. TypeOK /\ Busy(c) /\ Serving("remove", job[c]) /\ job[c] \in Jobs
  BY <1>1, Parts DEF Busy, TypeOK
<1>3. PICK o \in RoomObjects : o = job[c].obj /\ room[o] \in RoomState
  BY <1>1, <1>2, ObjTyped DEF Serving
<1>4. room[o].users \in SUBSET Names
  BY <1>3 DEF RoomState
<1>5. PICK r \in RoomState : r = [room[o] EXCEPT !.users = room[o].users \ {job[c].user}]
          /\ r.users = room[o].users \ {job[c].user} /\ r.messages = room[o].messages
  BY <1>3, <1>4, RoomFields
<1>6. room' = [room EXCEPT ![o] = r]
  BY <1>3, <1>5 DEF RemoveUser
<1>7. Advances(c, "empty", job[c])
  BY <1>1, <1>2, GotoAdvances DEF Places, Unstored, Serving
<1>8. SeesTo("empty", job[c], o) /\ \A p : ~SeesTo("remove", job[c], p)
  BY <1>3 DEF SeesTo
<1>9. pc[c] \notin {"cast", "send", "replaying"} /\ caught' \subseteq caught
  BY <1>1
<1>10. \A d \in caught' : Owner[d] \in room[o].users => Owner[d] \in r.users
  BY <1>1, <1>5, <1>8
<1>11. \A p \in listed : SeesTo(pc[c], job[c], p) /\ p # o => SeesTo("empty", job[c], p)
  BY <1>1, <1>5, <1>8
<1>12. r.users = {} => SeesTo("empty", job[c], o) \/ (room[o].users = {} /\ ~SeesTo(pc[c], job[c], o))
  BY <1>1, <1>5, <1>8
<1>13. r.messages = room[o].messages
  BY <1>5
<1>14. UNCHANGED <<listed, created, readers, net, requests, written, shadowed, split>>
  BY <1>1
<1>. QED  BY <1>6, <1>7, <1>9, <1>10, <1>11, <1>12, <1>13, <1>14, RoomChangeOK

LEMMA RoundOK == ASSUME Inv, NEW c \in Conns, Round(c) PROVE Inv'
<1>1. pc[c] = "round" /\ UNCHANGED <<listed, created, readers, net, requests, ghost>>
  BY DEF Round, At
<1>2. TypeOK /\ Busy(c) /\ Serving("round", job[c]) /\ job[c] \in Jobs
  BY <1>1, Parts DEF Busy, TypeOK
<1>3. PICK o \in RoomObjects : o = job[c].obj /\ room[o] \in RoomState
  BY <1>1, <1>2, ObjTyped DEF Serving
<1>4. job[c].type \in RoundTypes /\ job[c].user \in Names /\ room[o].round \in RoundState
  BY <1>2, <1>3 DEF Serving, Jobs, RoomState
<1>5. PICK q \in RoundState : room' = [room EXCEPT ![o].round = q]
  <2>1. room' = [room EXCEPT ![o].round = RoundAfter(room[o].round, job[c].type, job[c].user)]
    BY <1>3 DEF Round
  <2>2. RoundAfter(room[o].round, job[c].type, job[c].user) \in RoundState
    BY <1>4 DEF RoundState, RoundAfter
  <2>. QED  BY <2>1, <2>2
<1>6. PICK r \in RoomState : r = [room[o] EXCEPT !.round = q] /\ r.users = room[o].users /\ r.messages = room[o].messages
  BY <1>3, RoomFields
<1>7. room' = [room EXCEPT ![o] = r]
  BY <1>5, <1>6
<1>8. PICK l \in {"line", "look"} : Goto(c, l) /\ Serving(l, job[c])
  BY <1>2 DEF Round, Serving
<1>9. Advances(c, l, job[c])
  BY <1>1, <1>2, <1>8, GotoAdvances DEF Places, Unstored
<1>10. \A p : ~SeesTo("round", job[c], p)
  BY DEF SeesTo
<1>11. UNCHANGED <<written, caught, shadowed, split>>
  BY <1>1 DEF ghost
<1>12. pc[c] \notin {"cast", "send", "replaying"} /\ caught' \subseteq caught
  BY <1>1, <1>11
<1>13. \A d \in caught' : Owner[d] \in room[o].users => Owner[d] \in r.users
  BY <1>1, <1>6, <1>10
<1>14. \A p \in listed : SeesTo(pc[c], job[c], p) /\ p # o => SeesTo(l, job[c], p)
  BY <1>1, <1>6, <1>10
<1>15. r.users = {} => SeesTo(l, job[c], o) \/ (room[o].users = {} /\ ~SeesTo(pc[c], job[c], o))
  BY <1>1, <1>6, <1>10
<1>. QED  BY <1>1, <1>6, <1>7, <1>9, <1>11, <1>12, <1>13, <1>14, <1>15, RoomChangeOK

-----------------------------------------------------------------------------
(* The list of rooms *)

LEMMA CreateRoomOK == ASSUME Inv, NEW c \in Conns, CreateRoom(c) PROVE Inv'
<1>0. TypeOK /\ MessagesInv /\ NamesInv /\ RoomsInv /\ ReachInv /\ EmptyInv
  BY Parts
<1>1. /\ pc[c] = "create" /\ created < MaxRooms /\ created' = created + 1
      /\ listed' = listed \cup {created'} /\ split' = (split \/ listed # {})
      /\ UNCHANGED <<room, readers, net, requests, written, caught, shadowed>>
  BY DEF CreateRoom, At
<1>2. UNCHANGED <<services, link, writer, named>>
  BY <1>1 DEF net
<1>3. Busy(c) /\ Serving("create", job[c]) /\ job[c] \in Jobs
  BY <1>0, <1>1 DEF Busy, TypeOK
<1>4. PICK o \in RoomObjects : o = created + 1
  BY <1>0, <1>1, BoundsAssumption DEF TypeOK, RoomObjects
<1>5. PICK x \in Jobs : x = [job[c] EXCEPT !.obj = o] /\ x.obj = o /\ x.id = job[c].id /\ x.type = job[c].type
                        /\ x.done = job[c].done /\ x.old = job[c].old
  <2>1. o \in 0 .. MaxRooms
    BY <1>4, BoundsAssumption DEF RoomObjects
  <2>. QED  BY <1>3, <2>1, JobSame
<1>6. Step(c, "known", x)
  BY <1>1, <1>4, <1>5 DEF CreateRoom
<1>7. Serving("known", x)
  BY <1>3, <1>4, <1>5, BoundsAssumption DEF Serving, RoomObjects
<1>8. Advances(c, "known", x)
  BY <1>1, <1>3, <1>5, <1>6, <1>7 DEF Advances, Places, Unstored
<1>9. TypeOK'
  <2>1. created' \in 0 .. MaxRooms /\ listed' \subseteq 1 .. created'
    BY <1>0, <1>1, BoundsAssumption DEF TypeOK
  <2>2. split' \in BOOLEAN
    BY <1>1
  <2>3. StateTypes'
    BY <1>0, <1>1, <1>2, <2>1, <2>2, TypeParts DEF StateTypes
  <2>4. MoveTypes'
    BY <1>0, <1>6, <1>7, StepTypes DEF Places
  <2>. QED  BY <2>3, <2>4, TypeParts, PTL
<1>10. SameMessages
  BY <1>1 DEF SameMessages
<1>11. MessagesInv'
  BY <1>0, <1>1, <1>8, <1>10, MessagesFrame
<1>12. NamesInv'
  BY <1>0, <1>1, <1>2, <1>8, NamesFrame
<1>13. ~split' => listed = {} /\ caught = {}
  BY <1>0, <1>1 DEF RoomsInv
<1>14. RoomsInv'
  BY <1>0, <1>1, <1>13 DEF RoomsInv
<1>15. ReachInv'
  BY <1>1, <1>13 DEF ReachInv, Counts
<1>16. EmptyInv'
  <2>1. pc'[c] = "known" /\ job'[c] = x /\ \A d \in Conns \ {c} : pc'[d] = pc[d] /\ job'[d] = job[d]
    BY <1>0, <1>6, StepAt
  <2>2. SeesTo("known", x, o)
    BY <1>3, <1>5 DEF SeesTo, Serving
  <2>3. \A p : ~SeesTo("create", job[c], p)
    BY DEF SeesTo
  <2>4. ASSUME NEW p \in listed', room'[p].users = {} PROVE \E d \in Conns : SeesTo(pc'[d], job'[d], p)
    <3>1. CASE p = o
      BY <2>1, <2>2, <3>1
    <3>2. CASE p \in listed
      <4>1. PICK d \in Conns : SeesTo(pc[d], job[d], p)
        BY <1>0, <1>1, <2>4, <3>2 DEF EmptyInv
      <4>. QED  BY <1>1, <2>1, <2>3, <4>1
    <3>. QED  BY <1>1, <1>4, <2>4, <3>1, <3>2
  <2>. QED  BY <2>4 DEF EmptyInv
<1>. QED  BY <1>9, <1>11, <1>12, <1>14, <1>15, <1>16 DEF Inv

LEMMA RemoveRoomOK == ASSUME Inv, NEW c \in Conns, RemoveRoom(c) PROVE Inv'
<1>0. TypeOK /\ MessagesInv /\ NamesInv /\ RoomsInv /\ ReachInv /\ EmptyInv
  BY Parts
<1>1. /\ pc[c] = "unlist" /\ UNCHANGED <<room, created, readers, net, requests, ghost>>
      /\ listed' = IF room[job[c].obj].users = {} THEN listed \ {job[c].obj} ELSE listed
  BY DEF RemoveRoom, At
<1>2. UNCHANGED <<services, link, writer, named, written, caught, shadowed, split>>
  BY <1>1 DEF net, ghost
<1>3. Busy(c) /\ Serving("unlist", job[c]) /\ job[c] \in Jobs
  BY <1>0, <1>1 DEF Busy, TypeOK
<1>4. PICK l, x : Advances(c, l, x)
  <2>1. CASE job[c].type = "room-expired"
    BY <1>0, <1>3, <2>1, DoneAdvances DEF RemoveRoom
  <2>2. CASE job[c].type # "room-expired"
    <3>1. Goto(c, "look") /\ Serving("look", job[c]) /\ Unstored(pc[c], job[c])
      BY <1>1, <1>3, <2>2 DEF RemoveRoom, Serving, Unstored
    <3>. QED  BY <1>0, <1>3, <3>1, GotoAdvances DEF Places
  <2>. QED  BY <2>1, <2>2
<1>5. Step(c, l, x) /\ l \in Places /\ x \in Jobs /\ Serving(l, x)
  BY <1>4 DEF Advances
<1>6. TypeOK'
  <2>1. listed' \subseteq listed
    BY <1>1
  <2>2. StateTypes'
    BY <1>0, <1>1, <1>2, <2>1, TypeParts DEF StateTypes
  <2>3. MoveTypes'
    BY <1>0, <1>5, StepTypes
  <2>. QED  BY <2>2, <2>3, TypeParts, PTL
<1>7. SameMessages
  BY <1>1 DEF SameMessages
<1>8. MessagesInv'
  BY <1>0, <1>1, <1>4, <1>7, MessagesFrame
<1>9. NamesInv'
  BY <1>0, <1>2, <1>4, NamesFrame
<1>10. RoomsInv'
  <2>1. ASSUME NEW d \in caught PROVE \E o \in listed' : Owner[d] \in room[o].users
    <3>1. PICK o \in listed : Owner[d] \in room[o].users
      BY <1>0 DEF RoomsInv
    <3>2. o \in listed'
      BY <1>1, <3>1
    <3>. QED  BY <3>1, <3>2
  <2>. QED  BY <1>0, <1>1, <1>2, <2>1 DEF RoomsInv
<1>11. ReachInv'
  <2>1. \A m \in Kept, e, d \in Conns : Carries(d, m, e) => Reached(m, e)'
    BY <1>0, <1>1, <1>5, CarriesStay DEF Reached
  <2>2. listed' \subseteq listed
    BY <1>1
  <2>. QED  BY <1>0, <1>2, <1>7, <2>1, <2>2, ReachFrame
<1>12. EmptyInv'
  <2>1. ASSUME NEW o \in listed', room'[o].users = {} PROVE room[o].users = {} /\ ~SeesTo(pc[c], job[c], o)
    BY <1>1, <2>1 DEF SeesTo
  <2>2. listed' \subseteq listed
    BY <1>1
  <2>. QED  BY <1>0, <1>5, <2>1, <2>2, EmptyFrame
<1>. QED  BY <1>6, <1>8, <1>9, <1>10, <1>11, <1>12 DEF Inv

-----------------------------------------------------------------------------
(* The history of a room object *)

\* Reader c gives room object o message m, and goes on to place l with request x: m is a line
\* that is for nobody, or the response of c, who goes on to send it to the users of o.
Adds(c, l, x, o, r, m) ==
    /\ c \in Conns /\ l \in {"look", "cast"} /\ x \in Jobs /\ Serving(l, x) /\ Step(c, l, x)
    /\ pc[c] \in {"line", "store"}
    /\ x.id = job[c].id /\ x.done = job[c].done /\ x.old = job[c].old /\ x.obj = o
    /\ o \in RoomObjects /\ r \in RoomState /\ room' = [room EXCEPT ![o] = r]
    /\ r.users = room[o].users /\ m \in Kept
    /\ \A i \in DOMAIN r.messages :
          r.messages[i] = m \/ \E k \in DOMAIN room[o].messages : r.messages[i] = room[o].messages[k]
    /\ m.id = 0 \/ (m.id = job[c].id /\ l = "cast" /\ x.start = room[o].users)
    /\ UNCHANGED <<listed, created, readers, net, requests, ghost>>

LEMMA AddingOK ==
  ASSUME Inv, NEW c, NEW l, NEW x, NEW o, NEW r, NEW m, Adds(c, l, x, o, r, m)
  PROVE  Inv'
<1>. USE DEF Adds
<1>0. TypeOK /\ MessagesInv /\ NamesInv /\ RoomsInv /\ ReachInv /\ EmptyInv
  BY Parts
<1>1. UNCHANGED <<services, link, writer, named, written, caught, shadowed, split>>
  BY DEF net, ghost
<1>2. room'[o] = r /\ (\A p \in RoomObjects \ {o} : room'[p] = room[p]) /\ room' \in [RoomObjects -> RoomState]
      /\ listed \subseteq RoomObjects
  BY <1>0, BoundsAssumption DEF TypeOK, RoomObjects
<1>3. \A p \in RoomObjects : room'[p].users = room[p].users
  BY <1>2
<1>4. \A p \in RoomObjects : \A i \in DOMAIN room'[p].messages :
         \/ p = o /\ room'[p].messages[i] = m
         \/ \E k \in DOMAIN room[p].messages : room'[p].messages[i] = room[p].messages[k]
  BY <1>2
<1>5. \A p \in RoomObjects : \A n : Has(room'[p].messages, n) => Has(room[p].messages, n) \/ (p = o /\ n = m.id)
  BY <1>4 DEF Has
<1>6. pc'[c] = l /\ job'[c] = x /\ \A d \in Conns \ {c} : pc'[d] = pc[d] /\ job'[d] = job[d]
  BY <1>0, StepAt
<1>7. Busy(c) /\ Unstored(pc[c], job[c]) /\ Busy(c)' /\ \A d \in Conns : Busy(d)' <=> Busy(d)
  BY <1>6 DEF Busy, Unstored
<1>8. job[c].done = {} /\ ~job[c].old /\ (\A p \in RoomObjects : ~Has(room[p].messages, job[c].id))
      /\ job[c].id \in 1 .. requests /\ requests \in Nat
  BY <1>0, <1>7 DEF MessagesInv, TypeOK
<1>9. TypeOK'
  <2>1. StateTypes'
    BY <1>0, <1>1, <1>2, TypeParts DEF StateTypes
  <2>2. MoveTypes'
    BY <1>0, StepTypes DEF Places
  <2>. QED  BY <2>1, <2>2, TypeParts, PTL
<1>10. MessagesInv'
  <2>1. (\A d \in Conns : Busy(d) => job[d].id \in 1 .. requests)'
    BY <1>0, <1>6, <1>7 DEF MessagesInv
  <2>2. (\A b, d \in Conns : Busy(b) /\ Busy(d) /\ b # d => job[b].id # job[d].id)'
    BY <1>0, <1>6, <1>7 DEF MessagesInv
  <2>3. (\A p \in RoomObjects, n \in Nat : Has(room[p].messages, n) => n <= requests)'
    BY <1>0, <1>5, <1>8 DEF MessagesInv
  <2>4. ASSUME NEW d \in Conns, Unstored(pc'[d], job'[d])
        PROVE  job'[d].done = {} /\ ~job'[d].old /\ \A p \in RoomObjects : ~Has(room'[p].messages, job'[d].id)
    <3>1. CASE d = c
      <4>1. l = "look" /\ m.id = 0
        BY <1>6, <2>4, <3>1 DEF Unstored
      <4>. QED  BY <1>5, <1>6, <1>8, <3>1, <4>1
    <3>2. CASE d # c
      <4>1. Unstored(pc[d], job[d]) /\ Busy(d)
        BY <1>6, <2>4, <3>2 DEF Unstored, Busy
      <4>2. job[d].id # m.id
        BY <1>0, <1>7, <1>8, <3>2, <4>1 DEF MessagesInv
      <4>. QED  BY <1>0, <1>5, <1>6, <3>2, <4>1, <4>2 DEF MessagesInv
    <3>. QED  BY <3>1, <3>2
  <2>5. ASSUME NEW d \in Conns, NEW p \in RoomObjects, pc'[d] \in {"cast", "send"}, Has(room'[p].messages, job'[d].id)
        PROVE  job'[d].obj = p
    <3>1. CASE d = c
      BY <1>5, <1>6, <1>8, <2>5, <3>1
    <3>2. CASE d # c
      <4>1. pc[d] \in {"cast", "send"} /\ Busy(d)
        BY <1>6, <2>5, <3>2 DEF Busy
      <4>2. job[d].id # m.id
        BY <1>0, <1>7, <1>8, <3>2, <4>1 DEF MessagesInv
      <4>. QED  BY <1>0, <1>5, <1>6, <2>5, <3>2, <4>1, <4>2 DEF MessagesInv
    <3>. QED  BY <3>1, <3>2
  <2>6. (\A d \in Conns : Unstored(pc[d], job[d]) =>
             job[d].done = {} /\ ~job[d].old /\ \A p \in RoomObjects : ~Has(room[p].messages, job[d].id))'
    BY <2>4
  <2>7. (\A d \in Conns, p \in RoomObjects : pc[d] \in {"cast", "send"} /\ Has(room[p].messages, job[d].id) => job[d].obj = p)'
    BY <2>5
  <2>. QED  BY <2>1, <2>2, <2>3, <2>6, <2>7 DEF MessagesInv
<1>11. NamesInv'
  BY <1>0, <1>1, <1>7 DEF NamesInv
<1>12. RoomsInv'
  BY <1>0, <1>1, <1>2, <1>3 DEF RoomsInv
<1>13. \A n \in Kept, e, d \in Conns : Carries(d, n, e) => Carries(d, n, e)'
  BY <1>0, CarriesStay
<1>14. ReachInv'
  <2>. SUFFICES ASSUME NEW p \in listed', NEW e \in Conns, Counts(e)', NEW i \in DOMAIN room'[p].messages,
                       NEW n, n = room'[p].messages[i], n.type \in Replayed, n.id # 0
                PROVE  Reached(n, e)'
    BY DEF ReachInv
  <2>1. p \in listed /\ p \in RoomObjects /\ Counts(e)
    BY <1>1, <1>2 DEF Counts
  <2>2. CASE \E k \in DOMAIN room[p].messages : n = room[p].messages[k]
    <3>1. PICK k \in DOMAIN room[p].messages : n = room[p].messages[k]
      BY <2>2
    <3>2. n \in Kept
      BY <1>0, <2>1, <3>1 DEF TypeOK, RoomState
    <3>3. Reached(n, e)
      BY <1>0, <2>1, <3>1 DEF ReachInv
    <3>. QED  BY <1>1, <1>13, <3>2, <3>3 DEF Reached
  <2>3. CASE p = o /\ n = m
    <3>1. m.id = job[c].id /\ l = "cast" /\ x.start = room[o].users
      BY <2>3
    <3>2. Owner[e] \in room[o].users
      BY <1>0, <2>1, <2>3 DEF RoomsInv, Counts
    <3>3. Carries(c, n, e)'
      BY <1>6, <1>8, <2>3, <3>1, <3>2 DEF Carries
    <3>. QED  BY <3>3 DEF Reached
  <2>. QED  BY <1>4, <2>1, <2>2, <2>3
<1>15. EmptyInv'
  <2>1. \A p : ~SeesTo(pc[c], job[c], p)
    BY DEF SeesTo
  <2>2. ASSUME NEW p \in listed', room'[p].users = {} PROVE room[p].users = {} /\ ~SeesTo(pc[c], job[c], p)
    BY <1>2, <1>3, <2>1, <2>2
  <2>3. listed' \subseteq listed
    OBVIOUS
  <2>. QED  BY <1>0, <2>2, <2>3, EmptyFrame
<1>. QED  BY <1>9, <1>10, <1>11, <1>12, <1>14, <1>15 DEF Inv

\* "The round has started".
LEMMA LineTyped == \E m \in Kept : m = [type |-> "system-announcement", id |-> 0] /\ m.id = 0
<1>1. "round-end" \in RequestTypes
  BY DEF RequestTypes
<1>2. ResponseType["round-end"] = "system-announcement"
  BY <1>1 DEF ResponseType
<1>3. [type |-> "system-announcement", id |-> 0] \in Kept
  BY <1>1, <1>2 DEF Kept
<1>. QED  BY <1>3

LEMMA LineOK == ASSUME Inv, NEW c \in Conns, Line(c) PROVE Inv'
<1>1. pc[c] = "line" /\ UNCHANGED <<listed, created, readers, net, requests, ghost>> /\ Goto(c, "look")
  BY DEF Line, At
<1>2. TypeOK /\ Busy(c) /\ Serving("line", job[c]) /\ job[c] \in Jobs
  BY <1>1, Parts DEF Busy, TypeOK
<1>3. PICK o \in RoomObjects : o = job[c].obj /\ room[o] \in RoomState
  BY <1>1, <1>2, ObjTyped DEF Serving
<1>4. PICK m \in Kept : m = [type |-> "system-announcement", id |-> 0] /\ m.id = 0
  BY LineTyped
<1>5. PICK r \in RoomState : r = AddMessage(room[o], m) /\ r.users = room[o].users
          /\ \A i \in DOMAIN r.messages :
                r.messages[i] = m \/ \E k \in DOMAIN room[o].messages : r.messages[i] = room[o].messages[k]
  BY <1>3, AddMessageKeeps
<1>6. room' = [room EXCEPT ![o] = r]
  BY <1>3, <1>4, <1>5 DEF Line
<1>7. Step(c, "look", job[c]) /\ Serving("look", job[c])
  BY <1>1, <1>2, GotoSteps DEF Serving
<1>8. Adds(c, "look", job[c], o, r, m)
  BY <1>1, <1>2, <1>3, <1>4, <1>5, <1>6, <1>7 DEF Adds
<1>. QED  BY <1>8, AddingOK

LEMMA StoreOK == ASSUME Inv, NEW c \in Conns, Store(c) PROVE Inv'
<1>1. pc[c] = "store" /\ UNCHANGED <<listed, created, readers, net, requests, ghost>>
  BY DEF Store, At
<1>2. TypeOK /\ Busy(c) /\ Serving("store", job[c]) /\ job[c] \in Jobs
  BY <1>1, Parts DEF Busy, TypeOK
<1>3. PICK o \in RoomObjects : o = job[c].obj /\ room[o] \in RoomState /\ room[o].users \in SUBSET Names
  BY <1>1, <1>2, ObjTyped DEF Serving, RoomState
<1>4. PICK x \in Jobs : x = [job[c] EXCEPT !.start = room[o].users]
  BY <1>2, <1>3, JobFields
<1>5. x.obj = o /\ x.id = job[c].id /\ x.type = job[c].type /\ x.done = job[c].done /\ x.old = job[c].old
      /\ x.start = room[o].users
  BY <1>2, <1>3, <1>4 DEF Jobs
<1>6. Step(c, "cast", x) /\ Serving("cast", x)
  BY <1>2, <1>3, <1>4, <1>5 DEF Store, Serving
<1>7. CASE Response(c).type \in Control
  <2>1. room' = [room EXCEPT ![o] = room[o]]
    BY <1>2, <1>3, <1>7 DEF Store, TypeOK
  <2>2. PICK m \in Kept : m = [type |-> "system-announcement", id |-> 0] /\ m.id = 0
    BY LineTyped
  <2>3. Adds(c, "cast", x, o, room[o], m)
    BY <1>1, <1>3, <1>5, <1>6, <2>1, <2>2 DEF Adds
  <2>. QED  BY <2>3, AddingOK
<1>8. CASE Response(c).type \notin Control
  <2>1. PICK m \in Kept : m = Response(c) /\ m.id = job[c].id
    BY <1>2, ResponseTyped
  <2>2. PICK r \in RoomState : r = AddMessage(room[o], m) /\ r.users = room[o].users
            /\ \A i \in DOMAIN r.messages :
                  r.messages[i] = m \/ \E k \in DOMAIN room[o].messages : r.messages[i] = room[o].messages[k]
    BY <1>3, AddMessageKeeps
  <2>3. room' = [room EXCEPT ![o] = r]
    BY <1>3, <1>8, <2>1, <2>2 DEF Store
  <2>4. Adds(c, "cast", x, o, r, m)
    BY <1>1, <1>5, <1>6, <2>1, <2>2, <2>3 DEF Adds
  <2>. QED  BY <2>4, AddingOK
<1>. QED  BY <1>7, <1>8

-----------------------------------------------------------------------------
(* Connections *)

\* No reader moves, and connections are only lost.
LEMMA LossOK ==
  ASSUME Inv, UNCHANGED <<chat, named, pc, job, requests, ghost>>, services' \subseteq services,
         link' \in [Conns -> {"up", "down"}], writer' \in [Conns -> BOOLEAN],
         \A c \in Conns : link'[c] = "up" => link[c] = "up"
  PROVE  Inv'
<1>0. TypeOK /\ MessagesInv /\ NamesInv /\ RoomsInv /\ ReachInv /\ EmptyInv
  BY Parts
<1>1. UNCHANGED <<listed, room, created, readers, written, caught, shadowed, split>>
  BY DEF chat, ghost
<1>2. TypeOK'
  BY <1>0, <1>1 DEF TypeOK
<1>3. MessagesInv'
  BY <1>0, <1>1 DEF MessagesInv, Busy
<1>4. NamesInv'
  BY <1>0, <1>1 DEF NamesInv, Busy
<1>5. RoomsInv'
  BY <1>0, <1>1 DEF RoomsInv
<1>6. ReachInv'
  <2>1. SameMessages
    BY <1>1 DEF SameMessages
  <2>2. \A m \in Kept, e, d \in Conns : Carries(d, m, e) => Carries(d, m, e)'
    BY DEF Carries
  <2>3. \A m \in Kept, e, d \in Conns : Carries(d, m, e) => Reached(m, e)'
    BY <2>2 DEF Reached
  <2>. QED  BY <1>0, <1>1, <2>1, <2>3, ReachFrame
<1>7. EmptyInv'
  BY <1>0, <1>1 DEF EmptyInv
<1>. QED  BY <1>2, <1>3, <1>4, <1>5, <1>6, <1>7 DEF Inv

LEMMA StayOK == ASSUME Inv, UNCHANGED vars PROVE Inv'
<1>1. UNCHANGED <<chat, named, pc, job, requests, ghost, services, link, writer>>
  BY DEF vars, net
<1>2. link \in [Conns -> {"up", "down"}] /\ writer \in [Conns -> BOOLEAN]
  BY Parts DEF TypeOK
<1>. QED  BY <1>1, <1>2, LossOK

LEMMA DropOK == ASSUME Inv, NEW c \in Conns, Drop(c) PROVE Inv'
<1>1. link \in [Conns -> {"up", "down"}] /\ writer \in [Conns -> BOOLEAN]
  BY Parts DEF TypeOK
<1>2. link' = [link EXCEPT ![c] = "down"] /\ UNCHANGED <<chat, services, writer, named, pc, job, requests, ghost>>
  BY DEF Drop
<1>3. link' \in [Conns -> {"up", "down"}] /\ \A d \in Conns : link'[d] = "up" => link[d] = "up"
  BY <1>1, <1>2
<1>. QED  BY <1>1, <1>2, <1>3, LossOK

LEMMA PingOK == ASSUME Inv, NEW c \in Conns, Ping(c) PROVE Inv'
<1>1. link \in [Conns -> {"up", "down"}] /\ writer \in [Conns -> BOOLEAN]
  BY Parts DEF TypeOK
<1>2. writer' = [writer EXCEPT ![c] = FALSE] /\ services' = services \ {c}
      /\ UNCHANGED <<chat, link, named, pc, job, requests, ghost>>
  BY DEF Ping, RemoveService
<1>3. writer' \in [Conns -> BOOLEAN]
  BY <1>1, <1>2
<1>4. services' \subseteq services
  BY <1>2
<1>. QED  BY <1>1, <1>2, <1>3, <1>4, LossOK

LEMMA ReadEndsOK == ASSUME Inv, NEW c \in Conns, ReadEnds(c) PROVE Inv'
<1>0. TypeOK /\ MessagesInv /\ NamesInv /\ RoomsInv /\ ReachInv /\ EmptyInv
  BY Parts
<1>1. pc[c] = "idle" /\ services' = services \ {c} /\ Step(c, "ended", job[c])
      /\ UNCHANGED <<chat, link, writer, named, requests, ghost>>
  BY <1>0, GotoSteps DEF ReadEnds, RemoveService, At
<1>2. UNCHANGED <<listed, room, created, readers, written, caught, shadowed, split>> /\ services' \subseteq services
  BY <1>1 DEF chat, ghost
<1>3. pc'[c] = "ended" /\ job' = job /\ \A d \in Conns \ {c} : pc'[d] = pc[d]
  BY <1>0, <1>1, StepAt DEF ReadEnds, Goto
<1>4. TypeOK'
  <2>1. StateTypes'
    BY <1>0, <1>1, <1>2, TypeParts DEF StateTypes
  <2>2. Serving("ended", job[c]) /\ job[c] \in Jobs
    BY <1>0 DEF Serving, TypeOK
  <2>3. MoveTypes'
    BY <1>0, <1>1, <2>2, StepTypes DEF Places
  <2>. QED  BY <2>1, <2>3, TypeParts, PTL
<1>5. \A d \in Conns : (Busy(d)' <=> Busy(d)) /\ (pc'[d] \in {"cast", "send"} <=> pc[d] \in {"cast", "send"})
                       /\ (Unstored(pc'[d], job'[d]) <=> Unstored(pc[d], job[d]))
  BY <1>1, <1>3 DEF Busy, Unstored
<1>6. MessagesInv'
  BY <1>0, <1>1, <1>2, <1>3, <1>5 DEF MessagesInv
<1>7. NamesInv'
  BY <1>0, <1>1, <1>2, <1>5 DEF NamesInv
<1>8. RoomsInv'
  BY <1>0, <1>2 DEF RoomsInv
<1>9. ReachInv'
  <2>1. SameMessages
    BY <1>2 DEF SameMessages
  <2>2. \A m \in Kept, e, d \in Conns : Carries(d, m, e) => Reached(m, e)'
    BY <1>0, <1>1, CarriesStay DEF Reached
  <2>. QED  BY <1>0, <1>1, <1>2, <2>1, <2>2, ReachFrame
<1>10. EmptyInv'
  <2>1. \A o : ~SeesTo(pc[c], job[c], o)
    BY <1>1 DEF SeesTo
  <2>. QED  BY <1>0, <1>1, <1>2, <2>1, EmptyFrame
<1>. QED  BY <1>4, <1>6, <1>7, <1>8, <1>9, <1>10 DEF Inv

\* The request that is read.
Fresh(t, u, n, q) == [NoJob EXCEPT !.type = t, !.user = u, !.id = n, !.silent = q, !.error = t = "invalid"]

LEMMA FreshTyped ==
  ASSUME NEW t \in RequestTypes, NEW u \in Names, NEW n \in Nat, NEW q \in BOOLEAN
  PROVE  /\ Fresh(t, u, n, q) \in Jobs
         /\ Fresh(t, u, n, q).type = t /\ Fresh(t, u, n, q).id = n
         /\ Fresh(t, u, n, q).done = {} /\ ~Fresh(t, u, n, q).old
<1>1. PICK y \in Jobs : y = NoJob /\ y.done = {} /\ ~y.old
  BY NoJobTyped DEF NoJob
<1>2. PICK e \in BOOLEAN : e = (t = "invalid")
  BY Zenon
<1>3. PICK x : x = [y EXCEPT !.type = t, !.user = u, !.id = n, !.silent = q, !.error = e]
  OBVIOUS
<1>4. x \in Jobs
  BY <1>3 DEF Jobs
<1>5. x.type = t /\ x.id = n /\ x.done = y.done /\ x.old = y.old
  BY <1>3 DEF Jobs
<1>6. Fresh(t, u, n, q) = x
  BY <1>1, <1>2, <1>3 DEF Fresh
<1>. QED  BY <1>1, <1>4, <1>5, <1>6

LEMMA ReadOK == ASSUME Inv, NEW c \in Conns, NEW t \in Requests, NEW u \in Users \cup {"none"}, Read(c, t, u) PROVE Inv'
<1>0. TypeOK /\ MessagesInv /\ NamesInv /\ RoomsInv /\ ReachInv /\ EmptyInv
  BY Parts
<1>1. pc[c] = "idle" /\ requests' = requests + 1 /\ named' = named \cup {c}
      /\ UNCHANGED <<chat, services, link, writer, drops, written, caught, split>>
  BY DEF Read, At
<1>2. UNCHANGED <<listed, room, created, readers>>
  BY <1>1 DEF chat
<1>3. PICK quiet \in Empty(c, t), l \in {"answer", "look", "find"} :
          /\ Step(c, l, Fresh(t, u, requests', quiet))
          /\ l = "find" => t # "invalid" /\ t \notin WithoutRoom
  BY DEF Read, Fresh
<1>4. t \in RequestTypes /\ u \in Names /\ requests + 1 \in Nat /\ quiet \in BOOLEAN /\ (t = "invalid") \in BOOLEAN
      /\ requests \in Nat
  <2>1. quiet \in BOOLEAN
    BY DEF Empty
  <2>. QED  BY <1>0, <2>1, RequestsAssumption DEF Names, TypeOK
<1>5. PICK x \in Jobs : Step(c, l, x) /\ x.type = t /\ x.id = requests + 1 /\ x.done = {} /\ ~x.old
  <2>1. PICK n \in Nat, q \in BOOLEAN : n = requests + 1 /\ q = quiet
    BY <1>4
  <2>2. Fresh(t, u, n, q) \in Jobs /\ Fresh(t, u, n, q).type = t /\ Fresh(t, u, n, q).id = n
        /\ Fresh(t, u, n, q).done = {} /\ ~Fresh(t, u, n, q).old
    <3>1. t \in RequestTypes /\ u \in Names
      BY <1>4
    <3>. QED  BY <3>1, FreshTyped
  <2>. QED  BY <1>1, <1>3, <2>1, <2>2
<1>6. l \in Places /\ Serving(l, x)
  BY <1>3, <1>4, <1>5 DEF Places, Serving, RequestTypes, WithoutRoom, RoundTypes
<1>7. shadowed' \subseteq Conns /\ shadowed \subseteq shadowed'
      /\ \A d \in services \cap named : d # c /\ Owner[d] = Owner[c] => d \in shadowed' /\ c \in shadowed'
  BY <1>0 DEF Read, FindService, TypeOK
<1>8. pc'[c] = l /\ job'[c] = x /\ \A d \in Conns \ {c} : pc'[d] = pc[d] /\ job'[d] = job[d]
  BY <1>0, <1>5, StepAt
<1>9. TypeOK'
  <2>1. StateTypes'
    BY <1>0, <1>1, <1>2, <1>4, <1>7, TypeParts DEF StateTypes
  <2>2. MoveTypes'
    BY <1>0, <1>5, <1>6, StepTypes
  <2>. QED  BY <2>1, <2>2, TypeParts, PTL
<1>10. Busy(c)' /\ \A d \in Conns \ {c} : Busy(d)' <=> Busy(d)
  BY <1>8 DEF Busy
<1>11. \A o \in RoomObjects : ~Has(room[o].messages, requests + 1)
  BY <1>0, <1>4 DEF MessagesInv
<1>12. MessagesInv'
  <2>1. (\A d \in Conns : Busy(d) => job[d].id \in 1 .. requests)'
    BY <1>0, <1>1, <1>4, <1>5, <1>8, <1>10 DEF MessagesInv
  <2>2. (\A b, d \in Conns : Busy(b) /\ Busy(d) /\ b # d => job[b].id # job[d].id)'
    BY <1>0, <1>1, <1>4, <1>5, <1>8, <1>10 DEF MessagesInv
  <2>3. (\A o \in RoomObjects, n \in Nat : Has(room[o].messages, n) => n <= requests)'
    BY <1>0, <1>1, <1>2, <1>4 DEF MessagesInv
  <2>4. ASSUME NEW d \in Conns, Unstored(pc'[d], job'[d])
        PROVE  job'[d].done = {} /\ ~job'[d].old /\ \A o \in RoomObjects : ~Has(room'[o].messages, job'[d].id)
    <3>1. CASE d = c
      BY <1>2, <1>5, <1>8, <1>11, <3>1
    <3>2. CASE d # c
      BY <1>0, <1>2, <1>8, <2>4, <3>2 DEF MessagesInv
    <3>. QED  BY <3>1, <3>2
  <2>5. ASSUME NEW d \in Conns, NEW o \in RoomObjects, pc'[d] \in {"cast", "send"}, Has(room'[o].messages, job'[d].id)
        PROVE  job'[d].obj = o
    BY <1>0, <1>2, <1>8, <2>5 DEF MessagesInv
  <2>6. (\A d \in Conns : Unstored(pc[d], job[d]) =>
             job[d].done = {} /\ ~job[d].old /\ \A o \in RoomObjects : ~Has(room[o].messages, job[d].id))'
    BY <2>4
  <2>7. (\A d \in Conns, o \in RoomObjects : pc[d] \in {"cast", "send"} /\ Has(room[o].messages, job[d].id) => job[d].obj = o)'
    BY <2>5
  <2>. QED  BY <2>1, <2>2, <2>3, <2>6, <2>7 DEF MessagesInv
<1>13. NamesInv'
  BY <1>0, <1>1, <1>7, <1>10 DEF NamesInv
<1>14. RoomsInv'
  BY <1>0, <1>1, <1>2 DEF RoomsInv
<1>15. ReachInv'
  <2>1. SameMessages
    BY <1>2 DEF SameMessages
  <2>2. pc[c] \notin {"cast", "send", "replaying"}
    BY <1>1
  <2>3. \A m \in Kept, e, d \in Conns : Carries(d, m, e) => Reached(m, e)'
    BY <1>0, <1>5, <2>2, CarriesStay DEF Reached
  <2>. QED  BY <1>0, <1>1, <1>2, <1>7, <2>1, <2>3, ReachFrame
<1>16. EmptyInv'
  <2>1. \A o : ~SeesTo(pc[c], job[c], o)
    BY <1>1 DEF SeesTo
  <2>. QED  BY <1>0, <1>2, <1>5, <2>1, EmptyFrame
<1>. QED  BY <1>9, <1>12, <1>13, <1>14, <1>15, <1>16 DEF Inv

LEMMA MapFaultOK == ASSUME Inv, MapFault PROVE Inv'
<1>0. TypeOK /\ MessagesInv
  BY Parts
<1>1. /\ listed' = {} /\ readers' = [o \in RoomObjects |-> {}] /\ services' = {} /\ caught' = {}
      /\ writer' = [c \in Conns |-> FALSE] /\ link' = [c \in Conns |-> "down"]
      /\ pc' = [c \in Conns |-> "ended"] /\ job' = [c \in Conns |-> NoJob]
      /\ UNCHANGED <<room, created, named, requests, written, shadowed, split>>
  BY DEF MapFault
<1>2. TypeOK'
  <2>1. StateTypes'
    BY <1>0, <1>1, TypeParts DEF StateTypes
  <2>2. Serving("ended", NoJob) /\ "ended" \in Places
    BY DEF Serving, Places
  <2>3. MoveTypes'
    BY <1>1, <2>2, NoJobTyped DEF MoveTypes
  <2>. QED  BY <2>1, <2>3, TypeParts, PTL
<1>3. MessagesInv'
  BY <1>0, <1>1 DEF MessagesInv, Busy, Unstored
<1>4. NamesInv'
  BY <1>1 DEF NamesInv, Busy
<1>5. RoomsInv' /\ ReachInv' /\ EmptyInv'
  BY <1>1 DEF RoomsInv, ReachInv, EmptyInv
<1>. QED  BY <1>2, <1>3, <1>4, <1>5 DEF Inv

-----------------------------------------------------------------------------
(* Replay *)

LEMMA ReplayOK == ASSUME Inv, NEW c \in Conns, Replay(c) PROVE Inv'
<1>0. TypeOK /\ MessagesInv /\ NamesInv /\ RoomsInv /\ ReachInv /\ EmptyInv
  BY Parts
<1>1. pc[c] = "replay" /\ UNCHANGED <<listed, room, created, net, requests, written, shadowed, split>>
  BY DEF Replay, At
<1>2. Busy(c) /\ Serving("replay", job[c]) /\ job[c] \in Jobs
  BY <1>0, <1>1 DEF Busy, TypeOK
<1>3. PICK o \in GetRoom :
          IF o = 0 THEN Goto(c, "look") /\ UNCHANGED <<readers, caught>>
          ELSE /\ readers' = [readers EXCEPT ![o] = @ \cup {c}]
               /\ Step(c, "replaying", [job[c] EXCEPT !.obj = o, !.left = room[o].messages])
               /\ caught' = IF Owner[c] \in room[o].users THEN caught \cup {c} ELSE caught
  BY DEF Replay
<1>4. \A p : ~SeesTo("replay", job[c], p)
  BY DEF SeesTo
<1>5. CASE o = 0
  <2>1. Goto(c, "look") /\ UNCHANGED <<chat, net, requests, ghost>>
    BY <1>1, <1>3, <1>5 DEF chat, ghost
  <2>2. Advances(c, "look", job[c])
    BY <1>0, <1>1, <1>2, <2>1, GotoAdvances DEF Places, Unstored, Serving
  <2>. QED  BY <1>1, <1>4, <2>1, <2>2, AloneOK
<1>6. CASE o # 0
  <2>1. o \in listed /\ o \in RoomObjects /\ o \in 0 .. MaxRooms
    BY <1>0, <1>6, RoomsFound
  <2>2. room[o].messages \in Seq(Kept)
    BY <1>0, <2>1 DEF TypeOK, RoomState
  <2>3. PICK x \in Jobs : x = [job[c] EXCEPT !.obj = o, !.left = room[o].messages]
    BY <1>2, <2>1, <2>2, JobFields
  <2>4. x.obj = o /\ x.id = job[c].id /\ x.type = job[c].type /\ x.done = job[c].done /\ x.old = job[c].old
        /\ x.left = room[o].messages
    BY <1>2, <2>3 DEF Jobs
  <2>5. Step(c, "replaying", x) /\ Serving("replaying", x)
    BY <1>2, <1>3, <1>6, <2>3, <2>4 DEF Serving
  <2>6. Advances(c, "replaying", x)
    BY <1>1, <1>2, <2>4, <2>5 DEF Advances, Places, Unstored
  <2>7. readers' \in [RoomObjects -> SUBSET Conns] /\ caught' \subseteq caught \cup {c} /\ caught' \subseteq Conns
        /\ (c \in caught' => c \in caught \/ Owner[c] \in room[o].users)
    BY <1>0, <1>3, <1>6, <2>1 DEF TypeOK
  <2>8. UNCHANGED <<services, link, writer, named>>
    BY <1>1 DEF net
  <2>9. TypeOK'
    <3>1. StateTypes'
      BY <1>0, <1>1, <2>7, <2>8, TypeParts DEF StateTypes
    <3>2. MoveTypes'
      BY <1>0, <2>5, StepTypes DEF Places
    <3>. QED  BY <3>1, <3>2, TypeParts, PTL
  <2>10. SameMessages
    BY <1>1 DEF SameMessages
  <2>11. MessagesInv'
    BY <1>0, <1>1, <2>6, <2>10, MessagesFrame
  <2>12. NamesInv'
    BY <1>0, <1>1, <2>6, <2>7, <2>8, NamesFrame
  <2>13. RoomsInv'
    BY <1>0, <1>1, <2>1, <2>7 DEF RoomsInv
  <2>14. ReachInv'
    <3>. SUFFICES ASSUME NEW p \in listed', NEW e \in Conns, Counts(e)', NEW i \in DOMAIN room'[p].messages,
                         NEW m, m = room'[p].messages[i], m.type \in Replayed, m.id # 0
                  PROVE  Reached(m, e)'
      BY DEF ReachInv
    <3>1. p \in listed /\ i \in DOMAIN room[p].messages /\ m = room[p].messages[i] /\ m \in Kept
      <4>1. p \in listed /\ p \in RoomObjects
        <5>1. listed \subseteq RoomObjects
          BY <1>0, BoundsAssumption DEF TypeOK, RoomObjects
        <5>. QED  BY <1>1, <5>1
      <4>. QED  BY <1>0, <1>1, <4>1 DEF TypeOK, RoomState
    <3>2. CASE e = c
      <4>1. p = o
        BY <1>0, <1>1, <2>1, <3>1 DEF RoomsInv, Counts
      <4>2. pc'[c] = "replaying" /\ job'[c] = x
        BY <1>0, <2>5, StepAt
      <4>3. Carries(c, m, c)'
        BY <2>4, <3>1, <4>1, <4>2 DEF Carries
      <4>. QED  BY <3>2, <4>3 DEF Reached
    <3>3. CASE e # c
      <4>1. Counts(e)
        BY <1>1, <2>7, <2>8, <3>3 DEF Counts
      <4>2. Reached(m, e)
        BY <1>0, <3>1, <4>1 DEF ReachInv
      <4>3. \A d \in Conns : Carries(d, m, e) => Carries(d, m, e)'
        BY <1>0, <1>1, <2>5, <3>1, CarriesStay
      <4>. QED  BY <1>1, <4>2, <4>3 DEF Reached
    <3>. QED  BY <3>2, <3>3
  <2>15. EmptyInv'
    BY <1>0, <1>1, <1>4, <2>5, EmptyFrame
  <2>. QED  BY <2>9, <2>11, <2>12, <2>13, <2>14, <2>15 DEF Inv
<1>. QED  BY <1>5, <1>6

\* A step of a reader that may write messages: what it was to write to a connection it has
\* written, or has still to write.
LEMMA WritingOK ==
  ASSUME Inv, NEW c, NEW l, NEW x, Advances(c, l, x),
         UNCHANGED <<listed, room, created, net, requests, caught, shadowed, split>>,
         readers' \in [RoomObjects -> SUBSET Conns], written' \in [Conns -> SUBSET Nat],
         \A e \in Conns : written[e] \subseteq written'[e],
         \A m \in Kept, e \in Conns : InHistory(m) /\ Counts(e) /\ Carries(c, m, e) =>
             m.id \in written'[e] \/ Carries(c, m, e)',
         \A o : ~SeesTo(pc[c], job[c], o)
  PROVE  Inv'
<1>0. TypeOK /\ MessagesInv /\ NamesInv /\ RoomsInv /\ ReachInv /\ EmptyInv
  BY Parts
<1>1. c \in Conns /\ Step(c, l, x) /\ l \in Places /\ x \in Jobs /\ Serving(l, x)
  BY DEF Advances
<1>2. UNCHANGED <<services, link, writer, named>>
  BY DEF net
<1>3. TypeOK'
  <2>1. StateTypes'
    BY <1>0, <1>2, TypeParts DEF StateTypes
  <2>2. MoveTypes'
    BY <1>0, <1>1, StepTypes
  <2>. QED  BY <2>1, <2>2, TypeParts, PTL
<1>4. SameMessages
  BY DEF SameMessages
<1>5. MessagesInv'
  BY <1>0, <1>4, MessagesFrame
<1>6. NamesInv'
  BY <1>0, <1>2, NamesFrame
<1>7. RoomsInv'
  BY <1>0, RoomsFrame
<1>8. ReachInv'
  <2>1. \A d \in Conns \ {c} : pc'[d] = pc[d] /\ job'[d] = job[d]
    BY <1>0, <1>1, StepAt
  <2>2. \A e \in Conns : Counts(e)' <=> Counts(e)
    BY <1>2 DEF Counts
  <2>3. ASSUME NEW m \in Kept, NEW e \in Conns, InHistory(m), Counts(e)', NEW d \in Conns, Carries(d, m, e)
        PROVE  Reached(m, e)'
    <3>1. CASE d = c
      BY <1>1, <2>2, <2>3, <3>1 DEF Reached
    <3>2. CASE d # c
      <4>1. Carries(d, m, e)'
        BY <2>1, <2>3, <3>2 DEF Carries
      <4>. QED  BY <4>1 DEF Reached
    <3>. QED  BY <3>1, <3>2
  <2>. QED  BY <1>0, <1>2, <1>4, <2>3, ReachFrame
<1>9. EmptyInv'
  BY <1>0, <1>1, EmptyFrame
<1>. QED  BY <1>3, <1>5, <1>6, <1>7, <1>8, <1>9 DEF Inv

LEMMA EgressWrites ==
  ASSUME TypeOK, NEW d \in Conns, NEW n \in Nat, Egress(d, n)
  PROVE  /\ written' \in [Conns -> SUBSET Nat]
         /\ \A e \in Conns : written[e] \subseteq written'[e]
         /\ link[d] = "up" => n \in written'[d]
BY DEF TypeOK, Egress

LEMMA ReplayingOK == ASSUME Inv, NEW c \in Conns, Replaying(c) PROVE Inv'
<1>0. TypeOK
  BY Parts
<1>1. pc[c] = "replaying" /\ UNCHANGED <<listed, room, created, net, requests, caught, shadowed, split>>
  BY DEF Replaying, At
<1>2. Busy(c) /\ Serving("replaying", job[c]) /\ job[c] \in Jobs /\ job[c].left \in Seq(Kept)
      /\ readers \in [RoomObjects -> SUBSET Conns] /\ written \in [Conns -> SUBSET Nat]
  BY <1>0, <1>1 DEF Busy, TypeOK, Jobs
<1>3. \A o : ~SeesTo(pc[c], job[c], o)
  BY <1>1 DEF SeesTo
<1>4. CASE job[c].left = <<>>
  <2>1. readers' \in [RoomObjects -> SUBSET Conns] /\ Goto(c, "look") /\ UNCHANGED written
    BY <1>2, <1>4 DEF Replaying
  <2>2. Advances(c, "look", job[c])
    BY <1>0, <1>1, <1>2, <2>1, GotoAdvances DEF Places, Unstored, Serving
  <2>3. \A m \in Kept, e \in Conns : ~Carries(c, m, e)
    BY <1>1, <1>4 DEF Carries
  <2>. QED  BY <1>1, <1>2, <1>3, <2>1, <2>2, <2>3, WritingOK
<1>5. CASE job[c].left # <<>>
  <2>1. PICK h \in Kept, s \in Seq(Kept) :
            /\ h = Head(job[c].left) /\ s = Tail(job[c].left)
            /\ \A i \in DOMAIN job[c].left : job[c].left[i] = h \/ \E k \in DOMAIN s : s[k] = job[c].left[i]
    <3>1. Head(job[c].left) \in Kept /\ Tail(job[c].left) \in Seq(Kept) /\ Head(job[c].left) = job[c].left[1]
          /\ Len(Tail(job[c].left)) = Len(job[c].left) - 1 /\ Len(job[c].left) \in Nat
          /\ DOMAIN job[c].left = 1 .. Len(job[c].left)
          /\ DOMAIN Tail(job[c].left) = 1 .. Len(job[c].left) - 1
          /\ \A k \in 1 .. Len(job[c].left) - 1 : Tail(job[c].left)[k] = job[c].left[k + 1]
      BY <1>2, <1>5
    <3>2. ASSUME NEW i \in DOMAIN job[c].left
          PROVE  job[c].left[i] = Head(job[c].left)
                 \/ \E k \in DOMAIN Tail(job[c].left) : Tail(job[c].left)[k] = job[c].left[i]
      <4>1. CASE i = 1
        BY <3>1, <4>1
      <4>2. CASE i # 1
        <5>1. i - 1 \in 1 .. Len(job[c].left) - 1 /\ (i - 1) + 1 = i
          BY <3>1, <3>2, <4>2
        <5>. QED  BY <3>1, <5>1
      <4>. QED  BY <4>1, <4>2
    <3>. QED  BY <3>1, <3>2
  <2>2. PICK x \in Jobs : x = [job[c] EXCEPT !.left = s]
    BY <1>2, JobFields
  <2>3. x.obj = job[c].obj /\ x.id = job[c].id /\ x.type = job[c].type /\ x.done = job[c].done /\ x.old = job[c].old
        /\ x.left = s
    BY <1>2, <2>2 DEF Jobs
  <2>4. Step(c, "replaying", x) /\ UNCHANGED readers
    BY <1>5, <2>1, <2>2 DEF Replaying
  <2>5. Serving("replaying", x)
    BY <1>2, <2>3 DEF Serving
  <2>6. Advances(c, "replaying", x)
    BY <1>1, <1>2, <2>3, <2>4, <2>5 DEF Advances, Places, Unstored
  <2>7. h.id \in Nat
    BY DEF Kept
  <2>8. written' \in [Conns -> SUBSET Nat] /\ (\A e \in Conns : written[e] \subseteq written'[e])
        /\ (h.type \in Replayed /\ link[c] = "up" => h.id \in written'[c])
    <3>1. CASE h.type \in Replayed
      <4>1. Egress(c, h.id)
        BY <1>5, <2>1, <3>1 DEF Replaying
      <4>. QED  BY <1>0, <2>7, <4>1, EgressWrites
    <3>2. CASE h.type \notin Replayed
      BY <1>2, <1>5, <2>1, <3>2 DEF Replaying
    <3>. QED  BY <3>1, <3>2
  <2>9. pc'[c] = "replaying" /\ job'[c] = x
    BY <1>0, <2>4, StepAt
  <2>10. ASSUME NEW m \in Kept, NEW e \in Conns, InHistory(m), Counts(e), Carries(c, m, e)
         PROVE  m.id \in written'[e] \/ Carries(c, m, e)'
    <3>1. e = c
      BY <1>1, <2>10 DEF Carries
    <3>2. PICK i \in DOMAIN job[c].left : job[c].left[i] = m
      BY <1>1, <2>10 DEF Carries
    <3>3. CASE m = h
      BY <2>8, <2>10, <3>1, <3>3 DEF InHistory, Counts
    <3>4. CASE \E k \in DOMAIN s : s[k] = m
      <4>1. Carries(c, m, c)'
        BY <2>3, <2>9, <3>4 DEF Carries
      <4>. QED  BY <3>1, <4>1
    <3>. QED  BY <2>1, <3>2, <3>3, <3>4
  <2>11. readers' \in [RoomObjects -> SUBSET Conns]
    BY <1>2, <2>4
  <2>. QED  BY <1>1, <1>3, <2>6, <2>8, <2>10, <2>11, WritingOK
<1>. QED  BY <1>4, <1>5

-----------------------------------------------------------------------------
(* Broadcast *)

\* A broadcast that has come to its end has had a turn for every user it started with who is
\* still there.
LEMMA CastEnds ==
  ASSUME Inv, NEW c \in Conns, pc[c] = "cast", CastUsers(c) \cap job[c].start \subseteq job[c].done,
         NEW m \in Kept, NEW e \in Conns, InHistory(m), Counts(e), Carries(c, m, e)
  PROVE  FALSE
<1>1. job[c].id = m.id /\ Owner[e] \in job[c].start /\ ~job[c].old /\ Owner[e] \notin job[c].done
  BY DEF Carries
<1>2. PICK o \in listed : Has(room[o].messages, m.id)
  BY DEF InHistory
<1>3. listed \subseteq RoomObjects
  BY Parts, BoundsAssumption DEF TypeOK, RoomObjects
<1>4. job[c].obj = o
  BY <1>1, <1>2, <1>3, Parts DEF MessagesInv
<1>5. Owner[e] \in room[o].users
  BY <1>2, Parts DEF RoomsInv, Counts
<1>. QED  BY <1>1, <1>4, <1>5 DEF CastUsers

\* The connection of a user that FindService finds is the one that counts.
LEMMA FindsIt ==
  ASSUME Inv, NEW e \in Conns, Counts(e)
  PROVE  FindService(Owner[e]) = {e}
<1>1. e \in services \cap named
  BY Parts DEF Counts, NamesInv
<1>2. \A d \in services \cap named : Owner[d] = Owner[e] => d = e
  BY <1>1, Parts DEF Counts, NamesInv
<1>. QED  BY <1>1, <1>2 DEF FindService

LEMMA CastOK == ASSUME Inv, NEW c \in Conns, Cast(c) PROVE Inv'
<1>0. TypeOK
  BY Parts
<1>1. pc[c] = "cast" /\ UNCHANGED <<chat, net, requests, ghost>>
  BY DEF Cast, At
<1>2. Busy(c) /\ Serving("cast", job[c]) /\ job[c] \in Jobs /\ room \in [RoomObjects -> RoomState]
      /\ readers \in [RoomObjects -> SUBSET Conns] /\ written \in [Conns -> SUBSET Nat]
  BY <1>0, <1>1 DEF Busy, TypeOK
<1>3. \A o : ~SeesTo(pc[c], job[c], o)
  BY <1>1 DEF SeesTo
<1>4. UNCHANGED <<listed, room, created, readers, written, caught, shadowed, split>>
  BY <1>1 DEF chat, ghost
<1>5. PICK l, x : /\ Advances(c, l, x)
                  /\ \A m \in Kept, e \in Conns : InHistory(m) /\ Counts(e) /\ Carries(c, m, e) => Carries(c, m, e)'
  <2>1. CASE \E u \in CastUsers(c) \ job[c].done :
               LET found == FindService(u)
                   seen == [job[c] EXCEPT !.done = @ \cup {u}]
               IN  IF found = {} THEN Step(c, "cast", seen)
                   ELSE \E d \in found : Step(c, "send", [seen EXCEPT !.to = d])
    <3>1. PICK u \in CastUsers(c) \ job[c].done :
               LET found == FindService(u)
                   seen == [job[c] EXCEPT !.done = @ \cup {u}]
               IN  IF found = {} THEN Step(c, "cast", seen)
                   ELSE \E d \in found : Step(c, "send", [seen EXCEPT !.to = d])
      BY <2>1
    <3>2. CastUsers(c) \in SUBSET Names
      <4>1. job[c].obj \in RoomObjects /\ room[job[c].obj] \in RoomState
        BY <1>0, <1>1, <1>2, ObjTyped DEF Serving
      <4>. QED  BY <1>2, <4>1 DEF CastUsers, Jobs, RoomState
    <3>3. job[c].done \cup {u} \in SUBSET Names
      BY <1>2, <3>1, <3>2 DEF Jobs
    <3>4. PICK y \in Jobs : y = [job[c] EXCEPT !.done = job[c].done \cup {u}]
      BY <1>2, <3>3, JobFields
    <3>5. y.obj = job[c].obj /\ y.id = job[c].id /\ y.type = job[c].type /\ y.old = job[c].old /\ y.start = job[c].start
          /\ y.done = job[c].done \cup {u}
      BY <1>2, <3>4 DEF Jobs
    <3>6. CASE FindService(u) = {}
      <4>1. Step(c, "cast", y)
        BY <3>1, <3>4, <3>6
      <4>2. Serving("cast", y)
        BY <1>2, <3>5 DEF Serving
      <4>3. Advances(c, "cast", y)
        BY <1>1, <1>2, <3>5, <4>1, <4>2 DEF Advances, Places, Unstored
      <4>4. pc'[c] = "cast" /\ job'[c] = y
        BY <1>0, <4>1, StepAt
      <4>5. ASSUME NEW m \in Kept, NEW e \in Conns, Counts(e), Carries(c, m, e) PROVE Carries(c, m, e)'
        <5>1. u # Owner[e]
          BY <3>6, <4>5, FindsIt
        <5>2. job[c].id = m.id /\ Owner[e] \in job[c].start /\ ~job[c].old /\ Owner[e] \notin job[c].done
          BY <1>1, <4>5 DEF Carries
        <5>. QED  BY <3>5, <4>4, <5>1, <5>2 DEF Carries
      <4>. QED  BY <4>3, <4>5
    <3>7. CASE FindService(u) # {}
      <4>1. PICK d \in FindService(u) : Step(c, "send", [y EXCEPT !.to = d])
        BY <3>1, <3>4, <3>7
      <4>2. d \in Conns
        BY <1>0 DEF FindService, TypeOK
      <4>3. PICK x \in Jobs : x = [y EXCEPT !.to = d]
        BY <4>2, JobFields
      <4>4. x.obj = job[c].obj /\ x.id = job[c].id /\ x.type = job[c].type /\ x.old = job[c].old /\ x.start = job[c].start
            /\ x.done = job[c].done \cup {u} /\ x.to = d
        BY <3>5, <4>3 DEF Jobs
      <4>5. Step(c, "send", x)
        BY <4>1, <4>3
      <4>6. Serving("send", x)
        BY <1>2, <4>4 DEF Serving
      <4>7. Advances(c, "send", x)
        BY <1>1, <1>2, <4>4, <4>5, <4>6 DEF Advances, Places, Unstored
      <4>8. pc'[c] = "send" /\ job'[c] = x
        BY <1>0, <4>5, StepAt
      <4>9. ASSUME NEW m \in Kept, NEW e \in Conns, Counts(e), Carries(c, m, e) PROVE Carries(c, m, e)'
        <5>1. u = Owner[e] => d = e
          BY <4>9, FindsIt
        <5>2. job[c].id = m.id /\ Owner[e] \in job[c].start /\ ~job[c].old /\ Owner[e] \notin job[c].done
          BY <1>1, <4>9 DEF Carries
        <5>. QED  BY <4>4, <4>8, <5>1, <5>2 DEF Carries
      <4>. QED  BY <4>7, <4>9
    <3>. QED  BY <3>6, <3>7
  <2>2. CASE CastUsers(c) \cap job[c].start \subseteq job[c].done /\ IF job[c].got THEN Finish(c) ELSE Goto(c, "answer")
    <3>1. \E l, x : Advances(c, l, x)
      <4>1. CASE job[c].got
        BY <1>0, <1>2, <2>2, <4>1, FinishAdvances
      <4>2. CASE ~job[c].got
        <5>1. Goto(c, "answer") /\ Serving("answer", job[c])
          BY <1>2, <2>2, <4>2 DEF Serving
        <5>. QED  BY <1>0, <1>2, <5>1, GotoAdvances DEF Places, Unstored
      <4>. QED  BY <4>1, <4>2
    <3>2. \A m \in Kept, e \in Conns : ~(InHistory(m) /\ Counts(e) /\ Carries(c, m, e))
      BY <1>1, <2>2, CastEnds
    <3>. QED  BY <3>1, <3>2
  <2>. QED  BY <2>1, <2>2 DEF Cast
<1>6. readers' \in [RoomObjects -> SUBSET Conns] /\ written' \in [Conns -> SUBSET Nat]
      /\ \A e \in Conns : written[e] \subseteq written'[e]
  BY <1>2, <1>4
<1>. QED  BY <1>1, <1>3, <1>4, <1>5, <1>6, WritingOK

LEMMA SendOK == ASSUME Inv, NEW c \in Conns, Send(c) PROVE Inv'
<1>0. TypeOK
  BY Parts
<1>1. /\ pc[c] = "send" /\ UNCHANGED <<chat, net, requests, caught, shadowed, split>>
      /\ Egress(job[c].to, job[c].id)
  BY DEF Send, At
<1>2. Busy(c) /\ Serving("send", job[c]) /\ job[c] \in Jobs /\ readers \in [RoomObjects -> SUBSET Conns]
      /\ job[c].to \in Conns /\ job[c].id \in Nat
  BY <1>0, <1>1 DEF Busy, TypeOK, Jobs
<1>3. \A o : ~SeesTo(pc[c], job[c], o)
  BY <1>1 DEF SeesTo
<1>4. UNCHANGED <<listed, room, created, net, requests, caught, shadowed, split>> /\ readers' \in [RoomObjects -> SUBSET Conns]
  BY <1>1, <1>2 DEF chat
<1>5. /\ written' \in [Conns -> SUBSET Nat]
      /\ \A e \in Conns : written[e] \subseteq written'[e]
      /\ link[job[c].to] = "up" => job[c].id \in written'[job[c].to]
  BY <1>0, <1>1, <1>2, EgressWrites
<1>6. PICK b \in BOOLEAN : b = (job[c].got \/ job[c].to = c)
  BY Zenon
<1>7. PICK x \in Jobs : x = [job[c] EXCEPT !.got = b]
  BY <1>2, JobFields
<1>8. x.obj = job[c].obj /\ x.id = job[c].id /\ x.type = job[c].type /\ x.old = job[c].old /\ x.start = job[c].start
      /\ x.done = job[c].done
  BY <1>2, <1>7 DEF Jobs
<1>9. Step(c, "cast", x)
  BY <1>6, <1>7 DEF Send
<1>10. Serving("cast", x)
  BY <1>2, <1>8 DEF Serving
<1>11. Advances(c, "cast", x)
  BY <1>1, <1>2, <1>8, <1>9, <1>10 DEF Advances, Places, Unstored
<1>12. pc'[c] = "cast" /\ job'[c] = x
  BY <1>0, <1>9, StepAt
<1>13. ASSUME NEW m \in Kept, NEW e \in Conns, InHistory(m), Counts(e), Carries(c, m, e)
       PROVE  m.id \in written'[e] \/ Carries(c, m, e)'
  <2>1. job[c].id = m.id /\ Owner[e] \in job[c].start /\ ~job[c].old /\ (job[c].to = e \/ Owner[e] \notin job[c].done)
    BY <1>1, <1>13 DEF Carries
  <2>2. CASE job[c].to = e
    BY <1>5, <1>13, <2>1, <2>2 DEF Counts
  <2>3. CASE Owner[e] \notin job[c].done
    BY <1>8, <1>12, <2>1, <2>3 DEF Carries
  <2>. QED  BY <2>1, <2>2, <2>3
<1>. QED  BY <1>3, <1>4, <1>5, <1>11, <1>13, WritingOK

LEMMA AnswerOK == ASSUME Inv, NEW c \in Conns, Answer(c) PROVE Inv'
<1>0. TypeOK
  BY Parts
<1>1. /\ pc[c] = "answer" /\ UNCHANGED <<chat, net, requests, caught, shadowed, split>>
      /\ Egress(c, job[c].id) /\ Finish(c)
  BY DEF Answer, At
<1>2. Busy(c) /\ readers \in [RoomObjects -> SUBSET Conns] /\ job[c].id \in Nat
  BY <1>0, <1>1 DEF Busy, TypeOK, Jobs
<1>3. \A o : ~SeesTo(pc[c], job[c], o)
  BY <1>1 DEF SeesTo
<1>4. UNCHANGED <<listed, room, created, net, requests, caught, shadowed, split>> /\ readers' \in [RoomObjects -> SUBSET Conns]
  BY <1>1, <1>2 DEF chat
<1>5. written' \in [Conns -> SUBSET Nat] /\ \A e \in Conns : written[e] \subseteq written'[e]
  BY <1>0, <1>1, <1>2, EgressWrites
<1>6. PICK l, x : Advances(c, l, x)
  BY <1>0, <1>1, <1>2, FinishAdvances
<1>7. \A m \in Kept, e \in Conns : ~Carries(c, m, e)
  BY <1>1 DEF Carries
<1>. QED  BY <1>3, <1>4, <1>5, <1>6, <1>7, WritingOK

-----------------------------------------------------------------------------
(* The end of a room *)

LEMMA RemoveAllUsersOK == ASSUME Inv, NEW c \in Conns, RemoveAllUsers(c) PROVE Inv'
<1>0. TypeOK /\ MessagesInv /\ NamesInv /\ RoomsInv /\ ReachInv /\ EmptyInv
  BY Parts
<1>1. pc[c] = "expire" /\ UNCHANGED <<listed, created, readers, net, requests, written, shadowed, split>>
  BY DEF RemoveAllUsers, At
<1>2. Busy(c) /\ Serving("expire", job[c]) /\ job[c] \in Jobs /\ \A p : ~SeesTo("expire", job[c], p)
  BY <1>0, <1>1 DEF Busy, TypeOK, SeesTo
<1>3. PICK o \in GetRoom :
          IF o = 0 THEN Done(c) /\ UNCHANGED <<room, caught>>
          ELSE /\ Unlocked(o)
               /\ room' = [room EXCEPT ![o].users = {}]
               /\ caught' = {d \in caught : Owner[d] \notin room[o].users}
               /\ pc' = [pc EXCEPT ![c] = "unlist"]
               /\ job' = [d \in Conns |->
                            CASE d = c -> [job[c] EXCEPT !.obj = o]
                              [] d # c /\ pc[d] \in {"cast", "send"} /\ job[d].obj = o /\ ~job[d].old
                                   -> [job[d] EXCEPT !.old = TRUE, !.gone = room[o].users]
                              [] OTHER -> job[d]]
  BY DEF RemoveAllUsers
<1>4. CASE o = 0
  <2>1. Done(c) /\ UNCHANGED <<chat, net, requests, ghost>>
    BY <1>1, <1>3, <1>4 DEF chat, ghost
  <2>2. Advances(c, "idle", NoJob)
    BY <1>0, <1>2, <2>1, DoneAdvances
  <2>. QED  BY <1>1, <1>2, <2>1, <2>2, AloneOK
<1>5. CASE o # 0
  <2>1. o \in listed /\ o \in RoomObjects /\ o \in 0 .. MaxRooms /\ room[o] \in RoomState /\ room[o].users \in SUBSET Names
    BY <1>0, <1>5, RoomsFound DEF TypeOK, RoomState
  <2>2. PICK r \in RoomState : r = [room[o] EXCEPT !.users = {}] /\ r.users = {} /\ r.messages = room[o].messages
    BY <2>1, RoomFields
  <2>3. room' = [room EXCEPT ![o] = r] /\ caught' = {d \in caught : Owner[d] \notin room[o].users}
        /\ pc' = [pc EXCEPT ![c] = "unlist"]
    BY <1>3, <1>5, <2>2
  <2>4. room'[o] = r /\ (\A p \in RoomObjects \ {o} : room'[p] = room[p]) /\ room' \in [RoomObjects -> RoomState]
        /\ listed \subseteq RoomObjects
    BY <1>0, <2>1, <2>3, BoundsAssumption DEF TypeOK, RoomObjects
  <2>5. pc'[c] = "unlist" /\ (\A d \in Conns \ {c} : pc'[d] = pc[d]) /\ pc' \in [Conns -> Places]
    BY <1>0, <2>3 DEF TypeOK, Places
  <2>6. job' = [d \in Conns |->
                  CASE d = c -> [job[c] EXCEPT !.obj = o]
                    [] d # c /\ pc[d] \in {"cast", "send"} /\ job[d].obj = o /\ ~job[d].old
                         -> [job[d] EXCEPT !.old = TRUE, !.gone = room[o].users]
                    [] OTHER -> job[d]]
    BY <1>3, <1>5
  <2>7. job'[c] \in Jobs /\ job'[c].obj = o /\ job'[c].id = job[c].id /\ job'[c].type = job[c].type
    <3>1. PICK x \in Jobs : x = [job[c] EXCEPT !.obj = o] /\ x.obj = o /\ x.id = job[c].id /\ x.type = job[c].type
      BY <1>2, <2>1, JobSame
    <3>2. job'[c] = x
      BY <2>6, <3>1
    <3>. QED  BY <3>1, <3>2
  <2>8. ASSUME NEW d \in Conns \ {c}
        PROVE  /\ job'[d] \in Jobs /\ job'[d].id = job[d].id /\ job'[d].type = job[d].type /\ job'[d].obj = job[d].obj
               /\ pc[d] \notin {"cast", "send"} => job'[d] = job[d]
    <3>1. job[d] \in Jobs
      BY <1>0 DEF TypeOK
    <3>2. PICK y \in Jobs : y = [job[d] EXCEPT !.old = TRUE, !.gone = room[o].users]
      BY <2>1, <3>1, JobFields
    <3>3. y.id = job[d].id /\ y.type = job[d].type /\ y.obj = job[d].obj
      BY <3>1, <3>2 DEF Jobs
    <3>4. CASE pc[d] \in {"cast", "send"} /\ job[d].obj = o /\ ~job[d].old
      <4>1. job'[d] = y
        BY <2>6, <3>2, <3>4
      <4>. QED  BY <3>3, <3>4, <4>1
    <3>5. CASE ~(pc[d] \in {"cast", "send"} /\ job[d].obj = o /\ ~job[d].old)
      <4>1. job'[d] = job[d]
        BY <2>6, <3>5
      <4>. QED  BY <3>1, <4>1
    <3>. QED  BY <3>4, <3>5
  <2>9. UNCHANGED <<services, link, writer, named>>
    BY <1>1 DEF net
  <2>10. TypeOK'
    <3>1. StateTypes'
      BY <1>0, <1>1, <2>3, <2>4, <2>9, TypeParts DEF StateTypes
    <3>2. job' \in [Conns -> Jobs]
      <4>1. \A d \in Conns : job'[d] \in Jobs
        BY <2>7, <2>8
      <4>2. job' = [d \in Conns |-> job'[d]]
        BY <2>6
      <4>. QED  BY <4>1, <4>2
    <3>3. Serving("unlist", job'[c])
      BY <1>2, <1>5, <2>7 DEF Serving
    <3>4. \A d \in Conns \ {c} : Serving(pc[d], job'[d])
      BY <1>0, <2>8 DEF Serving, TypeOK
    <3>5. MoveTypes'
      BY <2>5, <3>2, <3>3, <3>4 DEF MoveTypes
    <3>. QED  BY <3>1, <3>5, TypeParts, PTL
  <2>11. \A d \in Conns : Busy(d)' <=> Busy(d)
    BY <1>1, <2>5 DEF Busy
  <2>12. \A p \in RoomObjects : room'[p].messages = room[p].messages
    BY <2>2, <2>4
  <2>13. MessagesInv'
    <3>1. (\A d \in Conns : Busy(d) => job[d].id \in 1 .. requests)'
      BY <1>0, <1>1, <2>7, <2>8, <2>11 DEF MessagesInv
    <3>2. (\A b, d \in Conns : Busy(b) /\ Busy(d) /\ b # d => job[b].id # job[d].id)'
      BY <1>0, <2>7, <2>8, <2>11 DEF MessagesInv
    <3>3. (\A p \in RoomObjects, n \in Nat : Has(room[p].messages, n) => n <= requests)'
      BY <1>0, <1>1, <2>12 DEF MessagesInv
    <3>4. ASSUME NEW d \in Conns, Unstored(pc'[d], job'[d])
          PROVE  job'[d].done = {} /\ ~job'[d].old /\ \A p \in RoomObjects : ~Has(room'[p].messages, job'[d].id)
      <4>1. d # c
        BY <1>2, <2>5, <2>7, <3>4 DEF Unstored, Serving
      <4>2. pc'[d] = pc[d] /\ job'[d].type = job[d].type
        BY <2>5, <2>8, <4>1
      <4>3. Unstored(pc[d], job[d]) /\ pc[d] \notin {"cast", "send"}
        BY <3>4, <4>2 DEF Unstored
      <4>4. job'[d] = job[d]
        BY <2>8, <4>1, <4>3
      <4>. QED  BY <1>0, <2>12, <4>3, <4>4 DEF MessagesInv
    <3>5. ASSUME NEW d \in Conns, NEW p \in RoomObjects, pc'[d] \in {"cast", "send"}, Has(room'[p].messages, job'[d].id)
          PROVE  job'[d].obj = p
      <4>1. d # c
        BY <2>5, <3>5
      <4>. QED  BY <1>0, <2>5, <2>8, <2>12, <3>5, <4>1 DEF MessagesInv
    <3>6. (\A d \in Conns : Unstored(pc[d], job[d]) =>
               job[d].done = {} /\ ~job[d].old /\ \A p \in RoomObjects : ~Has(room[p].messages, job[d].id))'
      BY <3>4
    <3>7. (\A d \in Conns, p \in RoomObjects : pc[d] \in {"cast", "send"} /\ Has(room[p].messages, job[d].id) => job[d].obj = p)'
      BY <3>5
    <3>. QED  BY <3>1, <3>2, <3>3, <3>6, <3>7 DEF MessagesInv
  <2>14. NamesInv'
    BY <1>0, <1>1, <2>3, <2>9, <2>11 DEF NamesInv
  <2>15. RoomsInv'
    <3>1. ASSUME NEW d \in caught' PROVE \E p \in listed' : Owner[d] \in room'[p].users
      <4>1. PICK p \in listed : Owner[d] \in room[p].users
        BY <1>0, <2>3, <3>1 DEF RoomsInv
      <4>2. p # o
        BY <2>3, <3>1, <4>1
      <4>. QED  BY <1>1, <2>4, <4>1, <4>2
    <3>. QED  BY <1>0, <1>1, <3>1 DEF RoomsInv
  <2>16. \A e \in Conns : ~Counts(e)'
    <3>1. ASSUME NEW e \in Conns, Counts(e)' PROVE FALSE
      <4>1. PICK p \in listed' : Owner[e] \in room'[p].users
        BY <2>15, <3>1 DEF RoomsInv, Counts
      <4>2. p = o
        BY <1>0, <1>1, <2>1, <3>1 DEF RoomsInv, Counts
      <4>. QED  BY <2>2, <2>4, <4>1, <4>2
    <3>. QED  BY <3>1
  <2>17. ReachInv'
    BY <2>16 DEF ReachInv
  <2>18. EmptyInv'
    <3>1. ASSUME NEW p \in listed', room'[p].users = {} PROVE \E d \in Conns : SeesTo(pc'[d], job'[d], p)
      <4>1. CASE p = o
        BY <2>5, <2>7, <4>1 DEF SeesTo
      <4>2. CASE p # o
        <5>1. room[p].users = {} /\ p \in listed
          BY <1>1, <2>4, <3>1, <4>2
        <5>2. PICK d \in Conns : SeesTo(pc[d], job[d], p)
          BY <1>0, <5>1 DEF EmptyInv
        <5>3. d # c /\ pc[d] \notin {"cast", "send"}
          BY <1>1, <1>2, <5>2 DEF SeesTo
        <5>4. pc'[d] = pc[d] /\ job'[d] = job[d]
          BY <2>5, <2>8, <5>3
        <5>. QED  BY <5>2, <5>4
      <4>. QED  BY <4>1, <4>2
    <3>. QED  BY <3>1 DEF EmptyInv
  <2>. QED  BY <2>10, <2>13, <2>14, <2>15, <2>17, <2>18 DEF Inv
<1>. QED  BY <1>4, <1>5

-----------------------------------------------------------------------------
(* The theorems *)

LEMMA NewRoomTyped == \E y \in RoomState : y = NewRoom /\ y.messages = <<>> /\ DOMAIN y.messages = {}
<1>1. NoRound \in RoundState
  BY DEF NoRound, RoundState
<1>2. NewRoom \in RoomState /\ NewRoom.messages = <<>>
  BY <1>1 DEF NewRoom, RoomState
<1>3. DOMAIN <<>> = {}
  OBVIOUS
<1>. QED  BY <1>2, <1>3

\* The room that First has joined.
LEMMA OpenedRoom ==
  \E r \in RoomState :
      /\ r = AddMessage([NewRoom EXCEPT !.users = {Owner[First]}], [type |-> "user-joined", id |-> 1])
      /\ r.users = {Owner[First]} /\ \A i \in DOMAIN r.messages : r.messages[i].id = 1
<1>1. PICK m \in Kept : m = [type |-> "user-joined", id |-> 1] /\ m.id = 1
  <2>1. "join-room" \in RequestTypes
    BY DEF RequestTypes
  <2>2. ResponseType["join-room"] = "user-joined"
    BY <2>1 DEF ResponseType
  <2>3. [type |-> "user-joined", id |-> 1] \in Kept
    BY <2>1, <2>2 DEF Kept
  <2>. QED  BY <2>3
<1>2. PICK s \in RoomState : s = [NewRoom EXCEPT !.users = {Owner[First]}] /\ s.users = {Owner[First]}
                              /\ DOMAIN s.messages = {}
  <2>1. {Owner[First]} \in SUBSET Names
    BY ConnsAssumption, NamesAssumption DEF Names
  <2>2. PICK y \in RoomState : y = NewRoom /\ DOMAIN y.messages = {}
    BY NewRoomTyped
  <2>3. PICK s \in RoomState : s = [y EXCEPT !.users = {Owner[First]}] /\ s.users = {Owner[First]}
                               /\ s.messages = y.messages
    BY <2>1, RoomFields
  <2>. QED  BY <2>2, <2>3
<1>3. PICK r \in RoomState : r = AddMessage(s, m) /\ r.users = s.users
          /\ \A i \in DOMAIN r.messages : r.messages[i] = m \/ \E k \in DOMAIN s.messages : r.messages[i] = s.messages[k]
  BY AddMessageKeeps
<1>4. \A i \in DOMAIN r.messages : r.messages[i] = m
  BY <1>2, <1>3
<1>. QED  BY <1>1, <1>2, <1>3, <1>4

LEMMA Initially == ASSUME Init PROVE Inv
<1>1. PICK opened \in BOOLEAN :
        /\ created = IF opened THEN 1 ELSE 0
        /\ listed = 1 .. created
        /\ room = [o \in RoomObjects |->
                     IF o \in listed
                       THEN AddMessage([NewRoom EXCEPT !.users = {Owner[First]}],
                                       [type |-> "user-joined", id |-> 1])
                       ELSE NewRoom]
        /\ named = IF opened THEN {First} ELSE {}
        /\ caught = named
        /\ written = [c \in Conns |-> IF c \in named THEN {1} ELSE {}]
        /\ readers = [o \in RoomObjects |-> {}]
        /\ services = Conns
        /\ link = [c \in Conns |-> "up"]
        /\ writer = [c \in Conns |-> TRUE]
        /\ pc = [c \in Conns |-> "idle"]
        /\ job = [c \in Conns |-> NoJob]
        /\ requests = 1 /\ drops = 0
        /\ shadowed = {} /\ split = FALSE
  BY DEF Init
<1>2. PICK r \in RoomState :
          /\ r = AddMessage([NewRoom EXCEPT !.users = {Owner[First]}], [type |-> "user-joined", id |-> 1])
          /\ r.users = {Owner[First]} /\ \A i \in DOMAIN r.messages : r.messages[i].id = 1
  BY OpenedRoom
<1>3. room = [o \in RoomObjects |-> IF o \in listed THEN r ELSE NewRoom]
  BY <1>1, <1>2
<1>4. PICK y \in RoomState : y = NewRoom /\ DOMAIN y.messages = {}
  BY NewRoomTyped
<1>5. created \in 0 .. MaxRooms /\ listed \subseteq 1 .. created /\ listed \subseteq {1} /\ listed \subseteq RoomObjects
      /\ (caught # {} => 1 \in listed) /\ caught \subseteq {First} /\ named \subseteq Conns
  BY <1>1, BoundsAssumption, ConnsAssumption DEF RoomObjects
<1>6. TypeOK
  <2>1. StateTypes
    <3>1. room \in [RoomObjects -> RoomState]
      BY <1>3, <1>4
    <3>2. written \in [Conns -> SUBSET Nat] /\ readers \in [RoomObjects -> SUBSET Conns] /\ split \in BOOLEAN
      <4>1. written = [c \in Conns |-> IF c \in named THEN {1} ELSE {}] /\ {1} \in SUBSET Nat
        BY <1>1
      <4>2. written \in [Conns -> SUBSET Nat]
        BY <4>1
      <4>. QED  BY <1>1, <4>2
    <3>3. link \in [Conns -> {"up", "down"}] /\ writer \in [Conns -> BOOLEAN] /\ requests \in Nat
      BY <1>1
    <3>4. services \subseteq Conns /\ caught \subseteq Conns /\ shadowed \subseteq Conns
      BY <1>1, <1>5
    <3>. QED  BY <1>5, <3>1, <3>2, <3>3, <3>4 DEF StateTypes
  <2>2. Serving("idle", NoJob) /\ "idle" \in Places
    BY DEF Serving, Places
  <2>3. MoveTypes
    BY <1>1, <2>2, NoJobTyped DEF MoveTypes
  <2>. QED  BY <2>1, <2>3, TypeParts
<1>7. \A o \in RoomObjects : \A i \in DOMAIN room[o].messages : room[o].messages[i].id = 1
  <2>1. \A o \in RoomObjects : room[o] = r \/ room[o] = y
    BY <1>3, <1>4
  <2>. QED  BY <1>2, <1>4, <2>1
<1>8. MessagesInv
  <2>1. \A c \in Conns : ~Busy(c) /\ ~Unstored(pc[c], job[c]) /\ pc[c] \notin {"cast", "send"}
    BY <1>1 DEF Busy, Unstored
  <2>2. \A o \in RoomObjects, n \in Nat : Has(room[o].messages, n) => n <= requests
    BY <1>1, <1>7 DEF Has
  <2>. QED  BY <2>1, <2>2 DEF MessagesInv
<1>9. NamesInv
  BY <1>1 DEF NamesInv, Busy
<1>10. RoomsInv
  BY <1>2, <1>3, <1>5 DEF RoomsInv
<1>11. ReachInv
  <2>1. \A c \in Conns : c \in caught => 1 \in written[c]
    BY <1>1
  <2>. QED  BY <1>5, <1>7, <2>1 DEF ReachInv, Counts, Reached
<1>12. EmptyInv
  BY <1>2, <1>3, <1>5 DEF EmptyInv
<1>. QED  BY <1>6, <1>8, <1>9, <1>10, <1>11, <1>12 DEF Inv

LEMMA Steps == ASSUME Inv, [Next]_vars PROVE Inv'
<1>1. CASE UNCHANGED vars
  BY <1>1, StayOK
<1>2. CASE MapFault
  BY <1>2, MapFaultOK
<1>3. ASSUME NEW c \in Conns, Drop(c) \/ ReadEnds(c) \/ Ping(c) PROVE Inv'
  BY <1>3, DropOK, ReadEndsOK, PingOK
<1>4. ASSUME NEW c \in Conns, NEW t \in Requests, NEW u \in Users \cup {"none"}, Read(c, t, u) PROVE Inv'
  BY <1>4, ReadOK
<1>5. ASSUME NEW c \in Conns, Serve(c) PROVE Inv'
  BY <1>5, FindOK, CreateRoomOK, JoinKnownOK, AddUserOK, UserKnownOK, RemoveUserOK, IsEmptyOK, RemoveRoomOK, RoundOK,
     LineOK, ReplayOK, ReplayingOK, LookOK, StoreOK, CastOK, SendOK, AnswerOK, RemoveAllUsersOK DEF Serve
<1>. QED  BY <1>1, <1>2, <1>3, <1>4, <1>5 DEF Next

\* At every moment it is known who will bring a stored message to a panel that has joined, and
\* who sees to a room without users, however the readers of rtc-service interleave.
THEOREM RtcInvariant == Spec => []Inv
<1>1. Init => Inv
  BY Initially
<1>2. Inv /\ [Next]_vars => Inv'
  BY Steps
<1>. QED  BY <1>1, <1>2, PTL DEF Spec

\* A panel that has joined misses no message that is kept in its room (service.go:106-175): it is
\* written to its connection, or a reader is still to write it there, for any number of
\* connections, requests and losses.
THEOREM NothingIsMissed == Spec => []NoMessageMissed
<1>1. Inv => NoMessageMissed
  <2>. SUFFICES ASSUME Inv, NEW o \in listed, NEW c \in caught \cap services, Owner[c] \in room[o].users,
                       link[c] = "up", c \notin shadowed, ~split, NEW i \in DOMAIN room[o].messages,
                       room[o].messages[i].type \in Replayed, room[o].messages[i].id # 0
                PROVE  room[o].messages[i].id \in written[c] \/ Underway(room[o].messages[i], c)
    BY DEF NoMessageMissed
  <2>1. c \in Conns /\ Counts(c)
    BY Parts DEF TypeOK, Counts
  <2>2. PICK m : m = room[o].messages[i]
    OBVIOUS
  <2>3. Reached(m, c)
    BY <2>1, <2>2, Parts DEF ReachInv
  <2>4. m.id \in written[c] \/ Underway(m, c)
    BY <2>1, <2>3 DEF Reached, Carries, Underway, At
  <2>. QED  BY <2>2, <2>4
<1>. QED  BY <1>1, RtcInvariant, PTL

\* A room that is listed without users is about to get one or to be taken from the list
\* (leave-room-request.go:70-73), however joins interleave with leave-room and room-expired.
THEOREM EmptyRoomsLeave == Spec => []EmptyRoomLeaves
<1>1. Inv => EmptyRoomLeaves
  BY Parts DEF EmptyInv, EmptyRoomLeaves, SeesTo
<1>. QED  BY <1>1, RtcInvariant, PTL

=============================================================================
