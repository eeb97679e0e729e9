----------------------------- MODULE RtcService -----------------------------
(***************************************************************************)
(* rtc-service: the websocket connections of central-service and of the    *)
(* panels, and what the service keeps in memory of one room.               *)
(*                                                                         *)
(* Every connection has a reader (ReadMessages), which serves one request  *)
(* after the other, and a writer (WriteMessages), which takes responses    *)
(* from the unbuffered channel Egress.  A send is a meeting of a reader    *)
(* with the writer of some connection.  Readers interleave at every lock   *)
(* and at every send.                                                      *)
(*                                                                         *)
(* Rooms are listed by pointer, so several objects may have the id of the  *)
(* room; they are numbered here in the order of their creation.            *)
(***************************************************************************)
EXTENDS Integers, FiniteSets, Sequences, SequencesExt

CONSTANTS
    Conns,           \* connections, each of which is used once
    Central,         \* the connection of central-service
    First,           \* the panel that has joined in some initial states
    Background,      \* connections of background scripts: their joins are suppressed
    Owner,           \* the name that the messages of a connection carry
    Users,           \* handles of users
    MaxHistorySize,
    ProfanityFilter, \* the choice of the room's creator
    Requests,        \* the types of requests that are made
    MaxRequests,     \* bound: requests that are read
    MaxRooms,        \* bound: room objects that are created
    Losable,         \* bound: connections that may be lost
    MaxDrops         \* bound: number of connections that are lost

RequestTypes == {"join-room", "leave-room", "chat-message", "join-round", "round-start",
                 "round-end", "admin-change", "new-submission", "next-problem",
                 "room-expired", "invalid"}

ASSUME ConnsAssumption == Central \in Conns /\ First \in Conns \ {Central}
ASSUME BackgroundAssumption == Background \subseteq Conns \ {Central}
ASSUME NamesAssumption == Owner \in [Conns -> Users \cup {"central-service"}]
ASSUME OwnerAssumption == \A c \in Conns : Owner[c] = "central-service" <=> c = Central
ASSUME FilterAssumption == ProfanityFilter \in BOOLEAN
ASSUME RequestsAssumption == Requests \subseteq RequestTypes
ASSUME BoundsAssumption ==
    /\ MaxHistorySize \in Nat \ {0} /\ MaxRequests \in Nat \ {0}
    /\ MaxRooms \in Nat \ {0} /\ MaxDrops \in Nat

VARIABLES
    listed,      \* RTCChatManager.Rooms
    room,        \* the room objects
    created,     \* number of room objects
    readers,     \* per room object: who holds its lock for reading
    services,    \* ServiceManager.Services
    link,        \* per connection: its websocket
    writer,      \* per connection: its WriteMessages is running
    named,       \* connections whose Name has been set by a message
    pc, job,     \* per connection: where its reader is, and the request it serves
    requests,    \* number of requests that were read
    drops,
    written,     \* history: ids of the messages written to a connection
    caught,      \* history: connections that were given the history of the room
                 \* object of their user since he entered it
    shadowed,    \* history: connections that shared their name with another one
    split        \* history: two room objects were listed at the same time

chat == <<listed, room, created, readers>>
net == <<services, link, writer, named, drops>>
ghost == <<written, caught, shadowed, split>>
vars == <<chat, net, pc, job, requests, ghost>>

RoomObjects == 1 .. MaxRooms

\* The responses the requests have, and what is done with them.
ResponseType ==
    [t \in RequestTypes |->
        CASE t = "join-room" -> "user-joined"
          [] t = "leave-room" -> "user-left"
          [] t = "join-round" -> "round-join"
          [] t \in {"round-end", "new-submission"} -> "system-announcement"
          [] t = "invalid" -> "general"
          [] OTHER -> t]

Control == {"round-start", "next-problem"}
Broadcast == {"chat-message", "system-announcement", "round-start", "next-problem",
              "room-expired", "admin-change", "round-join", "user-joined", "user-left"}
Replayed == {"chat-message", "system-announcement", "round-join", "user-joined", "user-left"}

\* AddMessage: the history is trimmed from the front.
AddMessage(r, m) ==
    LET all == Append(r.messages, m)
    IN  [r EXCEPT !.messages =
            IF Len(all) > MaxHistorySize
              THEN SubSeq(all, Len(all) - MaxHistorySize + 1, Len(all)) ELSE all]

NoRound == [status |-> "not-started", participants |-> {}]
NewRoom == [users |-> {}, messages |-> <<>>, filter |-> FALSE, round |-> NoRound]

\* silent: the response is an empty announcement; obj: the room object in
\* hand; left: what is still to be replayed.  Of a broadcast, start: the users
\* when it began; old, gone: RemoveAllUsers has replaced the map of the users
\* since, and what the map held; done: who has had his turn; to: the connection
\* that was found; got: the sender is among them.
NoJob == [type |-> "none", user |-> "none", silent |-> FALSE, error |-> FALSE, id |-> 0, obj |-> 0,
          start |-> {}, gone |-> {}, old |-> FALSE, done |-> {}, to |-> Central, got |-> FALSE,
          left |-> <<>>]

\* The connections that wsHandler has accepted, with their readers and writers
\* running.  Either nothing has been said yet, or the panel First has joined and
\* was answered.
Init ==
    \E opened \in BOOLEAN :
      /\ created = IF opened THEN 1 ELSE 0
      /\ listed = 1 .. created
      /\ room = [o \in RoomObjects |->
                   IF o \in listed
                     THEN AddMessage([NewRoom EXCEPT !.users = {Owner[First]}],
                                     [type |-> "user-joined", id |-> 1])
                     ELSE NewRoom]
      /\ named = IF opened THEN {First} ELSE {}
      /\ caught = named
      /\ written = [c \in Conns |-> IF c \in named THEN {1} ELSE {}]
      /\ readers = [o \in RoomObjects |-> {}]
      /\ services = Conns
      /\ link = [c \in Conns |-> "up"]
      /\ writer = [c \in Conns |-> TRUE]
      /\ pc = [c \in Conns |-> "idle"]
      /\ job = [c \in Conns |-> NoJob]
      /\ requests = 1 /\ drops = 0
      /\ shadowed = {} /\ split = FALSE

At(c, l) == pc[c] = l
Goto(c, l) == pc' = [pc EXCEPT ![c] = l] /\ UNCHANGED job
Step(c, l, j) == pc' = [pc EXCEPT ![c] = l] /\ job' = [job EXCEPT ![c] = j]
Done(c) == Step(c, "idle", NoJob)

\* The request fails: its sender is answered, and nobody else.
Refuse(c) == Step(c, "answer", [job[c] EXCEPT !.error = TRUE])

Response(c) == [type |-> ResponseType[job[c].type], id |-> job[c].id]

\* GetRoom: the first object with the id of the room in the order of a map;
\* 0 when there is none.
GetRoom == IF listed = {} THEN {0} ELSE listed

\* Nobody holds the lock of a room object for reading.
Unlocked(o) == readers[o] = {}

-----------------------------------------------------------------------------
(* Connections *)

\* The peer closes the websocket, or is not heard of for PONG_WAIT.  Nobody
\* could tell before the first message of the connection.
Drop(c) ==
    /\ link[c] = "up" /\ c \in named \cap Losable /\ drops < MaxDrops
    /\ link' = [link EXCEPT ![c] = "down"] /\ drops' = drops + 1
    /\ UNCHANGED <<chat, services, writer, named, pc, job, requests, ghost>>

RemoveService(c) == services' = services \ {c}
FindService(u) == {d \in services \cap named : Owner[d] = u}

\* ReadMessage fails: the reader ends with RemoveService.
ReadEnds(c) ==
    /\ At(c, "idle") /\ link[c] = "down"
    /\ RemoveService(c)
    /\ Goto(c, "ended")
    /\ UNCHANGED <<chat, link, writer, named, drops, requests, ghost>>

\* Mutant: the writer ends without removing the connection.
PingForgets(c) ==
    /\ writer[c] /\ link[c] = "down"
    /\ writer' = [writer EXCEPT ![c] = FALSE]
    /\ UNCHANGED <<chat, services, link, named, drops, pc, job, requests, ghost>>

\* The next ping fails: the writer ends, with RemoveService, even while a
\* reader waits for it.
Ping(c) ==
    /\ writer[c] /\ link[c] = "down"
    /\ writer' = [writer EXCEPT ![c] = FALSE]
    /\ RemoveService(c)
    /\ UNCHANGED <<chat, link, named, drops, pc, job, requests, ghost>>

\* The writer of d takes message id; it logs a failure and goes on.
Egress(d, id) ==
    /\ writer[d]
    /\ written' = [written EXCEPT ![d] = IF link[d] = "up" THEN @ \cup {id} ELSE @]

\* What panels and central-service send.
FromPanel == {"join-room", "chat-message", "invalid"}
FromCentral == RequestTypes \ {"chat-message", "invalid"}
NamesUser == {"join-room", "leave-room", "chat-message", "join-round"}

\* Handle of these does not look at the room.
WithoutRoom == {"admin-change", "new-submission", "next-problem", "room-expired"}

\* Whether the announcement of a request is empty from the start: a suppressed
\* join, and a submission that was not accepted.
Empty(c, t) ==
    CASE t = "join-room" -> {c \in Background}
      [] t = "new-submission" -> BOOLEAN
      [] OTHER -> {FALSE}

\* A message is read.  It sets the name of the connection; the requests of
\* panels name their own user.
Read(c, t, u) ==
    /\ At(c, "idle") /\ link[c] = "up" /\ requests < MaxRequests
    /\ IF c = Central THEN t \in FromCentral ELSE t \in FromPanel /\ u \in {Owner[c], "none"}
    /\ t \in NamesUser <=> u # "none"
    /\ requests' = requests + 1
    /\ named' = named \cup {c}
    /\ LET twins == FindService(Owner[c]) \ {c}
       IN  shadowed' = IF twins = {} THEN shadowed ELSE shadowed \cup twins \cup {c}
    /\ \E quiet \in Empty(c, t) :
          Step(c,
               CASE t = "invalid" -> "answer"
                 [] t \in WithoutRoom -> "look"
                 [] OTHER -> "find",
               [NoJob EXCEPT !.type = t, !.user = u, !.id = requests',
                             !.silent = quiet, !.error = t = "invalid"])
    /\ UNCHANGED <<chat, services, link, writer, drops, written, caught, split>>

-----------------------------------------------------------------------------
(* Handle of the requests *)

Find(c) ==
    /\ At(c, "find")
    /\ \E o \in GetRoom :
          LET found == [job[c] EXCEPT !.obj = o]
          IN  CASE job[c].type = "join-room" -> Step(c, IF o = 0 THEN "create" ELSE "known", found)
                [] job[c].type \in {"leave-room", "chat-message"} ->
                       IF o = 0 THEN Refuse(c) ELSE Step(c, "known", found)
                [] OTHER -> Step(c, IF o = 0 THEN "look" ELSE "round", found)
    /\ UNCHANGED <<chat, net, requests, ghost>>

\* CreateRoom never finds its fresh pointer in the list.
CreateRoom(c) ==
    /\ At(c, "create") /\ created < MaxRooms
    /\ created' = created + 1
    /\ listed' = listed \cup {created'}
    /\ split' = (split \/ listed # {})
    /\ Step(c, "known", [job[c] EXCEPT !.obj = created'])
    /\ UNCHANGED <<room, readers, net, requests, written, caught, shadowed>>

\* SetProfanityFilter, for central-service only, and GetUser: a user who is
\* there rejoins, without an announcement.
JoinKnown(c) ==
    /\ At(c, "known") /\ job[c].type = "join-room"
    /\ IF c = Central
         THEN Unlocked(job[c].obj) /\ room' = [room EXCEPT ![job[c].obj].filter = ProfanityFilter]
         ELSE UNCHANGED room
    /\ Step(c, "add", [job[c] EXCEPT !.silent = @ \/ job[c].user \in room[job[c].obj].users])
    /\ UNCHANGED <<listed, created, readers, net, requests, ghost>>

AddUser(c) ==
    /\ At(c, "add") /\ Unlocked(job[c].obj)
    /\ room' = [room EXCEPT ![job[c].obj].users = @ \cup {job[c].user}]
    /\ Goto(c, "replay")
    /\ UNCHANGED <<listed, created, readers, net, requests, ghost>>

\* GetUser of leave-room and chat-message.  A message is refused when it has
\* profanity and the room's filter is set.
UserKnown(c) ==
    /\ At(c, "known") /\ job[c].type # "join-room"
    /\ \/ job[c].user \notin room[job[c].obj].users /\ Refuse(c)
       \/ /\ job[c].user \in room[job[c].obj].users
          /\ Goto(c, IF job[c].type = "leave-room" THEN "remove" ELSE "look")
       \/ job[c].type = "chat-message" /\ room[job[c].obj].filter /\ Refuse(c)
    /\ UNCHANGED <<chat, net, requests, ghost>>

\* Mutant: the room is looked at before the user is removed.
RemoveUserLate(c) ==
    /\ At(c, "remove") /\ Unlocked(job[c].obj)
    /\ room' = [room EXCEPT ![job[c].obj].users = @ \ {job[c].user}]
    /\ caught' = {d \in caught : Owner[d] # job[c].user}
    /\ Goto(c, IF room[job[c].obj].users = {} THEN "unlist" ELSE "look")
    /\ UNCHANGED <<listed, created, readers, net, requests, written, shadowed, split>>

RemoveUser(c) ==
    /\ At(c, "remove") /\ Unlocked(job[c].obj)
    /\ room' = [room EXCEPT ![job[c].obj].users = @ \ {job[c].user}]
    /\ caught' = {d \in caught : Owner[d] # job[c].user}
    /\ Goto(c, "empty")
    /\ UNCHANGED <<listed, created, readers, net, requests, written, shadowed, split>>

IsEmpty(c) ==
    /\ At(c, "empty")
    /\ Goto(c, IF room[job[c].obj].users = {} THEN "unlist" ELSE "look")
    /\ UNCHANGED <<chat, net, requests, ghost>>

\* RemoveRoom, which refuses a room that has users by now, as the last step
\* of leave-room and of room-expired.
RemoveRoom(c) ==
    /\ At(c, "unlist")
    /\ listed' = IF room[job[c].obj].users = {} THEN listed \ {job[c].obj} ELSE listed
    /\ IF job[c].type = "room-expired" THEN Done(c) ELSE Goto(c, "look")
    /\ UNCHANGED <<room, created, readers, net, requests, ghost>>

\* StartRound, EndRound and JoinRound; without a round the last two do nothing.
RoundAfter(q, t, u) ==
    IF t = "round-start" THEN [status |-> "in-progress", participants |-> {}]
    ELSE IF q = NoRound THEN q
    ELSE IF t = "round-end" THEN [q EXCEPT !.status = "ended"]
    ELSE [q EXCEPT !.participants = @ \cup {u}]

Round(c) ==
    /\ At(c, "round") /\ Unlocked(job[c].obj)
    /\ room' = [room EXCEPT ![job[c].obj].round = RoundAfter(@, job[c].type, job[c].user)]
    /\ Goto(c, IF job[c].type = "round-start" THEN "line" ELSE "look")
    /\ UNCHANGED <<listed, created, readers, net, requests, ghost>>

\* "The round has started": a line of the history that is never broadcast.
Line(c) ==
    /\ At(c, "line") /\ Unlocked(job[c].obj)
    /\ room' = [room EXCEPT ![job[c].obj] = AddMessage(@, [type |-> "system-announcement", id |-> 0])]
    /\ Goto(c, "look")
    /\ UNCHANGED <<listed, created, readers, net, requests, ghost>>

-----------------------------------------------------------------------------
(* Replay, history and broadcast in ReadMessages *)

\* Mutant: a silent join is not given the history.
ReplayLoud(c) ==
    /\ At(c, "replay")
    /\ \E o \in GetRoom :
          IF o = 0 \/ job[c].silent
            THEN /\ Goto(c, "look")
                 /\ caught' = IF o # 0 /\ Owner[c] \in room[o].users THEN caught \cup {c} ELSE caught
                 /\ UNCHANGED readers
            ELSE /\ readers' = [readers EXCEPT ![o] = @ \cup {c}]
                 /\ Step(c, "replaying", [job[c] EXCEPT !.obj = o, !.left = room[o].messages])
                 /\ caught' = IF Owner[c] \in room[o].users THEN caught \cup {c} ELSE caught
    /\ UNCHANGED <<listed, room, created, net, requests, written, shadowed, split>>

\* The room is looked up again and its lock taken for the whole replay.
Replay(c) ==
    /\ At(c, "replay")
    /\ \E o \in GetRoom :
          IF o = 0 THEN Goto(c, "look") /\ UNCHANGED <<readers, caught>>
          ELSE /\ readers' = [readers EXCEPT ![o] = @ \cup {c}]
               /\ Step(c, "replaying", [job[c] EXCEPT !.obj = o, !.left = room[o].messages])
               /\ caught' = IF Owner[c] \in room[o].users THEN caught \cup {c} ELSE caught
    /\ UNCHANGED <<listed, room, created, net, requests, written, shadowed, split>>

\* Mutant: the lock is released only if there was something to send.
ReplayingKeepsLock(c) ==
    /\ At(c, "replaying")
    /\ IF job[c].left = <<>>
         THEN /\ readers' = IF room[job[c].obj].messages = <<>> THEN readers
                            ELSE [readers EXCEPT ![job[c].obj] = @ \ {c}]
              /\ Goto(c, "look") /\ UNCHANGED written
         ELSE /\ IF Head(job[c].left).type \in Replayed THEN Egress(c, Head(job[c].left).id)
                   ELSE UNCHANGED written
              /\ Step(c, "replaying", [job[c] EXCEPT !.left = Tail(@)])
              /\ UNCHANGED readers
    /\ UNCHANGED <<listed, room, created, net, requests, caught, shadowed, split>>

\* The next message of the history, which is sent unless its type is not replayed.
Replaying(c) ==
    /\ At(c, "replaying")
    /\ IF job[c].left = <<>>
         THEN /\ readers' = [readers EXCEPT ![job[c].obj] = @ \ {c}]
              /\ Goto(c, "look") /\ UNCHANGED written
         ELSE /\ IF Head(job[c].left).type \in Replayed THEN Egress(c, Head(job[c].left).id)
                   ELSE UNCHANGED written
              /\ Step(c, "replaying", [job[c] EXCEPT !.left = Tail(@)])
              /\ UNCHANGED readers
    /\ UNCHANGED <<listed, room, created, net, requests, caught, shadowed, split>>

\* An empty announcement, and one for a room that is gone, is for the sender
\* only.
Look(c) ==
    /\ At(c, "look")
    /\ \E o \in GetRoom :
          Step(c, IF job[c].silent \/ Response(c).type \notin Broadcast \/ o = 0 THEN "answer" ELSE "store",
               [job[c] EXCEPT !.obj = o])
    /\ UNCHANGED <<chat, net, requests, ghost>>

\* Control events are not kept.
Store(c) ==
    /\ At(c, "store")
    /\ IF Response(c).type \in Control THEN UNCHANGED room
       ELSE Unlocked(job[c].obj) /\ room' = [room EXCEPT ![job[c].obj] = AddMessage(@, Response(c))]
    /\ Step(c, "cast", [job[c] EXCEPT !.start = room[job[c].obj].users])
    /\ UNCHANGED <<listed, created, readers, net, requests, ghost>>

\* After the responses: room-expired takes the room down, everything else is
\* finished.  No connection has the name FRONT_END_SERVICE.
Finish(c) ==
    IF job[c].type = "room-expired" /\ ~job[c].error THEN Goto(c, "expire") ELSE Done(c)

\* The map that a broadcast goes through.
CastUsers(c) == IF job[c].old THEN job[c].gone ELSE room[job[c].obj].users

\* One turn of the loop over room.Users, which is read without its lock: who
\* enters meanwhile may have a turn or not.  FindService takes any connection
\* of that name, or there is none.
Cast(c) ==
    /\ At(c, "cast")
    /\ \/ \E u \in CastUsers(c) \ job[c].done :
             LET found == FindService(u)
                 seen == [job[c] EXCEPT !.done = @ \cup {u}]
             IN  IF found = {} THEN Step(c, "cast", seen)
                 ELSE \E d \in found : Step(c, "send", [seen EXCEPT !.to = d])
       \/ /\ CastUsers(c) \cap job[c].start \subseteq job[c].done
          /\ IF job[c].got THEN Finish(c) ELSE Goto(c, "answer")
    /\ UNCHANGED <<chat, net, requests, ghost>>

Send(c) ==
    /\ At(c, "send")
    /\ Egress(job[c].to, job[c].id)
    /\ Step(c, "cast", [job[c] EXCEPT !.got = @ \/ job[c].to = c])
    /\ UNCHANGED <<chat, net, requests, caught, shadowed, split>>

\* The sender has its answer directly.
Answer(c) ==
    /\ At(c, "answer")
    /\ Egress(c, job[c].id)
    /\ Finish(c)
    /\ UNCHANGED <<chat, net, requests, caught, shadowed, split>>

\* RemoveAllUsers, of the room that is looked up again.
RemoveAllUsers(c) ==
    /\ At(c, "expire")
    /\ \E o \in GetRoom :
          IF o = 0 THEN Done(c) /\ UNCHANGED <<room, caught>>
          ELSE /\ Unlocked(o)
               /\ room' = [room EXCEPT ![o].users = {}]
               /\ caught' = {d \in caught : Owner[d] \notin room[o].users}
               /\ pc' = [pc EXCEPT ![c] = "unlist"]
               /\ job' = [d \in Conns |->
                            CASE d = c -> [job[c] EXCEPT !.obj = o]
                              [] d # c /\ pc[d] \in {"cast", "send"} /\ job[d].obj = o /\ ~job[d].old
                                   -> [job[d] EXCEPT !.old = TRUE, !.gone = room[o].users]
                              [] OTHER -> job[d]]
    /\ UNCHANGED <<listed, created, readers, net, requests, written, shadowed, split>>

\* The runtime may notice that a map is written while it is iterated over, and
\* end the process; nothing starts it again.
MapFault ==
    /\ \E c, d \in Conns :
          /\ At(c, "cast") /\ ~job[c].old /\ job[d].obj = job[c].obj /\ Unlocked(job[d].obj)
          /\ \/ At(d, "add") /\ job[d].user \notin room[job[d].obj].users
             \/ At(d, "remove") /\ job[d].user \in room[job[d].obj].users
    /\ listed' = {} /\ readers' = [o \in RoomObjects |-> {}]
    /\ services' = {} /\ writer' = [c \in Conns |-> FALSE]
    /\ link' = [c \in Conns |-> "down"]
    /\ pc' = [c \in Conns |-> "ended"] /\ job' = [c \in Conns |-> NoJob]
    /\ caught' = {}
    /\ UNCHANGED <<room, created, named, drops, requests, written, shadowed, split>>

Serve(c) ==
    \/ Find(c) \/ CreateRoom(c) \/ JoinKnown(c) \/ AddUser(c)
    \/ UserKnown(c) \/ RemoveUser(c) \/ IsEmpty(c) \/ RemoveRoom(c) \/ Round(c) \/ Line(c)
    \/ Replay(c) \/ Replaying(c) \/ Look(c) \/ Store(c) \/ Cast(c) \/ Send(c) \/ Answer(c)
    \/ RemoveAllUsers(c)

Next ==
    \/ \E c \in Conns :
          \/ Drop(c) \/ ReadEnds(c) \/ Ping(c) \/ Serve(c)
          \/ \E t \in Requests, u \in Users \cup {"none"} : Read(c, t, u)
    \/ MapFault

Spec == Init /\ [][Next]_vars

\* A goroutine that can go on does, and pings go out at every tick.
FairSpec ==
    /\ Spec
    /\ \A c \in Conns : WF_vars(Serve(c)) /\ WF_vars(ReadEnds(c)) /\ WF_vars(Ping(c))

-----------------------------------------------------------------------------
(* Properties *)

\* Reader d is about to write message m to connection c.
Underway(m, c) ==
    \/ \E d \in Conns :
          /\ job[d].id = m.id
          /\ \/ At(d, "cast") /\ Owner[c] \notin job[d].done
             \/ At(d, "send") /\ (job[d].to = c \/ Owner[c] \notin job[d].done)
    \/ At(c, "replaying") /\ \E i \in DOMAIN job[c].left : job[c].left[i] = m

\* A panel that has joined (service.go:106-123) misses no message that is kept in
\* the room: what was stored before its user was registered is replayed, and
\* what is stored later is sent to it, even if the message is stored and
\* broadcast while the panel joins.  Two panels of one user and two objects of
\* one room are excluded: a message then reaches one of them.
NoMessageMissed ==
    \A o \in listed, c \in caught \cap services :
        /\ Owner[c] \in room[o].users /\ link[c] = "up" /\ c \notin shadowed /\ ~split
        => \A i \in DOMAIN room[o].messages :
              LET m == room[o].messages[i]
              IN  m.type \in Replayed /\ m.id # 0 => m.id \in written[c] \/ Underway(m, c)

\* "Delete a room if there are no users" (leave-room-request.go:70-73): a room that
\* is listed without users is about to get one or to be taken from the list,
\* however joins interleave with leave-room and room-expired.
EmptyRoomLeaves ==
    \A o \in listed : room[o].users = {} =>
        \E c \in Conns : job[c].obj = o /\ pc[c] \in {"known", "add", "empty", "unlist"}

\* A connection that is lost is removed from the list of services in the end
\* (service.go:52-60, 186-189), by its reader, or by its writer while the reader waits
\* for something that will never happen.
LostConnectionRemoved ==
    (\E c \in services : link[c] = "down") ~> (\A c \in services : link[c] = "up")

\* The readers serve their requests to the end (service.go:68-182): when no more
\* come, all of them are back at ReadMessage, unless a writer has ended.  The
\* locks and the unbuffered channels by themselves do not stop anybody.
RequestsServed ==
    (\E c \in Conns : pc[c] \notin {"idle", "ended"})
        ~> \/ \A c \in Conns : pc[c] \in {"idle", "ended"}
           \/ \E d \in Conns : link[d] = "down" /\ ~writer[d]

=============================================================================
