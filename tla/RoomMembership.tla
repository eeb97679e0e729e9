--------------------------- MODULE RoomMembership ---------------------------
(***************************************************************************)
(* Rooms of central-service (services/room.go): creating, joining and      *)
(* leaving a room, handing its leadership on, and deleting it when it is   *)
(* empty, when its TTL expires or when its first round cannot be created.  *)
(*                                                                         *)
(* The rooms row is in SQL; the members (a sorted set scored by the second *)
(* of joining, here the list ZRANGE returns) and each user's active_room   *)
(* pointer are in Redis; the TTL tasks are in memory.  Nothing locks a     *)
(* room, so handlers and TTL tasks interleave at every round trip, and use *)
(* what they read long before.                                             *)
(***************************************************************************)
EXTENDS Naturals, FiniteSets, Sequences, SequencesExt

CONSTANTS
    Handlers,    \* concurrent HTTP handlers
    Users,
    Rooms,       \* room ids (uuids), each used by one CreateRoom
    MaxRounds,   \* bound: ids of rounds
    Faults,      \* the kinds of failing round trips that may happen
    MaxFaults,   \* bound: kinds of round trips that fail, once each
    MaxCrashes,  \* bound: crashes of central-service
    NoRoom, NoUser

\* A TTL task runs in a goroutine of its own, named by its room.
Procs == Handlers \cup Rooms

FaultKinds == {"add", "point", "joinRtc", "remove", "unpoint", "leaveRtc", "check",
               "pick", "update", "insert", "list", "drop", "rounds", "row", "schedule",
               "find"}

ASSUME BoundsAssumption ==
    MaxRounds \in Nat /\ MaxFaults \in Nat /\ MaxCrashes \in Nat
ASSUME FaultsAssumption == Faults \subseteq FaultKinds
ASSUME NamesAssumption == NoRoom \notin Rooms /\ NoUser \notin Users /\ Handlers \cap Rooms = {}

VARIABLES
    row,         \* the rooms row: "none", "live" or "deleted"
    admin,       \* rooms.admin
    rounds,      \* the rounds rows of a room
    nextRound,   \* sequence of rounds.id
    joined,      \* <room>_joinTimestamp: the members, oldest first
    active,      \* user:<user>:active_room
    armed,       \* rooms with a TTL task in the scheduler
    pc, req,     \* per process: where it is, and its request with what it read
    faults, crashes,
    timed,       \* history: rooms created with a TTL
    everIn,      \* history: who has ever been a member
    overlapped   \* history: two processes have been busy at once

store == <<row, admin, rounds, nextRound, joined, active>>
history == <<timed, everIn, overlapped>>
vars == <<store, armed, pc, req, faults, crashes, history>>

\* leads, seen: whether the user was room.Admin, and room.Rounds, when
\* FindRoomByID read the room; did: ZADD or ZREM changed the set; list, heir:
\* results of ZRANGE.
Blank == [room |-> NoRoom, user |-> NoUser, leads |-> FALSE, seen |-> {},
          did |-> FALSE, list |-> {}, heir |-> NoUser]

Members(r) == ToSet(joined[r])

Init ==
    /\ row = [r \in Rooms |-> "none"]
    /\ admin = [r \in Rooms |-> NoUser]
    /\ rounds = [r \in Rooms |-> {}] /\ nextRound = 1
    /\ joined = [r \in Rooms |-> <<>>]
    /\ active = [u \in Users |-> NoRoom]
    /\ armed = {}
    /\ pc = [p \in Procs |-> "idle"] /\ req = [p \in Procs |-> Blank]
    /\ faults = {} /\ crashes = 0
    /\ timed = {} /\ everIn = [r \in Rooms |-> {}] /\ overlapped = FALSE

-----------------------------------------------------------------------------
(* How a process goes on.                                                   *)

Fails(kind) ==
    /\ kind \in Faults \ faults
    /\ Cardinality(faults) < MaxFaults
    /\ faults' = faults \cup {kind}

At(p, label) == pc[p] = label
Goto(p, label) == pc' = [pc EXCEPT ![p] = label] /\ UNCHANGED req
Return(p) == pc' = [pc EXCEPT ![p] = "idle"] /\ req' = [req EXCEPT ![p] = Blank]

\* FindRoomByID has found the room: the process starts, with what it needs of
\* it.  (A request for a room that does not exist changes nothing.)
Begin(p, r, label, read) ==
    /\ At(p, "idle") /\ row[r] = "live"
    /\ pc' = [pc EXCEPT ![p] = label]
    /\ req' = [req EXCEPT ![p] = read]
    /\ overlapped' = (overlapped \/ \E q \in Procs \ {p} : ~ At(q, "idle"))

\* deleteRoom is called.
Delete(p) ==
    /\ pc' = [pc EXCEPT ![p] = "delList"]
    /\ req' = [req EXCEPT ![p] = [Blank EXCEPT !.room = req[p].room, !.seen = req[p].seen]]

Frame == UNCHANGED <<crashes, timed>>
StepFrame == Frame /\ UNCHANGED <<armed, everIn, overlapped>>

\* cancelRoomExpiry
Cancel(r) == armed' = armed \ {r}

-----------------------------------------------------------------------------
(* CreateRoom                                                               *)

\* A TTL task that the scheduler refuses is only logged: the room stays.
CreateRoom(r, u, ttl) ==
    /\ row[r] = "none"
    /\ row' = [row EXCEPT ![r] = "live"]
    /\ admin' = [admin EXCEPT ![r] = u]
    /\ timed' = IF ttl THEN timed \cup {r} ELSE timed
    /\ \/ armed' = (IF ttl THEN armed \cup {r} ELSE armed) /\ UNCHANGED faults
       \/ ttl /\ Fails("schedule") /\ UNCHANGED armed
    /\ UNCHANGED <<rounds, nextRound, joined, active, pc, req, crashes, everIn, overlapped>>

-----------------------------------------------------------------------------
(* JoinRoom                                                                 *)

JoinFind(h, r, u) ==
    /\ Begin(h, r, "joinAdd", [Blank EXCEPT !.room = r, !.user = u])
    /\ Frame /\ UNCHANGED <<store, armed, faults, everIn>>

\* addJoinMember: ZADD with the current second.  A new score moves a member who
\* is there already; members of the same second sort by name, so the place in
\* the list depends on clock and names.
JoinAdd(h) ==
    LET r == req[h].room  u == req[h].user
    IN  /\ At(h, "joinAdd")
        /\ \/ /\ LET others == RemoveFirst(joined[r], u)
                 IN  \E i \in 1 .. Len(others) + 1 :
                        joined' = [joined EXCEPT ![r] = InsertAt(others, i, u)]
              /\ everIn' = [everIn EXCEPT ![r] = @ \cup {u}]
              /\ pc' = [pc EXCEPT ![h] = "joinPoint"]
              /\ req' = [req EXCEPT ![h].did = u \notin Members(r)]
              /\ UNCHANGED faults
           \/ Fails("add") /\ Return(h) /\ UNCHANGED <<joined, everIn>>
        /\ Frame /\ UNCHANGED <<row, admin, rounds, nextRound, active, armed, overlapped>>

\* addJoinMember: SET active_room, also for a member; an error is only logged.
JoinPoint(h) ==
    /\ At(h, "joinPoint")
    /\ \/ active' = [active EXCEPT ![req[h].user] = req[h].room] /\ UNCHANGED faults
       \/ Fails("point") /\ UNCHANGED active
    /\ IF req[h].did THEN Goto(h, "joinTell") ELSE Return(h)
    /\ StepFrame /\ UNCHANGED <<row, admin, rounds, nextRound, joined>>

\* The join-room message to rtc-service: an error is returned, with the member
\* already stored.
JoinTell(h) ==
    /\ At(h, "joinTell")
    /\ (UNCHANGED faults \/ Fails("joinRtc"))
    /\ Return(h)
    /\ StepFrame /\ UNCHANGED store

-----------------------------------------------------------------------------
(* LeaveRoom                                                                *)

LeaveFind(h, r, u) ==
    /\ Begin(h, r, "leaveRemove", [Blank EXCEPT !.room = r, !.user = u,
                                    !.leads = (admin[r] = u), !.seen = rounds[r]])
    /\ Frame /\ UNCHANGED <<store, armed, faults, everIn>>

\* removeJoinMember: ZREM
LeaveRemove(h) ==
    LET r == req[h].room  u == req[h].user
    IN  /\ At(h, "leaveRemove")
        /\ \/ /\ joined' = [joined EXCEPT ![r] = RemoveFirst(@, u)]
              /\ pc' = [pc EXCEPT ![h] = "leavePoint"]
              /\ req' = [req EXCEPT ![h].did = u \in Members(r)]
              /\ UNCHANGED faults
           \/ Fails("remove") /\ Return(h) /\ UNCHANGED joined
        /\ StepFrame /\ UNCHANGED <<row, admin, rounds, nextRound, active>>

\* Mutant: the pointer stays.
LeavePointKeeps(h) ==
    /\ At(h, "leavePoint")
    /\ IF req[h].did THEN Goto(h, "leaveTell") ELSE Return(h)
    /\ StepFrame /\ UNCHANGED <<store, faults>>

\* removeJoinMember: DEL active_room, whatever room it names.
LeavePoint(h) ==
    /\ At(h, "leavePoint")
    /\ \/ active' = [active EXCEPT ![req[h].user] = NoRoom] /\ UNCHANGED faults
       \/ Fails("unpoint") /\ UNCHANGED active
    /\ IF req[h].did THEN Goto(h, "leaveTell") ELSE Return(h)
    /\ StepFrame /\ UNCHANGED <<row, admin, rounds, nextRound, joined>>

\* The leave-room message to rtc-service: an error ends LeaveRoom here.
LeaveTell(h) ==
    /\ At(h, "leaveTell")
    /\ \/ Goto(h, "leaveCheck") /\ UNCHANGED faults
       \/ Fails("leaveRtc") /\ Return(h)
    /\ StepFrame /\ UNCHANGED store

\* Mutant: the leadership is not handed on.
LeaveCheckKeepsLeader(h) ==
    /\ At(h, "leaveCheck")
    /\ IF joined[req[h].room] = <<>> THEN Cancel(req[h].room) /\ Delete(h)
                                    ELSE Return(h) /\ UNCHANGED armed
    /\ Frame /\ UNCHANGED <<store, faults, everIn, overlapped>>

\* FindActiveUsers: the last one out deletes the room; a leader hands on.
LeaveCheck(h) ==
    LET r == req[h].room
    IN  /\ At(h, "leaveCheck")
        /\ \/ /\ joined[r] = <<>>
              /\ Cancel(r) /\ Delete(h) /\ UNCHANGED faults
           \/ /\ joined[r] # <<>>
              /\ IF req[h].leads THEN Goto(h, "leavePick") ELSE Return(h)
              /\ UNCHANGED <<armed, faults>>
           \/ Fails("check") /\ Return(h) /\ UNCHANGED armed
        /\ Frame /\ UNCHANGED <<store, everIn, overlapped>>

\* FindRightfulRoomAdmin; an empty room is an error.
LeavePick(h) ==
    LET r == req[h].room
    IN  /\ At(h, "leavePick")
        /\ \/ /\ joined[r] # <<>>
              /\ pc' = [pc EXCEPT ![h] = "leaveAdmin"]
              /\ req' = [req EXCEPT ![h].heir = Head(joined[r])]
              /\ UNCHANGED faults
           \/ joined[r] = <<>> /\ Return(h) /\ UNCHANGED faults
           \/ Fails("pick") /\ Return(h)
        /\ StepFrame /\ UNCHANGED store

\* UPDATE rooms SET admin (no row to update when the room is gone), and the
\* admin-change message, whose failure is only logged.
LeaveAdmin(h) ==
    LET r == req[h].room
    IN  /\ At(h, "leaveAdmin")
        /\ \/ /\ admin' = IF row[r] = "live" THEN [admin EXCEPT ![r] = req[h].heir] ELSE admin
              /\ UNCHANGED faults
           \/ Fails("update") /\ UNCHANGED admin
        /\ Return(h)
        /\ StepFrame /\ UNCHANGED <<row, rounds, nextRound, joined, active>>

-----------------------------------------------------------------------------
(* RoomService.CreateRound, as far as the room is concerned.                *)

RoundFind(h, r) ==
    /\ nextRound + Cardinality({q \in Procs : At(q, "roundInsert")}) <= MaxRounds
    /\ Begin(h, r, "roundInsert", [Blank EXCEPT !.room = r, !.seen = rounds[r]])
    /\ Frame /\ UNCHANGED <<store, armed, faults, everIn>>

\* A round could not be created: a room that had none is deleted.
CleanUp(h) ==
    IF req[h].seen = {}
      THEN Cancel(req[h].room) /\ Delete(h)
      ELSE UNCHANGED armed /\ Return(h)

\* INSERT INTO rounds, which the foreign key refuses when the room is gone.
RoundInsert(h) ==
    LET r == req[h].room
    IN  /\ At(h, "roundInsert")
        /\ \/ /\ row[r] = "live"
              /\ rounds' = [rounds EXCEPT ![r] = @ \cup {nextRound}]
              /\ nextRound' = nextRound + 1
              /\ pc' = [pc EXCEPT ![h] = "roundFill"]
              /\ UNCHANGED <<armed, req, faults>>
           \/ row[r] # "live" /\ CleanUp(h) /\ UNCHANGED <<rounds, nextRound, faults>>
           \/ Fails("insert") /\ CleanUp(h) /\ UNCHANGED <<rounds, nextRound>>
        /\ Frame /\ UNCHANGED <<row, admin, joined, active, everIn, overlapped>>

\* The problem set: choosing it fails when the filters match too little.
RoundFill(h) ==
    /\ At(h, "roundFill")
    /\ \/ Return(h) /\ UNCHANGED armed
       \/ CleanUp(h)
    /\ Frame /\ UNCHANGED <<store, faults, everIn, overlapped>>

-----------------------------------------------------------------------------
(* deleteRoom, on the room as it was read when the process began.           *)

\* Mutant: a room that is in use is spared.
ExpireIfEmpty(r) ==
    /\ r \in armed
    /\ Cancel(r)
    /\ IF row[r] = "live" /\ joined[r] = <<>>
         THEN Begin(r, r, "delList", [Blank EXCEPT !.room = r, !.seen = rounds[r]])
         ELSE UNCHANGED <<pc, req, overlapped>>
    /\ Frame /\ UNCHANGED <<store, faults, everIn>>

\* The TTL task fires, once: FindRoomByID, and deleteRoom when there is a
\* room.  Any error of the lookup is taken for a room that is gone already.
Expire(r) ==
    /\ r \in armed
    /\ Cancel(r)
    /\ \/ /\ Begin(r, r, "delList", [Blank EXCEPT !.room = r, !.seen = rounds[r]])
          /\ UNCHANGED faults
       \/ row[r] # "live" /\ UNCHANGED <<pc, req, overlapped, faults>>
       \/ Fails("find") /\ UNCHANGED <<pc, req, overlapped>>
    /\ Frame /\ UNCHANGED <<store, everIn>>

\* deleteJoinMembers: ZRANGE; its error is ignored, for an empty list.
DelList(p) ==
    /\ At(p, "delList")
    /\ pc' = [pc EXCEPT ![p] = "delKey"]
    /\ \/ req' = [req EXCEPT ![p].list = Members(req[p].room)] /\ UNCHANGED faults
       \/ Fails("list") /\ UNCHANGED req
    /\ StepFrame /\ UNCHANGED store

\* deleteJoinMembers: DEL of the sorted set
DelKey(p) ==
    /\ At(p, "delKey")
    /\ \/ /\ joined' = [joined EXCEPT ![req[p].room] = <<>>]
          /\ Goto(p, "delPointers") /\ UNCHANGED faults
       \/ Fails("drop") /\ Return(p) /\ UNCHANGED joined
    /\ StepFrame /\ UNCHANGED <<row, admin, rounds, nextRound, active>>

\* deleteJoinMembers: DEL active_room of each listed user, whatever it names
DelPointer(p, u) ==
    /\ At(p, "delPointers") /\ u \in req[p].list
    /\ active' = [active EXCEPT ![u] = NoRoom]
    /\ req' = [req EXCEPT ![p].list = @ \ {u}]
    /\ StepFrame /\ UNCHANGED <<row, admin, rounds, nextRound, joined, pc, faults>>

\* The rounds in the snapshot, with all that hangs on them.
DelRounds(p) ==
    LET r == req[p].room
    IN  /\ At(p, "delPointers") /\ req[p].list = {}
        /\ \/ /\ rounds' = [rounds EXCEPT ![r] = @ \ req[p].seen]
              /\ Goto(p, "delRow") /\ UNCHANGED faults
           \/ /\ Fails("rounds") /\ Return(p)
              /\ \E done \in SUBSET req[p].seen : rounds' = [rounds EXCEPT ![r] = @ \ done]
        /\ StepFrame /\ UNCHANGED <<row, admin, nextRound, joined, active>>

\* Mutant: the DELETE matches no row, and deleteRoom is tried again.
DelRowRetries(p) ==
    /\ At(p, "delRow")
    /\ Delete(p)
    /\ StepFrame /\ UNCHANGED <<store, faults>>

\* The room itself; rounds rows that are left go with it (ON DELETE CASCADE).
DelRow(p) ==
    LET r == req[p].room
    IN  /\ At(p, "delRow")
        /\ \/ /\ row' = [row EXCEPT ![r] = "deleted"]
              /\ rounds' = [rounds EXCEPT ![r] = {}]
              /\ UNCHANGED faults
           \/ Fails("row") /\ UNCHANGED <<row, rounds>>
        /\ Return(p)
        /\ StepFrame /\ UNCHANGED <<admin, nextRound, joined, active>>

\* central-service dies and is restarted: the TTL tasks are gone.
Crash ==
    /\ crashes < MaxCrashes /\ crashes' = crashes + 1
    /\ armed' = {}
    /\ pc' = [p \in Procs |-> "idle"] /\ req' = [p \in Procs |-> Blank]
    /\ UNCHANGED <<store, faults, history>>

-----------------------------------------------------------------------------
Request(h) ==
    \E r \in Rooms : RoundFind(h, r) \/ \E u \in Users : JoinFind(h, r, u) \/ LeaveFind(h, r, u)

HandlerStep(h) ==
    \/ JoinAdd(h) \/ JoinPoint(h) \/ JoinTell(h)
    \/ LeaveRemove(h) \/ LeavePoint(h) \/ LeaveTell(h) \/ LeaveCheck(h) \/ LeavePick(h)
    \/ LeaveAdmin(h)
    \/ RoundInsert(h) \/ RoundFill(h)

DeleteStep(p) ==
    \/ DelList(p) \/ DelKey(p) \/ (\E u \in Users : DelPointer(p, u)) \/ DelRounds(p)
    \/ DelRow(p)

Next ==
    \/ \E r \in Rooms, u \in Users, ttl \in BOOLEAN : CreateRoom(r, u, ttl)
    \/ \E h \in Handlers : Request(h) \/ HandlerStep(h)
    \/ \E r \in Rooms : Expire(r)
    \/ \E p \in Procs : DeleteStep(p)
    \/ Crash

Spec == Init /\ [][Next]_vars

\* A goroutine that can go on does, and the scheduler runs a due task.
FairSpec ==
    /\ Spec
    /\ \A h \in Handlers : WF_vars(HandlerStep(h))
    /\ \A p \in Procs : WF_vars(DeleteStep(p))
    /\ \A r \in Rooms : WF_vars(Expire(r))

-----------------------------------------------------------------------------
(* Properties *)

\* central-service has not died, and none of the given round trips failed.
Without(kinds) == crashes = 0 /\ faults \cap kinds = {}
Quiet == \A p \in Procs : At(p, "idle")
\* Nothing is under way, and no two requests or tasks have ever overlapped.
Serial == Quiet /\ ~ overlapped

\* A room everybody has left.
Abandoned(r) == row[r] = "live" /\ everIn[r] # {} /\ joined[r] = <<>>

\* The failures after which LeaveRoom or deleteRoom give a room up.
GivesUp == {"leaveRtc", "check", "drop", "rounds", "row"}

\* One request at a time, the leader of a room is one of its members, once he
\* has come at all: LeaveRoom hands the room on before it returns.
LeaderPresent ==
    Serial /\ Without(GivesUp \cup {"pick", "update"}) => \A r \in Rooms :
        row[r] = "live" /\ joined[r] # <<>> /\ admin[r] \in everIn[r] => admin[r] \in Members(r)

\* One request at a time, an active_room pointer names a room that exists and
\* that the user is in, and a room that is gone has no members.
PointersSound ==
    Serial /\ Without({"unpoint", "list"}) =>
        /\ \A u \in Users : active[u] # NoRoom => u \in Members(active[u])
        /\ \A r \in Rooms : row[r] # "live" => joined[r] = <<>>

\* An abandoned room is deleted in the end, unless somebody comes back.
EmptyRoomReclaimed ==
    \A r \in Rooms : Abandoned(r) ~> ~ Without(GivesUp) \/ ~ Abandoned(r)

\* The round trips a TTL task does not survive: the scheduler takes it, it
\* finds the room, and deleteRoom gets through.
TtlNeeds == {"schedule", "find", "drop", "rounds", "row"}

\* A room with a TTL is deleted in the end (room.go:104-139), whoever is in it and
\* whatever handlers do to it meanwhile, if its only task gets through.
TtlHonoured ==
    \A r \in Rooms : r \in timed ~> ~ Without(TtlNeeds) \/ row[r] = "deleted"

=============================================================================
