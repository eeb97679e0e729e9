----------------------------- MODULE RoomPanel -----------------------------
(***************************************************************************)
(* The extension's panel in a LeetCode tab: how it restores its session,   *)
(* joins and leaves rooms, follows the events of a round that rtc-service  *)
(* sends, and moves the tab to the problems of the round.                  *)
(*                                                                         *)
(* Moving the tab loads the page, and the panel in it, again: its stores,  *)
(* socket, timers and unfinished calls are gone, chrome.storage is kept,   *)
(* and rtc-service replays the history of the room to the new socket.      *)
(* central-service and rtc-service are external here.                      *)
(***************************************************************************)
EXTENDS Integers, Sequences

CONSTANTS
    Rooms,       \* rooms, numbers above 0; 0 is no room
    FirstRooms,  \* where the user may be when the panel is first loaded
    Problems,    \* 1 .. n, the problems of a round; two rounds share none
    MaxRounds,   \* bound: the rounds of a room
    MaxRetries,  \* checkActiveRoom retries an answer 429 so often
    MaxActs      \* bound: what users and servers do

ASSUME PanelRoomsAssumption == Rooms \subseteq Nat \ {0} /\ FirstRooms \subseteq {0} \cup Rooms
ASSUME PanelProblemsAssumption == Problems \subseteq Nat /\ 1 \in Problems
ASSUME PanelBoundsAssumption == MaxRetries \in Nat /\ MaxActs \in Nat /\ MaxRounds \in Nat

VARIABLES
    member,   \* central-service: the room the user is in
    round,    \* central-service: the last round of each room, its number n and its status st
    history,  \* rtc-service: what it replays of each room
    saved,    \* chrome.storage.local
    tab,      \* where the tab is: problem k of round n of a room, or elsewhere on LeetCode
    flow,     \* the session's restoring, or the join, leave, login or logout under way
    panel,    \* the user and room stores
    ref,      \* LastGameRef
    resume,   \* the read of the stored round when the toolbar is mounted is under way
    ending,   \* handleEndRound: its call under way, or the timer it has set
    queries,  \* calls of navigateActiveTab that wait for chrome.tabs.query
    moves,    \* chrome.tabs.update under way: where to
    sock,     \* the websocket of the chat: st, and the room it has joined
    wire,     \* messages to it
    suppress, \* suppressChatSoundsRef
    acts

server == <<member, round, history>>
chat == <<sock, wire, suppress>>
page == <<flow, panel, ref, resume, ending, queries>>
panelVars == <<server, saved, tab, page, moves, chat, acts>>

\* (round-start, the user's own join-round and next-problem are of round n, others of 0.)
Message(type, r, n, k) == [type |-> type, room |-> r, n |-> n, k |-> k]

Place(r, n, k) == [room |-> r, n |-> n, k |-> k]
Elsewhere == Place(0, 0, 0)

\* The problems of a round, as they are stored and as a move is asked for.
List(e) == Place(e.room, e.n, 0)

Act == acts < MaxActs /\ acts' = acts + 1

\* roomStoreInit, with the user.  The panel's width decides whether it is folded.
\* (crossed, history: while this room's round was running, the answer came to the ending of
\* another one.)
Fresh(user, folded) ==
    [user |-> user, room |-> 0, started |-> FALSE, ended |-> FALSE, timed |-> FALSE,
     event |-> [type |-> "none"], chatTab |-> TRUE, folded |-> folded, unread |-> 0, crossed |-> FALSE]

\* initRoom
InRoom(p, r) ==
    [p EXCEPT !.room = r, !.started = FALSE, !.ended = FALSE, !.timed = FALSE, !.unread = 0,
              !.crossed = FALSE]

\* (While the active room is asked for, n counts the retries.)
Flow(at, n) == [at |-> at, room |-> n]
Idle == Flow("idle", 0)
Boot == {"user", "auth", "active", "details", "parts"}

\* sessionReady: the pages are rendered.
Ready == flow.at \notin Boot

\* The Toolbar is rendered, and with it useRoomEvents.
Mounted == Ready /\ panel.room # 0

NotEnding == [at |-> "off", room |-> 0]
Closed == [st |-> "closed", room |-> 0]

PanelInit ==
    /\ member \in FirstRooms /\ round = [r \in Rooms |-> [n |-> 1, st |-> "created"]]
    /\ history = [r \in Rooms |-> IF r = member THEN <<Message("user-joined", r, 0, 0)>> ELSE <<>>]
    /\ saved = [user |-> TRUE, room |-> member, end |-> "none", problems |-> Elsewhere, event |-> "none"]
    /\ tab = Elsewhere
    /\ flow = Flow("user", 0) /\ panel = Fresh(FALSE, FALSE)
    /\ ref = "none" /\ resume = FALSE /\ ending = NotEnding /\ queries = {} /\ moves = {}
    /\ sock = Closed /\ wire = <<>> /\ suppress = FALSE
    /\ acts = 0

\* The page, and the panel in it, are loaded again.
Load ==
    /\ flow' = Flow("user", 0) /\ panel' = Fresh(FALSE, panel.folded)
    /\ ref' = "none" /\ resume' = FALSE /\ ending' = NotEnding /\ queries' = {}
    /\ sock' = Closed /\ wire' = <<>> /\ suppress' = FALSE

----------------------------------------------------------------------------
(* The servers.                                                            *)

\* rtc-service sends to the sockets that have joined the room.
Broadcast(r, ms) == wire' = IF sock.st = "open" /\ sock.room = r THEN wire \o ms ELSE wire

\* CreateRound.  (A room may have several rounds to come; here the next one is created when
\* the last has ended.)
NewRound(r) ==
    /\ Act /\ round[r].st = "ended" /\ round[r].n < MaxRounds
    /\ round' = [round EXCEPT ![r] = [n |-> @.n + 1, st |-> "created"]]
    /\ UNCHANGED <<member, history, saved, tab, page, moves, chat>>

\* The round starts: round-start is sent, and not replayed later.
StartRound(r) ==
    /\ Act /\ round[r].st = "created"
    /\ round' = [round EXCEPT ![r].st = "started"]
    /\ Broadcast(r, <<Message("round-start", r, round[r].n, 0)>>)
    /\ UNCHANGED <<member, history, saved, tab, page, moves, sock, suppress>>

\* (k = 1: ours, in a round in progress; k = 0: any other.)
OwnJoin(r) == Message("join-round", r, round[r].n, 1)
Joined(r) == \E i \in DOMAIN history[r] : history[r][i] = OwnJoin(r)

\* What is sent to the room and replayed later.
Announce(r, m) ==
    /\ history' = [history EXCEPT ![r] = Append(@, m)]
    /\ Broadcast(r, <<m>>)

\* Then everybody in the room joins the round.
JoinRound(r) ==
    /\ round[r].st = "started" /\ member = r /\ ~Joined(r)
    /\ Announce(r, OwnJoin(r))
    /\ UNCHANGED <<member, round, saved, tab, page, moves, sock, suppress, acts>>

\* The end of a round, once its start has been handled, is announced like this: the request
\* round-end is answered with a system-announcement.
End(r) ==
    /\ round[r].st = "started" /\ (member = r => Joined(r))
    /\ round' = [round EXCEPT ![r].st = "ended"]
    /\ Announce(r, Message("system-announcement", r, 0, 0))

\* The round's time is over, or its admin ends it in another panel.
EndRound(r) ==
    /\ Act /\ End(r)
    /\ UNCHANGED <<member, saved, tab, page, moves, sock, suppress>>

\* Another user's message, joining of the room or joining of the round.
Others(r, type) ==
    /\ Act /\ member = r
    /\ Announce(r, Message(type, r, 0, 0))
    /\ UNCHANGED <<member, round, saved, tab, page, moves, sock, suppress>>

\* A submission is accepted: the next problem for the user.
NextProblem(r, k) ==
    /\ Act /\ round[r].st = "started" /\ Joined(r)
    /\ Broadcast(r, <<Message("next-problem", r, round[r].n, k)>>)
    /\ UNCHANGED <<member, round, history, saved, tab, page, moves, sock, suppress>>

----------------------------------------------------------------------------
(* The tab is moved automatically: navigateActiveTab.                      *)

\* Mutant: the first problem, wherever the tab is.
DecideForced(q) == IF q.k # 0 THEN q ELSE [q EXCEPT !.k = 1]

\* resolveResumeSlug, or the problem that next-problem names; never where the tab is.
Decide(q) ==
    LET target == IF q.k # 0 THEN q
                  ELSE IF List(tab) = q THEN Elsewhere ELSE [q EXCEPT !.k = 1]
    IN  IF target = tab THEN Elsewhere ELSE target

Query(q) ==
    /\ q \in queries
    /\ queries' = queries \ {q}
    /\ moves' = IF Decide(q) = Elsewhere THEN moves ELSE moves \cup {Decide(q)}
    /\ UNCHANGED <<server, saved, tab, flow, panel, ref, resume, ending, chat, acts>>

Move(t) ==
    /\ t \in moves
    /\ moves' = moves \ {t} /\ tab' = t
    /\ Load
    /\ UNCHANGED <<server, saved, acts>>

\* (A problem of a round that is not created yet is elsewhere.)
Places == {t \in [room : Rooms, n : 1 .. MaxRounds, k : Problems] : t.n <= round[t.room].n}

\* The user goes somewhere else, with the toolbar's arrows or by a link, or reloads.
Browse(t) ==
    /\ Act
    /\ tab' = t
    /\ Load
    /\ UNCHANGED <<server, saved, moves>>

\* LeetCode changes the problem without loading a page.
Route(t) ==
    /\ Act /\ t # tab
    /\ tab' = t
    /\ UNCHANGED <<server, saved, page, moves, chat>>

----------------------------------------------------------------------------
(* The events of the round: useRoomEvents.                                 *)

InView(p) == p.chatTab /\ ~p.folded

\* clearUnread, run by the effect when the chat comes into view.
ClearUnread(p) == [p EXCEPT !.unread = IF InView(p) THEN 0 ELSE @]

\* applyRoundData
RoundData(p, e) ==
    /\ panel' = [p EXCEPT !.event = e, !.started = TRUE, !.ended = FALSE, !.timed = TRUE]
    /\ saved' = [saved EXCEPT !.end = "running", !.problems = List(e), !.event = e.type]
    /\ queries' = queries \cup {List(e)}
    
\* Mutant: a round-join is only a line in the chat.
GameEventIgnoresJoin(p, e) ==
    \/ e.type = "round-start" /\ RoundData(p, e)
    \/ /\ e.type \in {"join-round", "next-problem"}
       /\ panel' = [p EXCEPT !.event = e]
       /\ UNCHANGED <<saved, queries>>

\* The effect of lastGameEvent.  (Its last branch is for an event round-end, which rtc-service
\* never sends.)
GameEvent(p, e) ==
    \/ e.type = "round-start" /\ RoundData(p, e)
    \/ e.type = "join-round" /\ e.k = 1 /\ RoundData(p, e)
    \/ /\ e.type = "join-round" /\ e.k = 0
       /\ panel' = [p EXCEPT !.event = e]
       /\ UNCHANGED <<saved, queries>>
    \/ /\ e.type = "next-problem"
       /\ panel' = [p EXCEPT !.event = e]
       /\ saved' = [saved EXCEPT !.event = e.type]
       /\ queries' = queries \cup {Place(e.room, e.n, e.k)}

\* The Toolbar is mounted: the stored round is read, and an event that is still in the
\* store is taken for a new one.
Mount(p) ==
    /\ resume' = TRUE /\ ref' = p.event.type
    /\ IF p.event.type = "none" THEN panel' = p /\ UNCHANGED <<saved, queries>>
         ELSE GameEvent(p, p.event)

\* The read is answered: back to the problems of a round that is still running.
Resume ==
    /\ resume
    /\ resume' = FALSE
    /\ queries' = IF /\ saved.event \in {"round-start", "join-round"} /\ ref # saved.event
                     /\ saved.end = "running" /\ saved.problems # Elsewhere
                    THEN queries \cup {saved.problems} ELSE queries
    /\ UNCHANGED <<server, saved, tab, flow, panel, ref, ending, moves, chat, acts>>

\* roundEndTime passes.
Expire ==
    /\ Act /\ saved.end = "running"
    /\ saved' = [saved EXCEPT !.end = "past"]
    /\ UNCHANGED <<server, tab, page, moves, chat>>

\* handleEndRound
EndClick ==
    /\ Act /\ Mounted /\ panel.started /\ ~panel.ended /\ ending = NotEnding
    /\ ending' = [at |-> "call", room |-> panel.room]
    /\ UNCHANGED <<server, saved, tab, flow, panel, ref, resume, queries, moves, chat>>

\* EndRoundByRoomID: without a round in progress there is nothing to do.
EndHandled ==
    /\ ending.at = "call"
    /\ \/ End(ending.room)
       \/ round[ending.room].st # "started" /\ UNCHANGED <<round, history, wire>>
    /\ ending' = [ending EXCEPT !.at = "done"]
    /\ UNCHANGED <<member, saved, tab, flow, panel, ref, resume, queries, moves, sock, suppress, acts>>

\* The answer is applied to the room the panel is in by then, and to its round.
EndAnswer ==
    /\ \/ /\ ending.at = "done"
          /\ panel' = [panel EXCEPT !.started = FALSE, !.ended = TRUE,
                          !.crossed = @ \/ (panel.room # 0 /\ round[panel.room].st = "started")]
          /\ ending' = [ending EXCEPT !.at = "timer"]
       \/ ending.at \in {"call", "done"} /\ ending' = NotEnding /\ UNCHANGED panel
    /\ UNCHANGED <<server, saved, tab, flow, ref, resume, queries, moves, chat, acts>>

\* Two seconds after that.
EndTimer ==
    /\ ending.at = "timer"
    /\ ending' = NotEnding
    /\ panel' = [panel EXCEPT !.timed = FALSE]
    /\ saved' = [saved EXCEPT !.end = "none", !.event = "none", !.problems = Elsewhere]
    /\ UNCHANGED <<server, tab, flow, ref, resume, queries, moves, chat, acts>>

----------------------------------------------------------------------------
(* The chat's socket: useChatSocket.                                       *)

\* onopen: join-room is sent.
SocketOpen ==
    /\ sock.st = "opening"
    /\ sock' = [sock EXCEPT !.st = "joining"] /\ suppress' = TRUE
    /\ UNCHANGED <<server, saved, tab, page, moves, wire, acts>>

\* rtc-service handles it: the history is replayed.
Subscribe ==
    /\ sock.st = "joining"
    /\ sock' = [sock EXCEPT !.st = "open"]
    /\ wire' = history[sock.room]
    /\ UNCHANGED <<server, saved, tab, page, moves, suppress, acts>>

\* onclose: the socket is not opened again.
SocketClose ==
    /\ Act /\ sock.st # "closed"
    /\ sock' = Closed /\ wire' = <<>>
    /\ UNCHANGED <<server, saved, tab, page, moves, suppress>>

\* onmessage: a chat message is counted unless it is replayed or in view.
OnChat ==
    /\ wire # <<>> /\ Head(wire).type = "chat-message"
    /\ wire' = Tail(wire)
    /\ panel' = [panel EXCEPT !.unread = IF suppress \/ InView(panel) THEN @ ELSE @ + 1]
    /\ UNCHANGED <<server, saved, tab, flow, ref, resume, ending, queries, moves, sock, suppress, acts>>

OnUserJoined ==
    /\ wire # <<>> /\ Head(wire).type = "user-joined"
    /\ wire' = Tail(wire) /\ suppress' = FALSE
    /\ UNCHANGED <<server, saved, tab, page, moves, sock, acts>>

OnAnnouncement ==
    /\ wire # <<>> /\ Head(wire).type = "system-announcement"
    /\ wire' = Tail(wire)
    /\ UNCHANGED <<server, saved, tab, page, moves, sock, suppress, acts>>

\* setLastGameEvent, and the effect if the toolbar is there.
OnGameEvent ==
    /\ wire # <<>> /\ Head(wire).type \in {"round-start", "join-round", "next-problem"}
    /\ wire' = Tail(wire)
    /\ IF Mounted THEN ref' = Head(wire).type /\ GameEvent(panel, Head(wire))
         ELSE panel' = [panel EXCEPT !.event = Head(wire)] /\ UNCHANGED <<ref, saved, queries>>
    /\ UNCHANGED <<server, tab, flow, resume, ending, moves, sock, suppress, acts>>

\* A tab of the header is chosen.
ChooseTab ==
    /\ Act /\ Mounted /\ ~panel.folded
    /\ panel' = ClearUnread([panel EXCEPT !.chatTab = ~@])
    /\ UNCHANGED <<server, saved, tab, flow, ref, resume, ending, queries, moves, chat>>

\* selectTabAndUnfold: a tab of the sidebar is chosen; the unfolding it asks the content
\* script for comes later, if at all.
SelectTabAndUnfold ==
    /\ Act /\ Mounted /\ panel.folded
    /\ \E chatTab \in BOOLEAN : panel' = ClearUnread([panel EXCEPT !.chatTab = chatTab])
    /\ UNCHANGED <<server, saved, tab, flow, ref, resume, ending, queries, moves, chat>>

\* Mutant: the effect does not depend on isFolded.
FoldOrUnfoldKeeps ==
    /\ Act
    /\ panel' = [panel EXCEPT !.folded = ~@]
    /\ UNCHANGED <<server, saved, tab, flow, ref, resume, ending, queries, moves, chat>>

\* useIsFolded
FoldOrUnfold ==
    /\ Act
    /\ panel' = ClearUnread([panel EXCEPT !.folded = ~@])
    /\ UNCHANGED <<server, saved, tab, flow, ref, resume, ending, queries, moves, chat>>

----------------------------------------------------------------------------
(* The session and the room: useSessionInit, useRoomInit, useLogin.        *)

Arrive(p) == flow' = Idle /\ panel' = p /\ UNCHANGED <<ref, resume, queries, saved>>

Rest == <<ending, tab, moves, acts>>

\* initSession: nobody was logged in, or CHECK_AUTH is sent to the worker.
BootUser ==
    /\ flow.at = "user"
    /\ IF saved.user THEN flow' = Flow("auth", 0) /\ UNCHANGED <<panel, ref, resume, queries, saved>>
         ELSE Arrive(panel)
    /\ UNCHANGED <<server, chat, Rest>>

BootAuth ==
    /\ flow.at = "auth"
    /\ \/ flow' = Flow("active", 0) /\ panel' = [panel EXCEPT !.user = TRUE] /\ UNCHANGED saved
       \/ flow' = Idle /\ saved' = [saved EXCEPT !.user = FALSE] /\ UNCHANGED panel
    /\ UNCHANGED <<server, chat, ref, resume, queries, Rest>>

\* Mutant: an answer 429 is retried for ever.
BootActiveForever ==
    /\ flow.at = "active"
    /\ \/ flow' = Flow("active", 1 - flow.room) /\ UNCHANGED <<panel, ref, resume, queries, saved>>
       \/ member # 0 /\ flow' = Flow("details", member) /\ UNCHANGED <<panel, ref, resume, queries, saved>>
       \/ Arrive(panel)
    /\ UNCHANGED <<server, chat, Rest>>

\* checkActiveRoom: 429, the room the user is in, or none or an error.
BootActive ==
    /\ flow.at = "active"
    /\ \/ /\ flow.room < MaxRetries
          /\ flow' = Flow("active", flow.room + 1)
          /\ UNCHANGED <<panel, ref, resume, queries, saved>>
       \/ /\ member # 0
          /\ flow' = Flow("details", member)
          /\ UNCHANGED <<panel, ref, resume, queries, saved>>
       \/ Arrive(panel)
    /\ UNCHANGED <<server, chat, Rest>>

\* Its details: initRoom; the status of the round in them is used after the participants came.
BootDetails ==
    /\ flow.at = "details"
    /\ \/ /\ flow' = [at |-> "parts", room |-> flow.room, status |-> round[flow.room].st]
          /\ panel' = InRoom(panel, flow.room)
          /\ UNCHANGED <<ref, resume, queries, saved>>
       \/ Arrive(panel)
    /\ UNCHANGED <<server, chat, Rest>>

\* The participants, activeRoomId, room-page and the status of the round.  Then the pages
\* are rendered: the toolbar is mounted, and the chat opens its socket.
BootParts ==
    /\ flow.at = "parts"
    /\ flow' = Idle
    /\ \E late \in BOOLEAN :
         LET running == flow.status = "started" /\ ~late
         IN  /\ panel' = [panel EXCEPT !.started = flow.status = "started", !.ended = flow.status = "ended",
                                       !.timed = running]
             /\ saved' = [saved EXCEPT !.room = flow.room, !.end = IF running THEN "running" ELSE @]
    /\ ref' = "none" /\ resume' = TRUE
    /\ sock' = [st |-> "opening", room |-> flow.room]
    /\ UNCHANGED <<server, wire, suppress, queries, Rest>>

\* The start page is shown, and no joining is under way.
MayJoin == flow = Idle /\ panel.user /\ panel.room = 0

\* joinRoom, asked for on that page.
JoinClick(r) ==
    /\ Act /\ MayJoin
    /\ flow' = Flow("join", r)
    /\ UNCHANGED <<server, saved, tab, panel, ref, resume, ending, queries, moves, chat>>

\* The user is in the room, and in its round if that is running; initRoom mounts the toolbar.
JoinAnswer ==
    LET r == flow.room
    IN  /\ flow.at = "join"
        /\ \/ /\ member \in {0, r}
              /\ member' = r
              /\ history' = [history EXCEPT ![r] = @ \o
                               (IF member = r THEN <<>> ELSE <<Message("user-joined", r, 0, 0)>>) \o
                               (IF round[r].st = "started" THEN <<OwnJoin(r)>> ELSE <<>>)]
              /\ flow' = Flow("joined", r)
              /\ Mount([InRoom(panel, r) EXCEPT !.ended = round[r].st = "ended"])
           \/ UNCHANGED <<member, history>> /\ Arrive(panel)
        /\ UNCHANGED <<round, chat, Rest>>

\* The participants came; room-page is shown, and activeRoomId stored.
JoinFinish ==
    /\ flow.at = "joined"
    /\ flow' = Idle
    /\ saved' = [saved EXCEPT !.room = flow.room]
    /\ sock' = [st |-> "opening", room |-> flow.room]
    /\ UNCHANGED <<server, panel, ref, resume, queries, wire, suppress, Rest>>

\* handleLeaveRoom
LeaveClick ==
    /\ Act /\ flow = Idle /\ Mounted
    /\ flow' = Flow("leave", panel.room)
    /\ UNCHANGED <<server, saved, tab, panel, ref, resume, ending, queries, moves, chat>>

LeaveAnswer ==
    /\ flow.at = "leave"
    /\ \/ /\ member' = IF member = flow.room THEN 0 ELSE member
          /\ saved' = [saved EXCEPT !.room = 0, !.end = "none", !.event = "none", !.problems = Elsewhere]
          /\ panel' = Fresh(panel.user, panel.folded)
          /\ flow' = Flow("left", 0)
          /\ UNCHANGED <<ref, resume, queries>>
       \/ UNCHANGED member /\ Arrive(panel)
    /\ UNCHANGED <<round, history, chat, Rest>>

\* start-page is shown; the chat goes, and its socket is closed.
LeaveFinish ==
    /\ flow.at = "left"
    /\ sock' = Closed /\ wire' = <<>>
    /\ Arrive(panel)
    /\ UNCHANGED <<server, suppress, Rest>>

\* logout: the room is left, if that succeeds; the worker removes what is stored.
LogoutClick ==
    /\ Act /\ flow = Idle /\ panel.user
    /\ flow' = Flow("logout", panel.room)
    /\ UNCHANGED <<server, saved, tab, panel, ref, resume, ending, queries, moves, chat>>

LogoutAnswer ==
    /\ flow.at = "logout"
    /\ member' \in {member} \cup (IF member = flow.room THEN {0} ELSE {})
    /\ saved' = [user |-> FALSE, room |-> 0, end |-> "none", problems |-> Elsewhere, event |-> "none"]
    /\ panel' = Fresh(FALSE, panel.folded) /\ flow' = Idle
    /\ sock' = Closed /\ wire' = <<>>
    /\ UNCHANGED <<round, history, suppress, ref, resume, queries, Rest>>

\* login: the panel polls until the user is authenticated or has closed the popup.
LoginClick ==
    /\ Act /\ flow = Idle /\ ~panel.user
    /\ flow' = Flow("login", 0)
    /\ UNCHANGED <<server, saved, tab, panel, ref, resume, ending, queries, moves, chat>>

LoginAnswer ==
    /\ flow.at = "login"
    /\ flow' = Idle
    /\ \/ panel' = [panel EXCEPT !.user = TRUE] /\ saved' = [saved EXCEPT !.user = TRUE]
       \/ UNCHANGED <<panel, saved>>
    /\ UNCHANGED <<server, chat, ref, resume, queries, Rest>>

----------------------------------------------------------------------------
Inputs ==
    \/ \E r \in Rooms : NewRound(r) \/ StartRound(r) \/ EndRound(r) \/ JoinClick(r)
    \/ \E r \in Rooms, type \in {"chat-message", "user-joined", "join-round"} : Others(r, type)
    \/ \E r \in Rooms, k \in Problems : NextProblem(r, k)
    \/ \E t \in Places \cup {Elsewhere} : Browse(t) \/ Route(t)
    \/ Expire \/ EndClick \/ SocketClose \/ ChooseTab \/ SelectTabAndUnfold \/ FoldOrUnfold
    \/ LeaveClick \/ LogoutClick \/ LoginClick

Restore == BootUser \/ BootAuth \/ BootActive \/ BootDetails \/ BootParts

Steps ==
    \/ \E r \in Rooms : JoinRound(r)
    \/ \E q \in queries : Query(q)
    \/ \E t \in moves : Move(t)
    \/ Resume \/ EndHandled \/ EndAnswer \/ EndTimer
    \/ SocketOpen \/ Subscribe \/ OnChat \/ OnUserJoined \/ OnAnnouncement \/ OnGameEvent
    \/ Restore
    \/ JoinAnswer \/ JoinFinish \/ LeaveAnswer \/ LeaveFinish \/ LogoutAnswer \/ LoginAnswer

PanelNext == Inputs \/ Steps

PanelSpec == PanelInit /\ [][PanelNext]_panelVars

\* Calls are answered, messages delivered and timers run; nobody has to do anything.
PanelFairSpec == PanelSpec /\ WF_panelVars(Steps) /\ WF_panelVars(Restore)

----------------------------------------------------------------------------
\* A round the user has joined is shown as running as soon as all that rtc-service sent has
\* been handled, however the start of the round fell between the panel's loading, its look
\* at the room and its socket: round-start is not replayed, the user's round-join is.  (Only
\* the answer to the ending of another round hides it: of a room that was left meanwhile, or
\* of the room's last round.)
RoundNoticed ==
    /\ Mounted /\ ~panel.crossed
    /\ sock = [st |-> "open", room |-> panel.room] /\ wire = <<>>
    /\ round[panel.room].st = "started" /\ Joined(panel.room)
    => panel.started

\* No message is counted as unread while the chat is in view, whatever is folded, opened,
\* replayed or ended in between.
UnreadHidden == InView(panel) => panel.unread = 0

\* A room replays the user's joins of two of its rounds.
ReplaysTwoRounds ==
    \E r \in Rooms : \E i, j \in DOMAIN history[r] :
        history[r][i].k = 1 /\ history[r][j].k = 1 /\ history[r][i].n # history[r][j].n

\* "any mover that can re-fire will bounce the user forever": when nobody does anything any
\* more, the tab comes to rest, although every move loads the panel and replays the room.  No
\* event of one round, and nothing that is stored of it, moves the tab away from where another
\* one moves it to.  The joins of two rounds do: each of them moves the tab from the other
\* one's problems to the first of its own, for ever.
NoBounceInOneRound == <>[]((moves = {} /\ queries = {}) \/ ReplaysTwoRounds)

\* However the servers answer, the panel does not stay behind "Restoring session".
PanelComesUp == []<>Ready
=============================================================================
