-------------------------- MODULE ExtensionWorker --------------------------
(***************************************************************************)
(* The service worker of the browser extension (background.js) with the    *)
(* scripts that run in the LeetCode page (injected.js and the messages of  *)
(* contentScript.js).                                                      *)
(*                                                                         *)
(* The browser stops the worker when it likes and starts it again for the  *)
(* next message: its variables, sockets, timers and unfinished callbacks   *)
(* are gone, chrome.storage is kept.  Every call to chrome.storage and     *)
(* every fetch is a point where other callbacks run.                       *)
(***************************************************************************)
EXTENDS Integers, Sequences, FiniteSets

CONSTANTS
    Slugs,        \* problems
    RoundKeys,    \* what the panel names the rounds with
    Subs,         \* submissions made on LeetCode
    Rooms,        \* rooms, numbers above 0
    Sockets,      \* bound: websockets that can exist together
    MaxInputs,    \* bound: messages, clicks and events from outside
    MaxStops,     \* bound: times the worker is stopped
    MaxFaults     \* bound: calls to chrome.storage and to the server that fail

ASSUME RoomsAssumption == Rooms \subseteq Nat \ {0}
ASSUME SocketsAssumption == Sockets \subseteq Nat \ {0}
ASSUME BoundsAssumption == MaxInputs \in Nat /\ MaxStops \in Nat /\ MaxFaults \in Nat

VARIABLES
    local,      \* storage.local
    touched,    \* storage.session: touchedSlugs
    round,      \* storage.session: touchedSlugsRound
    worker,     \* the variables of background.js
    chain,      \* touchedWrites: what is still to run, the head being under way
    tasks,      \* callbacks under way of other messages
    changes,    \* storage.onChanged events to be delivered
    sock,       \* the websockets
    timers,     \* reconnections that are due after five seconds
    session,    \* the server has a session for the browser's cookie
    late,       \* Date.now() is past the end of the round
    reported,   \* contentScript.js: reportedTouches
    forwarded,  \* how often a submission was sent to the server
    inputs, stops, faults,
    failed,     \* history: problems whose touch the chain has dropped, and whether it dropped a reset
    atomTouched, atomRound, \* history: the list and its round if every message took effect at once
    raced,      \* history: while a message about submissions was handled, another one came,
                \* the round ended or the user logged out
    accepted    \* history: submissions that were stored when their accepted result came, in time

touches == <<touched, round, chain, reported, failed, atomTouched, atomRound>>
submissions == <<forwarded, raced, accepted, late>>
connection == <<sock, timers>>
vars == <<local, touches, worker, tasks, changes, connection, session, submissions, inputs, stops, faults>>

\* endTime: roundEndTime is stored; next: nextProblem is.
NothingStored == [user |-> FALSE, room |-> 0, endTime |-> FALSE, next |-> FALSE, pending |-> {}]

\* ready: configReady is resolved; room, user: activeRoomId, userProfile; socket:
\* 0 or the websocket the variable refers to; blind: history, configReady was resolved
\* although the storage could not be read.
Stopped == [up |-> FALSE, ready |-> FALSE, blind |-> FALSE, room |-> 0, user |-> FALSE, socket |-> 0]

NoSocket == [state |-> "none", room |-> 0]

Init ==
    /\ local = NothingStored
    /\ touched = {} /\ round = "none" /\ chain = <<>> /\ reported = {}
    /\ failed = [marks |-> {}, reset |-> FALSE]
    /\ atomTouched = {} /\ atomRound = "none"
    /\ worker = Stopped
    /\ tasks = {} /\ changes = <<>>
    /\ sock = [i \in Sockets |-> NoSocket] /\ timers = 0
    /\ session \in BOOLEAN
    /\ forwarded = [s \in Subs |-> 0] /\ raced = FALSE /\ accepted = {} /\ late = FALSE
    /\ inputs = 0 /\ stops = 0 /\ faults = 0

AboutSubmissions == {t \in tasks : t.kind \in {"pending", "result", "failed"}}

Input == inputs < MaxInputs /\ inputs' = inputs + 1
Message == worker.up /\ Input
Fault == faults < MaxFaults /\ faults' = faults + 1

\* storage.local is written, and its listeners are told of what changed.
Store(new) ==
    /\ local' = new
    /\ changes' = IF new.user # local.user \/ new.room # local.room
                    THEN Append(changes, [user |-> new.user, userChanged |-> new.user # local.user,
                                          room |-> new.room, roomChanged |-> new.room # local.room])
                    ELSE changes

----------------------------------------------------------------------------
(* Starting, stopping and the connection to rtc-service.                   *)

\* A message, a storage event or a click wakes the worker.
Start ==
    /\ ~worker.up
    /\ worker' = [Stopped EXCEPT !.up = TRUE]
    /\ UNCHANGED <<local, touches, tasks, changes, connection, session, submissions, inputs, stops, faults>>

\* The browser stops the worker.  A list under way is neither written nor resumed.
Stop ==
    /\ worker.up /\ stops < MaxStops
    /\ stops' = stops + 1
    /\ worker' = Stopped
    /\ tasks' = {} /\ chain' = <<>> /\ timers' = 0
    /\ sock' = [i \in Sockets |-> NoSocket]
    /\ UNCHANGED <<local, touched, round, reported, failed, atomTouched, atomRound, changes, session,
                   submissions, inputs, faults>>

\* connectWebSocket, sendJoinRoom, with the worker's variables w.
Connect(w) ==
    IF w.socket # 0 /\ sock[w.socket].state \in {"connecting", "open"}
      THEN /\ worker' = w
           /\ sock' = IF sock[w.socket].state = "open" /\ w.room # 0 /\ w.user
                        THEN [sock EXCEPT ![w.socket].room = w.room] ELSE sock
      ELSE \E i \in Sockets :
             /\ sock[i].state = "none"
             /\ \A j \in Sockets : j < i => sock[j].state # "none"
             /\ sock' = [sock EXCEPT ![i] = [state |-> "connecting", room |-> 0]]
             /\ worker' = [w EXCEPT !.socket = i]

ConnectIf(condition, w) ==
    IF condition THEN Connect(w) ELSE worker' = w /\ UNCHANGED sock

\* The worker's first read of storage.local is answered, or it fails: configReady is
\* resolved all the same.
ReadConfig ==
    LET w == [worker EXCEPT !.ready = TRUE,
                            !.room = IF local.room # 0 THEN local.room ELSE @,
                            !.user = local.user \/ @]
    IN  /\ worker.up /\ ~worker.ready
        /\ \/ ConnectIf(w.room # 0 /\ w.user, w) /\ UNCHANGED faults
           \/ Fault /\ worker' = [worker EXCEPT !.ready = TRUE, !.blind = TRUE] /\ UNCHANGED sock
        /\ UNCHANGED <<local, touches, tasks, changes, timers, session, submissions, inputs, stops>>

\* storage.onChanged
OnChanged ==
    LET e == Head(changes)
        w == [worker EXCEPT !.room = IF e.roomChanged THEN e.room ELSE @,
                            !.user = IF e.userChanged THEN e.user ELSE @]
    IN  /\ worker.up /\ changes # <<>>
        /\ changes' = Tail(changes)
        /\ ConnectIf(w.room # 0 /\ w.user, w)
        /\ UNCHANGED <<local, touches, tasks, timers, session, submissions, inputs, stops, faults>>

\* socket.onopen: whichever socket opens, the join is sent on the one referred to.
OnOpen(i) ==
    LET opened == [sock EXCEPT ![i].state = "open"]  s == worker.socket
    IN  /\ sock[i].state = "connecting"
        /\ sock' = IF s # 0 /\ opened[s].state = "open" /\ worker.room # 0 /\ worker.user
                     THEN [opened EXCEPT ![s].room = worker.room] ELSE opened
        /\ UNCHANGED <<local, touches, worker, tasks, changes, timers, session, submissions,
                       inputs, stops, faults>>

\* rtc-service or the network closes a socket.
Lose(i) ==
    /\ Input
    /\ sock[i].state \in {"connecting", "open"}
    /\ sock' = [sock EXCEPT ![i].state = "closed"]
    /\ UNCHANGED <<local, touches, worker, tasks, changes, timers, session, submissions, stops, faults>>

\* Mutant: a lost connection is not made again.
OnCloseGivesUp(i) ==
    /\ sock[i].state = "closed"
    /\ sock' = [sock EXCEPT ![i] = NoSocket]
    /\ worker' = [worker EXCEPT !.socket = 0]
    /\ UNCHANGED <<local, touches, tasks, changes, timers, session, submissions, inputs, stops, faults>>

\* socket.onclose: the variable is cleared whichever socket it refers to by now.
OnClose(i) ==
    /\ sock[i].state = "closed"
    /\ sock' = [sock EXCEPT ![i] = NoSocket]
    /\ worker' = [worker EXCEPT !.socket = 0]
    /\ timers' = timers + 1
    /\ UNCHANGED <<local, touches, tasks, changes, session, submissions, inputs, stops, faults>>

\* Five seconds after a close.
Reconnect ==
    /\ timers > 0
    /\ timers' = timers - 1
    /\ ConnectIf(worker.room # 0, worker)
    /\ UNCHANGED <<local, touches, tasks, changes, session, submissions, inputs, stops, faults>>

\* socket.onmessage: next-problem for this user, room-expired.  The branch for a
\* round-end is not reached: rtc-service has no response of that type.
OnMessage(i, type) ==
    /\ Input /\ sock[i].state = "open" /\ sock[i].room # 0
    /\ \/ type = "next-problem" /\ worker.user /\ Store([local EXCEPT !.next = TRUE])
       \/ type = "room-expired" /\ Store([local EXCEPT !.room = 0, !.next = FALSE, !.endTime = FALSE])
    /\ UNCHANGED <<touches, worker, tasks, connection, session, submissions, stops, faults>>

----------------------------------------------------------------------------
(* What the panel and the user do.                                         *)

\* The panel enters a room or leaves one.
PanelRoom(r) ==
    /\ Input /\ local.room # r
    /\ Store([local EXCEPT !.room = r])
    /\ UNCHANGED <<touches, worker, tasks, connection, session, submissions, stops, faults>>

\* The user logs in on the server's page.
LogIn ==
    /\ Input /\ ~session
    /\ session' = TRUE
    /\ UNCHANGED <<local, touches, worker, tasks, changes, connection, submissions, stops, faults>>

\* The end of the round passes.
TimeUp ==
    /\ ~late /\ local.endTime /\ Input
    /\ late' = TRUE
    /\ raced' = (raced \/ AboutSubmissions # {})
    /\ UNCHANGED <<local, touches, worker, tasks, changes, connection, session, forwarded,
                   accepted, stops, faults>>

\* CHECK_AUTH and LOGOUT arrive; both wait for configReady before their fetch.
Ask(kind) ==
    /\ Message /\ ~\E t \in tasks : t.kind = kind
    /\ tasks' = tasks \cup {[kind |-> kind, sub |-> 0, at |-> "fetch", seen |-> {}]}
    /\ UNCHANGED <<local, touches, worker, changes, connection, session, submissions, stops, faults>>

Finish(t) == tasks' = tasks \ {t}
Becomes(t, u) == tasks' = (tasks \ {t}) \cup {u}

\* CHECK_AUTH: GET /auth/user, then the user is stored or removed: removed too when the
\* request fails, whatever session there is.
CheckAuth(t) ==
    /\ t.kind = "check" /\ worker.ready
    /\ \/ /\ t.at = "fetch" /\ UNCHANGED <<local, changes>>
          /\ \/ Becomes(t, [t EXCEPT !.at = IF session THEN "store" ELSE "remove"]) /\ UNCHANGED faults
             \/ Fault /\ Becomes(t, [t EXCEPT !.at = "remove"])
       \/ /\ t.at \in {"store", "remove"}
          /\ Store([local EXCEPT !.user = (t.at = "store")])
          /\ Finish(t) /\ UNCHANGED faults
    /\ UNCHANGED <<touches, worker, connection, session, submissions, inputs, stops>>

\* Mutant: the room stays in storage.
LogoutKeepsRoom(t) ==
    /\ t.kind = "logout" /\ worker.ready
    /\ \/ /\ t.at = "fetch" /\ session' \in {FALSE, session}
          /\ Becomes(t, [t EXCEPT !.at = "finish"])
          /\ UNCHANGED <<local, changes, worker, sock>>
       \/ /\ t.at = "finish" /\ Finish(t)
          /\ Store([local EXCEPT !.user = FALSE])
          /\ worker' = [worker EXCEPT !.room = 0, !.socket = 0]
          /\ sock' = IF worker.socket = 0 THEN sock ELSE [sock EXCEPT ![worker.socket].state = "closed"]
          /\ UNCHANGED session
    /\ UNCHANGED <<touches, timers, submissions, inputs, stops, faults>>

\* LOGOUT: POST /auth/logout, whatever comes of it; then the room is forgotten, the
\* socket closed and the storage cleared.
Logout(t) ==
    /\ t.kind = "logout" /\ worker.ready
    /\ \/ /\ t.at = "fetch" /\ session' \in {FALSE, session}
          /\ Becomes(t, [t EXCEPT !.at = "finish"])
          /\ UNCHANGED <<local, changes, worker, sock, raced>>
       \/ /\ t.at = "finish" /\ Finish(t)
          /\ Store(NothingStored)
          /\ worker' = [worker EXCEPT !.room = 0, !.socket = 0]
          /\ sock' = IF worker.socket = 0 THEN sock ELSE [sock EXCEPT ![worker.socket].state = "closed"]
          /\ raced' = (raced \/ AboutSubmissions # {})
          /\ UNCHANGED session
    /\ UNCHANGED <<touches, timers, forwarded, accepted, late, inputs, stops, faults>>

----------------------------------------------------------------------------
(* Touched problems.                                                       *)

\* What a task of the chain makes of the list and its round.
MarkedList(list, slug) == list \cup {slug}
ResetList(list, key, k) == IF key = k THEN list ELSE {}

\* handleEditorInput, reportTouch: a page reports each problem once; typing into one that
\* was reported changes nothing, even if that was in an earlier round.
\* markProblemTouched puts the write at the end of the chain.
TypeCode(slug) ==
    /\ Message /\ slug \notin reported
    /\ reported' = reported \cup {slug}
    /\ chain' = Append(chain, [kind |-> "mark", arg |-> slug, at |-> "read", seen |-> {}, key |-> "none"])
    /\ atomTouched' = MarkedList(atomTouched, slug)
    /\ UNCHANGED <<local, touched, round, failed, atomRound, worker, tasks, changes, connection, session,
                   submissions, stops, faults>>

\* The page is loaded again, and with it contentScript.js.
LoadPage ==
    /\ reported # {} /\ Input
    /\ reported' = {}
    /\ UNCHANGED <<local, touched, round, chain, failed, atomTouched, atomRound, worker, tasks,
                   changes, connection, session, submissions, stops, faults>>

\* PROBLEM_PROGRESS_RESET, resetTouchedProblems.  The panel sends it with every
\* round-start it is given, replayed ones included, after storing roundEndTime.
PanelRound(k) ==
    /\ Message
    /\ Store([local EXCEPT !.endTime = TRUE, !.next = FALSE])
    /\ late' = IF local.endTime /\ k = atomRound THEN late ELSE FALSE
    /\ chain' = Append(chain, [kind |-> "reset", arg |-> k, at |-> "read", seen |-> {}, key |-> "none"])
    /\ atomTouched' = ResetList(atomTouched, atomRound, k)
    /\ atomRound' = k
    /\ UNCHANGED <<touched, round, reported, failed, worker, tasks, connection, session, forwarded,
                   raced, accepted, stops, faults>>

\* Mutant: the writes are not chained.
ChainUnchained ==
    \E n \in DOMAIN chain :
      LET t == chain[n]
          without == SubSeq(chain, 1, n - 1) \o SubSeq(chain, n + 1, Len(chain))
      IN  /\ worker.up
          /\ \/ /\ t.at = "read"
                /\ chain' = [chain EXCEPT ![n] = [t EXCEPT !.at = "write", !.seen = touched, !.key = round]]
                /\ UNCHANGED <<touched, round>>
             \/ /\ t.at = "write" /\ chain' = without
                /\ IF t.kind = "mark" THEN touched' = MarkedList(t.seen, t.arg) /\ UNCHANGED round
                     ELSE IF t.key = t.arg THEN UNCHANGED <<touched, round>>
                     ELSE touched' = {} /\ round' = t.arg
          /\ UNCHANGED <<local, reported, failed, atomTouched, atomRound, worker, tasks, changes,
                         connection, session, submissions, inputs, stops, faults>>

\* Whether a task of the chain has something to write.
HasNews(t) == IF t.kind = "mark" THEN t.arg \notin t.seen ELSE t.arg # t.key

\* touchedWrites: the head of the chain reads the list or its round, and writes.  When
\* storage.session refuses the one or the other, the task is dropped and the next one runs.
Chain ==
    LET t == Head(chain)
    IN  /\ worker.up /\ chain # <<>>
        /\ \/ /\ t.at = "read"
              /\ chain' = [chain EXCEPT ![1] = [t EXCEPT !.at = "write", !.seen = touched, !.key = round]]
              /\ UNCHANGED <<touched, round, failed, faults>>
           \/ /\ t.at = "write" /\ chain' = Tail(chain)
              /\ IF t.kind = "mark" THEN touched' = MarkedList(t.seen, t.arg) /\ UNCHANGED round
                   ELSE IF t.key = t.arg THEN UNCHANGED <<touched, round>>
                   ELSE touched' = {} /\ round' = t.arg
              /\ UNCHANGED <<failed, faults>>
           \/ /\ t.at = "read" \/ HasNews(t)
              /\ Fault /\ chain' = Tail(chain)
              /\ failed' = IF t.kind = "mark" THEN [failed EXCEPT !.marks = @ \cup {t.arg}]
                                              ELSE [failed EXCEPT !.reset = TRUE]
              /\ UNCHANGED <<touched, round>>
        /\ UNCHANGED <<local, reported, atomTouched, atomRound, worker, tasks, changes, connection,
                       session, submissions, inputs, stops>>

----------------------------------------------------------------------------
(* Submissions.                                                            *)

\* injected.js sees the answer to a submission; SUBMISSION_PENDING reaches the worker.
Submit(s) ==
    /\ Message /\ forwarded[s] = 0 /\ s \notin local.pending
    /\ tasks' = tasks \cup {[kind |-> "pending", sub |-> s, at |-> "read", seen |-> {}]}
    /\ raced' = (raced \/ AboutSubmissions # {})
    /\ UNCHANGED <<local, touches, worker, changes, connection, session, forwarded, accepted, late, stops, faults>>

\* injected.js sees the verdict, perhaps again; SUBMISSION_RESULT reaches the worker.
Result(s, kind) ==
    /\ Message
    /\ tasks' = tasks \cup {[kind |-> kind, sub |-> s, at |-> "read", seen |-> {}]}
    /\ raced' = (raced \/ AboutSubmissions # {})
    /\ accepted' = IF kind = "result" /\ s \in local.pending /\ ~(local.endTime /\ late)
                     THEN accepted \cup {s} ELSE accepted
    /\ UNCHANGED <<local, touches, worker, changes, connection, session, forwarded, late, stops, faults>>

\* SUBMISSION_PENDING: pendingSubmissions is read, and written with one more.
StorePending(t) ==
    /\ t.kind = "pending"
    /\ \/ t.at = "read" /\ Becomes(t, [t EXCEPT !.at = "write", !.seen = local.pending])
                        /\ UNCHANGED <<local, changes>>
       \/ t.at = "write" /\ Finish(t) /\ Store([local EXCEPT !.pending = t.seen \cup {t.sub}])
    /\ UNCHANGED <<touches, worker, connection, session, submissions, inputs, stops, faults>>

\* Mutant: a submission that was sent stays pending.
ForwardKeepsPending(t) ==
    /\ t.kind \in {"result", "failed"} /\ t.at = "read"
    /\ IF t.sub \in local.pending
         THEN /\ Finish(t)
              /\ forwarded' = IF t.kind = "result" /\ ~(local.endTime /\ late)
                                THEN [forwarded EXCEPT ![t.sub] = @ + 1] ELSE forwarded
         ELSE Finish(t) /\ UNCHANGED forwarded
    /\ UNCHANGED <<local, changes, touches, worker, connection, session, raced, accepted, late,
                   inputs, stops, faults>>

\* SUBMISSION_RESULT: pendingSubmissions and roundEndTime are read; an accepted
\* submission is sent to the server unless the round is over, nobody waiting for the
\* answer; then pendingSubmissions is written without it.
Forward(t) ==
    /\ t.kind \in {"result", "failed"}
    /\ \/ /\ t.at = "read"
          /\ IF t.sub \in local.pending
               THEN /\ Becomes(t, [t EXCEPT !.at = "write", !.seen = local.pending])
                    /\ forwarded' = IF t.kind = "result" /\ ~(local.endTime /\ late)
                                      THEN [forwarded EXCEPT ![t.sub] = @ + 1] ELSE forwarded
               ELSE Finish(t) /\ UNCHANGED forwarded
          /\ UNCHANGED <<local, changes>>
       \/ /\ t.at = "write" /\ Finish(t) /\ Store([local EXCEPT !.pending = t.seen \ {t.sub}])
          /\ UNCHANGED forwarded
    /\ UNCHANGED <<touches, worker, connection, session, raced, accepted, late, inputs, stops, faults>>

----------------------------------------------------------------------------
Callback ==
    \/ ReadConfig \/ OnChanged \/ Reconnect \/ Chain
    \/ \E i \in Sockets : OnOpen(i) \/ OnClose(i)
    \/ \E t \in tasks : CheckAuth(t) \/ Logout(t) \/ StorePending(t) \/ Forward(t)

Next ==
    \/ Start \/ Stop \/ Callback
    \/ \E i \in Sockets : Lose(i)
    \/ \E i \in Sockets, type \in {"next-problem", "room-expired"} : OnMessage(i, type)
    \/ \E r \in Rooms \cup {0} : PanelRoom(r)
    \/ LogIn \/ TimeUp \/ LoadPage
    \/ \E kind \in {"check", "logout"} : Ask(kind)
    \/ \E slug \in Slugs : TypeCode(slug)
    \/ \E k \in RoundKeys : PanelRound(k)
    \/ \E s \in Subs : Submit(s)
    \/ \E s \in Subs, kind \in {"result", "failed"} : Result(s, kind)

Spec == Init /\ [][Next]_vars

\* While it runs, the worker's callbacks run and sockets open (finitely many between two
\* inputs, so that together is enough); storage events wake it.
FairSpec == Spec /\ WF_vars(Callback) /\ WF_vars(Start /\ changes # <<>>)

----------------------------------------------------------------------------
\* "one would clobber the other": as long as the worker is not stopped, the list and
\* its round are those that the messages make when each takes effect at once, in the
\* order of their arrival: no touch is lost to another one or to a replayed round-start,
\* and none of an older round survives.  A touch that storage.session refused is missed
\* alone; after a reset that it refused nothing is claimed.
TouchesInOrder ==
    stops = 0 /\ chain = <<>> /\ ~failed.reset =>
      /\ touched \ failed.marks = atomTouched \ failed.marks
      /\ round = atomRound

\* An accepted submission that was pending when its result came in time is sent to
\* the server exactly once, also when its result is reported again, unless messages
\* about submissions overlapped or the worker was stopped.
ForwardedOnce ==
    ~raced /\ stops = 0 /\ AboutSubmissions = {} => \A s \in accepted : forwarded[s] = 1

\* When everything has been delivered, the worker's room and user are those stored,
\* whichever messages it was started for and a logout included.  A worker whose first
\* read failed may know neither, but never another room or a user who is gone.
MemoryFollowsStorage ==
    worker.ready /\ changes = <<>> =>
      /\ worker.room = local.room \/ (worker.blind /\ worker.room = 0)
      /\ worker.user = local.user \/ (worker.blind /\ ~worker.user)

\* Once the room and the user stay, some open socket is in that room: the reconnection
\* survives lost connections, a change of room and a restart.
JoinsActiveRoom ==
    \A r \in Rooms : <>[](worker.ready /\ worker.user /\ worker.room = r)
                       => <>[](\E i \in Sockets : sock[i].state = "open" /\ sock[i].room = r)
=============================================================================
