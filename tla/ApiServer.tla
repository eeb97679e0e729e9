----------------------------- MODULE ApiServer -----------------------------
(***************************************************************************)
(* The Express server between the extension and central-service: the rate  *)
(* limiters, whose counters several replicas share in Redis, the sessions, *)
(* the OAuth logins, the link to a submissions repository, and the routes  *)
(* that forward to central-service.                                        *)
(*                                                                         *)
(* A request occupies a slot; at is the await it has reached.  Between two *)
(* awaits other requests, of this replica or of another one, run.  The     *)
(* requests are those of one person with an account at each provider, in   *)
(* several browsers.                                                       *)
(***************************************************************************)
EXTENDS Naturals, FiniteSets

CONSTANTS
    Slots,        \* requests that can be in progress together
    Clients,      \* browsers, each with its cookie
    Routes,       \* the routes that are requested
    Burst,        \* burstSize of each limiter
    MaxRequests,  \* bound: requests received
    MaxWindow,    \* bound: last window of the limiters
    MaxTokens,    \* bound: tokens GitHub issues
    MaxFaults     \* bound: calls to Redis, GitHub or central-service that fail

Limiters == {"auth", "global"}
\* The limiters count a request without a user under its address.
Users == {"github", "google"}
Identifiers == Users \cup {"ip"}

ASSUME ClientsAssumption == IsFiniteSet(Clients)
ASSUME BurstAssumption == Burst \in [Limiters -> Nat \ {0}]
ASSUME BoundsAssumption ==
    MaxRequests \in Nat /\ MaxWindow \in Nat /\ MaxTokens \in Nat /\ MaxTokens >= 2 /\ MaxFaults \in Nat

\* Requests that are answered without keeping anything: the page that ends a login,
\* who is logged in, the state of the link, the redirects to a provider.
AnsweredRoutes == {"done", "user", "connect/status", "oauth"}

AuthRoutes ==
    AnsweredRoutes \cup {"google/callback", "github/callback", "github/callback/connect", "logout"}

\* rooms.js, problems.js, statistics.js.
ForwardedRoutes ==
    {"rooms/create", "rooms/participants", "rounds/create", "rounds/time", "rooms/start",
     "rooms/join", "rooms/active", "rooms/get", "rooms/leave",
     "rooms/end", "rooms/leaderboard", "rooms/round-details",
     "problems/tags", "problems/companies", "problems/list", "problems/count", "statistics"}
AllRoutes == AuthRoutes \cup ForwardedRoutes \cup {"submission", "health"}

\* Routes whose requests have a body that must be JSON.
PostRoutes == {"rooms/create", "rounds/create", "rounds/time", "submission"}

ASSUME RoutesAssumption == Routes \subseteq AllRoutes

VARIABLES
    window,    \* floor(Date.now() / windowMs)
    counter,   \* Redis: the counters, by limiter, identifier and window
    expiring,  \* Redis: the counters that have a TTL
    session,   \* Redis: the session of each browser's cookie
    stored,    \* Redis: gh_token, 0 when there is none
    link,      \* Redis: the token of gh_repo of each user, 0 when there is none
    live,      \* GitHub: tokens that are valid
    repo,      \* GitHub: the version of the solution's file, 0 when there is none
    scored,    \* central-service: submissions it has taken
    stats,     \* central-service: updates of the statistics
    req,       \* the requests in progress
    pushes,    \* pushToGithub calls in progress
    issued,    \* tokens issued so far
    sent,
    faults,
    seen,      \* history: requests that reached a limiter
    letIn,     \* history: requests that a counter let through
    refused,   \* history: where requests were answered 429
    linked,    \* history: the tokens of links: saved; unconfirmed, in Redis although the SET
               \* reported an error; replaced, by the link of a later authorization
    quiet      \* history: no call failed and no two token flows overlapped

limits == <<window, counter, expiring, seen, letIn, refused>>
github == <<live, repo, issued>>
central == <<scored, stats>>
vars == <<limits, session, stored, link, github, central, req, pushes, sent, faults, linked, quiet>>

Keys == Limiters \X Identifiers \X (0 .. MaxWindow)
NoSession == [user |-> "ip", token |-> 0]

\* token: of the session when the request came; new: issued for this request;
\* prev: the token that was stored.
Idle == [at |-> "idle", route |-> "none", client |-> "none", user |-> "ip", token |-> 0,
         win |-> 0, new |-> 0, prev |-> 0]

\* At the start of a window.  Either nobody has logged in, or a browser has the
\* session of a GitHub login, perhaps of a user who has linked a repository too.
Init ==
    \E in \in SUBSET Clients, connected \in BOOLEAN :
      /\ Cardinality(in) <= 1 /\ (connected => in # {})
      /\ window = 0
      /\ counter = [k \in Keys |-> 0]
      /\ expiring = {}
      /\ session = [c \in Clients |-> IF c \in in THEN [user |-> "github", token |-> 1] ELSE NoSession]
      /\ stored = Cardinality(in)
      /\ link = [u \in Users |-> IF connected /\ u = "github" THEN 2 ELSE 0]
      /\ linked = [saved |-> IF connected THEN {2} ELSE {}, unconfirmed |-> {}, replaced |-> {}]
      /\ issued = Cardinality(in) + Cardinality(linked.saved)
      /\ live = 1 .. issued
      /\ repo = 0 /\ scored = 0 /\ stats = 0
      /\ req = [s \in Slots |-> Idle]
      /\ pushes = {}
      /\ sent = 0 /\ faults = 0
      /\ seen = [k \in Keys |-> 0]
      /\ letIn = [k \in Keys |-> 0]
      /\ refused = {} /\ quiet = TRUE

At(s, l) == req[s].at = l
Serves(s, route) == At(s, "handle") /\ req[s].route = route
Go(s, l) == req' = [req EXCEPT ![s].at = l]
Answer(s) == req' = [req EXCEPT ![s] = Idle]
Call == UNCHANGED <<faults, quiet>>
Fault == faults < MaxFaults /\ faults' = faults + 1 /\ quiet' = FALSE

----------------------------------------------------------------------------
(* The way to a handler: validation, session, limiter.                     *)

\* createValidationMiddleware, createStructuredLoggingMiddleware, the session
\* and passport.session: the user is the one of the session at this moment.
\* checkLimit reads the clock next.
Receive(s, c, route) ==
    /\ At(s, "idle") /\ sent < MaxRequests
    /\ sent' = sent + 1
    /\ req' = [req EXCEPT ![s] = [Idle EXCEPT !.at = "limit", !.route = route, !.client = c,
                                              !.user = session[c].user,
                                              !.token = session[c].token, !.win = window]]
    /\ UNCHANGED <<limits, session, stored, link, github, central, pushes, faults, linked, quiet>>

\* createValidationMiddleware: a body that is not JSON is answered 400.
RejectBody(s, route) ==
    /\ At(s, "idle") /\ sent < MaxRequests /\ route \in PostRoutes
    /\ sent' = sent + 1
    /\ UNCHANGED <<limits, session, stored, link, github, central, req, pushes, faults, linked, quiet>>

\* Mutant: the window is not part of the key.
KeyOfAllWindows(s) ==
    <<IF req[s].route \in AuthRoutes THEN "auth" ELSE "global", req[s].user, 0>>

\* checkLimit, getIdentifier: the key of the counter of a request.
KeyOf(s) ==
    <<IF req[s].route \in AuthRoutes THEN "auth" ELSE "global", req[s].user, req[s].win>>

\* The limiter, the caller and the window of a request.
Arrival(s) ==
    <<IF req[s].route \in AuthRoutes THEN "auth" ELSE "global", req[s].user, req[s].win>>

\* Mutant: one request too many.
DecideLate(s, n) ==
    IF n <= Burst[KeyOf(s)[1]] + 1
      THEN Go(s, "handle") /\ letIn' = [letIn EXCEPT ![Arrival(s)] = @ + 1] /\ UNCHANGED refused
      ELSE Answer(s) /\ refused' = refused \cup {Arrival(s)} /\ UNCHANGED letIn

\* middleware: 429 when the counter is past burstSize.
Decide(s, n) ==
    IF n <= Burst[KeyOf(s)[1]]
      THEN Go(s, "handle") /\ letIn' = [letIn EXCEPT ![Arrival(s)] = @ + 1] /\ UNCHANGED refused
      ELSE Answer(s) /\ refused' = refused \cup {Arrival(s)} /\ UNCHANGED letIn

\* checkLimit: INCR.
Increment(s) ==
    LET k == KeyOf(s)  n == counter[k] + 1
    IN  /\ At(s, "limit")
        /\ counter' = [counter EXCEPT ![k] = n]
        /\ seen' = [seen EXCEPT ![Arrival(s)] = @ + 1]
        /\ IF n = 1 THEN Go(s, "expire") /\ UNCHANGED <<letIn, refused>> ELSE Decide(s, n)
        /\ Call
        /\ UNCHANGED <<window, expiring, session, stored, link, github, central, pushes, sent, linked>>

\* checkLimit: the INCR, or its reply, is lost, and the request is let through.
IncrementFails(s) ==
    /\ At(s, "limit") /\ Fault
    /\ counter' \in {counter, [counter EXCEPT ![KeyOf(s)] = @ + 1]}
    /\ seen' = [seen EXCEPT ![Arrival(s)] = @ + 1]
    /\ Go(s, "handle")
    /\ UNCHANGED <<window, expiring, letIn, refused, session, stored, link, github, central,
                   pushes, sent, linked>>

\* checkLimit: EXPIRE after the first INCR.
SetExpiry(s) ==
    /\ At(s, "expire")
    /\ \/ Call /\ expiring' = expiring \cup {KeyOf(s)} /\ Decide(s, 1)
       \/ Fault /\ Go(s, "handle") /\ UNCHANGED <<expiring, letIn, refused>>
    /\ UNCHANGED <<window, counter, seen, session, stored, link, github, central, pushes, sent, linked>>

\* The clock reaches the next window.  Redis drops the counters that have a TTL,
\* which is as long as a window; no INCR is held back for that long.  Handlers and pushes do
\* not read the clock, so a tick during one of them is taken before or after it.
NextWindow ==
    LET over == {k \in expiring : \A s \in Slots : At(s, "limit") => KeyOf(s) # k}
    IN  /\ window < MaxWindow
        /\ pushes = {} /\ \A s \in Slots : req[s].at \in {"idle", "limit", "expire"}
        /\ window' = window + 1
        /\ counter' = [k \in Keys |-> IF k \in over THEN 0 ELSE counter[k]]
        /\ expiring' = expiring \ over
        /\ UNCHANGED <<seen, letIn, refused, session, stored, link, github, central, req, pushes,
                       sent, faults, linked, quiet>>

----------------------------------------------------------------------------
(* Handlers that answer without keeping anything, and forwarded routes.    *)

unforwarded == <<limits, session, stored, link, github, central, pushes, sent, linked>>

\* Answered from the session, with 401 or with a fixed page; 500 when Redis fails.
AnswerPage(s) ==
    /\ At(s, "handle") /\ req[s].route \in AnsweredRoutes \cup {"health"}
    /\ Answer(s) /\ (Call \/ Fault) /\ UNCHANGED unforwarded

\* ensureAuth: 401 without a user, or the call to central-service.
EnsureAuth(s) ==
    /\ At(s, "handle") /\ req[s].route \in ForwardedRoutes
    /\ IF req[s].user = "ip" THEN Answer(s) ELSE Go(s, "upstream")
    /\ Call /\ UNCHANGED unforwarded

\* The status and the body of central-service are passed on; 500 when the call fails.
Upstream(s) ==
    /\ At(s, "upstream")
    /\ Answer(s)
    /\ Call \/ Fault
    /\ UNCHANGED unforwarded

----------------------------------------------------------------------------
(* Logging in and out.                                                     *)

TokenFlow == {"read", "revoke", "save", "login", "revokeOwn", "delete"}
Overlap(s) == quiet' = (quiet /\ \A o \in Slots \ {s} : req[o].at \notin TokenFlow)

\* GoogleStrategy and /google/callback: the session is made, or the login failed at
\* Google.  The POST or PUT of the user, which nobody waits for, changes a table of
\* central-service that is not modelled.
GoogleCallback(s) ==
    /\ Serves(s, "google/callback") /\ Answer(s) /\ Call
    /\ \/ session' = [session EXCEPT ![req[s].client] = [user |-> "google", token |-> 0]]
       \/ UNCHANGED session
    /\ UNCHANGED <<limits, stored, link, github, central, pushes, sent, linked>>

Issue == issued < MaxTokens /\ issued' = issued + 1 /\ live' = live \cup {issued + 1}

\* GithubStrategy: GitHub has issued a token, or the login failed there.  The user is
\* sent to central-service as with Google.
GithubCallback(s) ==
    /\ Serves(s, "github/callback")
    /\ \/ /\ Issue /\ Overlap(s)
          /\ req' = [req EXCEPT ![s].at = "read", ![s].new = issued + 1]
       \/ Answer(s) /\ UNCHANGED <<issued, live, quiet>>
    /\ UNCHANGED <<limits, session, stored, link, repo, central, pushes, sent, faults, linked>>

\* Mutant: an exception of Redis reaches passport, which never answers.
LoginReadHangs(s) ==
    /\ At(s, "read")
    /\ \/ /\ Call
          /\ req' = [req EXCEPT ![s].prev = stored,
                                ![s].at = IF stored \in {0, req[s].new} THEN "save" ELSE "revoke"]
       \/ Fault /\ Go(s, "hung")
    /\ UNCHANGED <<limits, session, stored, link, github, central, pushes, sent, linked>>

\* Mutant: a user has one key for both tokens, and the one of the link is revoked.
LoginReadsLink(s) ==
    /\ At(s, "read")
    /\ \/ /\ Call
          /\ req' = [req EXCEPT ![s].prev = link["github"],
                                ![s].at = IF link["github"] \in {0, req[s].new} THEN "save" ELSE "revoke"]
       \/ Fault /\ Go(s, "login")
    /\ UNCHANGED <<limits, session, stored, link, github, central, pushes, sent, linked>>

\* GithubStrategy: getStoredGithubToken.
LoginRead(s) ==
    /\ At(s, "read")
    /\ \/ /\ Call
          /\ req' = [req EXCEPT ![s].prev = stored,
                                ![s].at = IF stored \in {0, req[s].new} THEN "save" ELSE "revoke"]
       \/ Fault /\ Go(s, "login")
    /\ UNCHANGED <<limits, session, stored, link, github, central, pushes, sent, linked>>

\* GithubStrategy: revokeGithubToken, whose status is not looked at; an exception
\* skips the saving.
LoginRevoke(s) ==
    /\ At(s, "revoke")
    /\ \/ Call /\ live' = live \ {req[s].prev} /\ Go(s, "save")
       \/ Fault /\ UNCHANGED live /\ Go(s, "save")
       \/ Fault /\ live' \in {live, live \ {req[s].prev}} /\ Go(s, "login")
    /\ UNCHANGED <<limits, session, stored, link, repo, issued, central, pushes, sent, linked>>

\* Mutant: the new token is not kept.
LoginForgets(s) ==
    /\ At(s, "save") /\ Go(s, "login") /\ Call
    /\ UNCHANGED <<limits, session, stored, link, github, central, pushes, sent, linked>>

\* GithubStrategy: saveGithubToken.
LoginSave(s) ==
    /\ At(s, "save") /\ Go(s, "login")
    /\ \/ Call /\ stored' = req[s].new
       \/ Fault /\ stored' \in {stored, req[s].new}
    /\ UNCHANGED <<limits, session, link, github, central, pushes, sent, linked>>

\* GithubStrategy, /github/callback: passport makes a new session.
LoginDone(s) ==
    /\ At(s, "login") /\ Answer(s) /\ Call
    /\ session' = [session EXCEPT ![req[s].client] = [user |-> "github", token |-> req[s].new]]
    /\ UNCHANGED <<limits, stored, link, github, central, pushes, sent, linked>>

\* POST /auth/logout.  Google's revocation changes nothing here.
Logout(s) ==
    /\ Serves(s, "logout")
    /\ IF req[s].user = "github" THEN Go(s, "revokeOwn") /\ Overlap(s)
                                 ELSE Go(s, "destroy") /\ UNCHANGED quiet
    /\ UNCHANGED <<limits, session, stored, link, github, central, pushes, sent, faults, linked>>

\* POST /auth/logout: revokeGithubToken.  GitHub refuses a token that is not valid.
LogoutRevoke(s) ==
    /\ At(s, "revokeOwn")
    /\ \/ /\ Call /\ live' = live \ {req[s].token}
          /\ Go(s, IF req[s].token \in live THEN "delete" ELSE "destroy")
       \/ Fault /\ live' \in {live, live \ {req[s].token}} /\ Go(s, "destroy")
    /\ UNCHANGED <<limits, session, stored, link, repo, issued, central, pushes, sent, linked>>

\* POST /auth/logout: deleteStoredGithubToken.
LogoutDelete(s) ==
    /\ At(s, "delete") /\ Go(s, "destroy")
    /\ \/ Call /\ stored' = 0
       \/ Fault /\ UNCHANGED stored
    /\ UNCHANGED <<limits, session, link, github, central, pushes, sent, linked>>

\* POST /auth/logout: the session is destroyed and the cookie cleared, or 500.
LogoutDestroy(s) ==
    /\ At(s, "destroy") /\ Answer(s)
    /\ \/ Call /\ session' = [session EXCEPT ![req[s].client] = NoSession]
       \/ Fault /\ UNCHANGED session
    /\ UNCHANGED <<limits, stored, link, github, central, pushes, sent, linked>>

\* The session ends an hour after its last request.
SessionExpires(c) ==
    /\ session[c] # NoSession
    /\ session' = [session EXCEPT ![c] = NoSession]
    /\ UNCHANGED <<limits, stored, link, github, central, req, pushes, sent, faults, linked, quiet>>

----------------------------------------------------------------------------
(* The link to the submissions repository.                                 *)

\* strategy github-connect: a token is issued, or the authorization failed.
ConnectCallback(s) ==
    /\ Serves(s, "github/callback/connect") /\ Call
    /\ \/ Issue /\ req' = [req EXCEPT ![s].at = "repo", ![s].new = issued + 1]
       \/ Answer(s) /\ UNCHANGED <<issued, live>>
    /\ UNCHANGED <<limits, session, stored, link, repo, central, pushes, sent, linked>>

\* createSubmissionRepo; when it throws the request ends there.
ConnectRepo(s) ==
    /\ At(s, "repo")
    /\ \/ Call /\ Go(s, IF req[s].user = "ip" THEN "orphan" ELSE "link")
       \/ Fault /\ Answer(s)
    /\ UNCHANGED unforwarded

\* saveGithubRepoLink: the new token takes the place of the link there was.
Relink(s, kind) ==
    LET u == req[s].user
    IN  /\ link' = [link EXCEPT ![u] = req[s].new]
        /\ linked' = [linked EXCEPT ![kind] = @ \cup {req[s].new},
                                    !.replaced = @ \cup ({link[u]} \ {0})]

\* /github/callback/connect: saveGithubRepoLink.  When the SET reports an error, which
\* does not mean that Redis has not stored the link, the token is revoked next.
ConnectSave(s) ==
    /\ At(s, "link")
    /\ \/ Call /\ Answer(s) /\ Relink(s, "saved")
       \/ Fault /\ Go(s, "orphan") /\ Relink(s, "unconfirmed")
       \/ Fault /\ Go(s, "orphan") /\ UNCHANGED <<link, linked>>
    /\ UNCHANGED <<limits, session, stored, github, central, pushes, sent>>

\* /github/callback/connect: the token that will not be linked is revoked.
ConnectRevoke(s) ==
    /\ At(s, "orphan") /\ Answer(s)
    /\ \/ Call /\ live' = live \ {req[s].new}
       \/ Fault /\ UNCHANGED live
    /\ UNCHANGED <<limits, session, stored, link, repo, issued, central, pushes, sent, linked>>

----------------------------------------------------------------------------
(* POST /submission                                                        *)

\* 401 without a user; only accepted submissions are processed.
Submission(s) ==
    /\ Serves(s, "submission") /\ Call
    /\ \/ Answer(s)
       \/ req[s].user # "ip" /\ Go(s, "lookup")
    /\ UNCHANGED unforwarded

\* The active room and the problem's id are asked for; the request ends when
\* there is none, or when central-service does not say.  Both calls only read.
SubmissionLookup(s) ==
    /\ At(s, "lookup")
    /\ \/ Call /\ Go(s, "score")
       \/ (Call \/ Fault) /\ Answer(s)
    /\ UNCHANGED unforwarded

\* The submission is sent to the round; the solution is pushed without waiting for it.
SubmissionScore(s) ==
    /\ At(s, "score")
    /\ \/ /\ Call /\ Go(s, "stats")
          /\ scored' = scored + 1
          /\ pushes' = pushes \cup {[code |-> scored + 1, user |-> req[s].user, at |-> "link",
                                     token |-> 0, sha |-> 0]}
       \/ Call /\ Answer(s) /\ UNCHANGED <<scored, pushes>>
       \/ Fault /\ Answer(s) /\ scored' \in {scored, scored + 1} /\ UNCHANGED pushes
    /\ UNCHANGED <<limits, session, stored, link, github, stats, sent, linked>>

\* The statistics are updated; the answer does not depend on it.
SubmissionStats(s) ==
    /\ At(s, "stats") /\ Answer(s)
    /\ \/ Call /\ stats' = stats + 1
       \/ Fault /\ UNCHANGED stats
    /\ UNCHANGED <<limits, session, stored, link, github, scored, pushes, sent, linked>>

Drop(p) == pushes' = pushes \ {p}
Replace(p, q) == pushes' = (pushes \ {p}) \cup {q}

\* pushToGithub: getGithubRepoLink.
PushLink(p) ==
    /\ p.at = "link"
    /\ \/ Call /\ link[p.user] = 0 /\ Drop(p)
       \/ Call /\ link[p.user] # 0 /\ Replace(p, [p EXCEPT !.at = "sha", !.token = link[p.user]])
       \/ Fault /\ Drop(p)
    /\ UNCHANGED <<limits, session, stored, link, github, central, req, sent, linked>>

\* commitSolution: the sha of the file, or nothing when GitHub does not give one,
\* then the PUT, which GitHub refuses when the sha is not the one of the file.
CommitSolution(p) ==
    /\ \/ /\ p.at = "sha" /\ UNCHANGED repo
          /\ \/ Call /\ Replace(p, [p EXCEPT !.at = "put", !.sha = IF p.token \in live THEN repo ELSE 0])
             \/ Fault /\ Replace(p, [p EXCEPT !.at = "put"])
             \/ Fault /\ Drop(p)
       \/ /\ p.at = "put" /\ Drop(p)
          /\ \/ Call /\ repo' = IF p.token \in live /\ p.sha = repo THEN p.code ELSE repo
             \/ Fault /\ repo' \in {repo, IF p.token \in live /\ p.sha = repo THEN p.code ELSE repo}
    /\ UNCHANGED <<limits, session, stored, link, live, issued, central, req, sent, linked>>

----------------------------------------------------------------------------
Handler(s) ==
    \/ AnswerPage(s) \/ EnsureAuth(s) \/ Upstream(s)
    \/ GoogleCallback(s) \/ GithubCallback(s) \/ LoginRead(s) \/ LoginRevoke(s) \/ LoginSave(s)
    \/ LoginDone(s) \/ Logout(s) \/ LogoutRevoke(s) \/ LogoutDelete(s) \/ LogoutDestroy(s)
    \/ ConnectCallback(s) \/ ConnectRepo(s) \/ ConnectSave(s) \/ ConnectRevoke(s)
    \/ Submission(s) \/ SubmissionLookup(s) \/ SubmissionScore(s) \/ SubmissionStats(s)

Limit(s) == Increment(s) \/ IncrementFails(s) \/ SetExpiry(s)

Push(p) == PushLink(p) \/ CommitSolution(p)

Next ==
    \/ \E s \in Slots, c \in Clients, route \in Routes : Receive(s, c, route)
    \/ \E s \in Slots, route \in Routes : RejectBody(s, route)
    \/ \E s \in Slots : Limit(s) \/ Handler(s)
    \/ \E p \in pushes : Push(p)
    \/ \E c \in Clients : SessionExpires(c)
    \/ NextWindow

Spec == Init /\ [][Next]_vars

\* Redis, GitHub and central-service answer or fail, and Node runs what they answer.
FairSpec ==
    /\ Spec
    /\ \A s \in Slots : WF_vars(Limit(s) \/ Handler(s))

----------------------------------------------------------------------------
\* "so limits hold across multiple server replicas": a counter never lets more
\* than burstSize requests of one caller through in one window, however the
\* requests interleave and whichever EXPIRE fails.
BurstHeld == \A k \in Keys : letIn[k] <= Burst[k[1]]

\* A caller is refused only when more than burstSize of his own requests came in
\* that window: a counter that was left without a TTL never locks him out later.
NoLockout == \A k \in refused : seen[k] > Burst[k[1]]

Held(t) ==
    \/ t = stored
    \/ \E u \in Users : link[u] = t
    \/ \E c \in Clients : session[c].token = t
    \/ \E s \in Slots : req[s].new = t

\* Tokens of GitHub do not expire.  As long as no call has failed and no two logins
\* or logouts overlapped, a token that is still valid is in gh_token, in a session, in
\* the hands of a request or in a link: it can still be revoked.  The one exception is
\* the token of a link that a later authorization replaced, which nothing revokes.
NoOrphanToken == quiet => \A t \in live \ linked.replaced : Held(t)

\* "logging out or logging in again doesn't unlink the submissions repo": the token
\* of a link is not revoked, unless the SET of that link had reported an error.
LinkSurvives == \A u \in Users : link[u] # 0 /\ link[u] \notin linked.unconfirmed => link[u] \in live

\* Every request is answered, also when Redis, GitHub or central-service fails at
\* any of its awaits.
RequestsAnswered == \A s \in Slots : ~At(s, "idle") ~> At(s, "idle")

=============================================================================
