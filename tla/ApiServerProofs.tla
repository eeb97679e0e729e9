-------------------------- MODULE ApiServerProofs --------------------------
(***************************************************************************)
(* Proofs about ApiServer, for any browsers, routes, bursts and bounds.    *)
(*                                                                         *)
(*   - the limiters: a counter never lets more than burstSize requests of  *)
(*     one caller through in one window, and refuses a caller only when    *)
(*     more than burstSize of his requests came in that window;            *)
(*   - the tokens of GitHub: the token of a link is never revoked, and as  *)
(*     long as no call failed and no two logins or logouts overlapped, no  *)
(*     valid token is lost.                                                *)
(***************************************************************************)
EXTENDS ApiServer, FiniteSetTheorems, TLAPS

\* Where a request can be.
LoginAt == {"read", "revoke", "save", "login"}
LinkAt == {"repo", "link", "orphan"}
Points == {"idle", "limit", "expire", "handle", "upstream", "lookup", "score", "stats", "destroy"}
            \cup TokenFlow \cup LinkAt

Requests ==
    [at : Points, route : AllRoutes \cup {"none"}, client : Clients \cup {"none"},
     user : Identifiers, token : Nat, win : 0 .. MaxWindow, new : Nat, prev : Nat]
Sessions == [user : Identifiers, token : Nat]

LimitsTyped ==
    /\ window \in 0 .. MaxWindow
    /\ counter \in [Keys -> Nat] /\ seen \in [Keys -> Nat] /\ letIn \in [Keys -> Nat]
    /\ expiring \subseteq Keys /\ refused \subseteq Keys

TokensTyped ==
    /\ session \in [Clients -> Sessions]
    /\ stored \in Nat /\ issued \in Nat
    /\ link \in [Users -> Nat]
    /\ live \subseteq Nat
    /\ linked \in [saved : SUBSET Nat, unconfirmed : SUBSET Nat, replaced : SUBSET Nat]

TypeOK == LimitsTyped /\ TokensTyped /\ req \in [Slots -> Requests]

----------------------------------------------------------------------------
(* The invariant of the limiters.                                          *)

\* Requests with this key can still reach their INCR.
Open(k) == k[3] >= window \/ \E s \in Slots : At(s, "limit") /\ KeyOf(s) = k

\* A request belongs to a window that has begun, and so does a counter with a TTL.
Begun == (\A s \in Slots : req[s].win <= window) /\ (\A k \in expiring : k[3] <= window)

\* A request that waits for its EXPIRE will be let in: it has its place already.
PlaceKept ==
    \A s \in Slots : At(s, "expire") =>
      /\ letIn[KeyOf(s)] + 1 <= Burst[KeyOf(s)[1]]
      /\ Open(KeyOf(s)) => letIn[KeyOf(s)] + 1 <= counter[KeyOf(s)]
      /\ \A o \in Slots : At(o, "expire") /\ KeyOf(o) = KeyOf(s) => o = s

\* Until its window is over a counter covers whom it let in.
Covered == \A k \in Keys : Open(k) => letIn[k] <= counter[k]

\* A counter counts no request that did not come.
CountsArrivals == \A k \in Keys : counter[k] <= seen[k]

LimitInv == Begun /\ PlaceKept /\ Covered /\ CountsArrivals /\ BurstHeld /\ NoLockout

----------------------------------------------------------------------------
(* The invariant of the tokens.                                            *)

\* Tokens that were issued for a login, and tokens issued for a link.
LoginToken(t) ==
    \/ t = stored
    \/ \E c \in Clients : session[c].token = t
    \/ \E s \in Slots : req[s].token = t \/ req[s].prev = t \/ (req[s].at \in LoginAt /\ req[s].new = t)
LinkToken(t) == t \in linked.saved \cup linked.unconfirmed \/ \E s \in Slots : req[s].at \in LinkAt /\ req[s].new = t

\* Nothing knows a token before it was issued.
Issued ==
    /\ \A t \in live : 1 <= t /\ t <= issued
    /\ \A t \in Nat : LoginToken(t) => t <= issued
    /\ \A t \in Nat : LinkToken(t) => 1 <= t /\ t <= issued

\* The token of a link is never that of a login.
KindsApart == \A t \in Nat : ~(LoginToken(t) /\ LinkToken(t))

\* A request that links holds a token of its own, which is valid.
OwnToken ==
    \A s \in Slots :
      /\ req[s].at \in LinkAt =>
           /\ req[s].new \in live /\ req[s].new \notin linked.saved
           /\ \A o \in Slots : req[o].at \in LinkAt /\ req[o].new = req[s].new => o = s
      /\ req[s].at \notin LoginAt \cup LinkAt => req[s].new = 0
      /\ req[s].at = "link" => req[s].user \in Users

\* What was linked stays valid, and it stays in the link until another token replaces it.
LinksLive ==
    /\ linked.saved \subseteq live
    /\ \A u \in Users : link[u] # 0 => link[u] \in linked.saved \cup linked.unconfirmed
    /\ \A t \in linked.saved : t \in linked.replaced \/ \E u \in Users : link[u] = t

TokenInv == Issued /\ KindsApart /\ OwnToken /\ LinksLive

\* When no two flows overlap: a valid token is in gh_token, of a link, or in the hands
\* of the one login; that login knows what gh_token holds.
OneFlow == \A s, o \in Slots : req[s].at \in TokenFlow /\ req[o].at \in TokenFlow => s = o
Kept == \A t \in live : t = stored \/ LinkToken(t) \/ \E s \in Slots : req[s].at \in LoginAt /\ req[s].new = t
FlowKnows ==
    \A s \in Slots :
      /\ At(s, "revoke") => req[s].prev = stored
      /\ At(s, "save") => stored = req[s].new \/ stored \notin live
      /\ At(s, "login") => stored = req[s].new
      /\ At(s, "delete") => stored \notin live
Confirmed == linked.unconfirmed = {}
QuietInv == quiet => OneFlow /\ Kept /\ FlowKnows /\ Confirmed

----------------------------------------------------------------------------
(* How a request moves.                                                    *)

\* Only the request of slot s changes.
OnlyMoves(s) == req' \in [Slots -> Requests] /\ \A o \in Slots \ {s} : req'[o] = req[o]

\* The request of an empty slot is well-formed.
LEMMA IdleOK == Idle \in Requests /\ Idle.at = "idle" /\ Idle.token = 0 /\ Idle.win = 0 /\ Idle.new = 0 /\ Idle.prev = 0
BY BoundsAssumption DEF Idle, Requests, Points, Identifiers

\* Go changes the await of one request and nothing else.
LEMMA GoMoves ==
  ASSUME TypeOK, NEW s \in Slots, NEW l \in Points, Go(s, l)
  PROVE  /\ OnlyMoves(s)
         /\ req'[s].at = l /\ req'[s].new = req[s].new /\ req'[s].prev = req[s].prev
         /\ req'[s].token = req[s].token /\ req'[s].win = req[s].win
         /\ req'[s].route = req[s].route /\ req'[s].user = req[s].user
BY DEF TypeOK, Go, OnlyMoves, Requests

\* Answer empties one slot and changes nothing else.
LEMMA AnswerMoves ==
  ASSUME TypeOK, NEW s \in Slots, Answer(s)
  PROVE  OnlyMoves(s) /\ req'[s] = Idle
BY IdleOK DEF TypeOK, Answer, OnlyMoves

\* A token is issued for one request, which goes to l with it.
LEMMA IssueMoves ==
  ASSUME TypeOK, NEW s \in Slots, NEW l \in Points,
         req' = [req EXCEPT ![s].at = l, ![s].new = issued + 1]
  PROVE  /\ OnlyMoves(s)
         /\ req'[s].at = l /\ req'[s].new = issued + 1 /\ req'[s].prev = req[s].prev
         /\ req'[s].token = req[s].token /\ req'[s].win = req[s].win
<1>1. issued + 1 \in Nat
  BY DEF TypeOK, TokensTyped
<1>. QED  BY <1>1 DEF TypeOK, OnlyMoves, Requests

\* The key of a request names a limiter, a caller and the request's window.
LEMMA KeyFacts ==
  ASSUME TypeOK, NEW s \in Slots
  PROVE  /\ KeyOf(s) \in Keys /\ KeyOf(s)[1] \in Limiters /\ KeyOf(s)[3] = req[s].win
         /\ KeyOf(s)[3] \in Nat /\ Arrival(s) = KeyOf(s)
<1>1. req[s].user \in Identifiers /\ req[s].win \in 0 .. MaxWindow
  BY DEF TypeOK, Requests
<1>. QED  BY <1>1, BoundsAssumption DEF KeyOf, Arrival, Keys, Limiters

\* A request that keeps its route, caller and window keeps its key.
LEMMA SameKey ==
  ASSUME NEW s \in Slots, req'[s].route = req[s].route, req'[s].user = req[s].user, req'[s].win = req[s].win
  PROVE  KeyOf(s)' = KeyOf(s)
BY DEF KeyOf

\* The windows are numbers.
LEMMA KeysTyped == ASSUME NEW k \in Keys PROVE k[1] \in Limiters /\ k[3] \in Nat /\ Burst[k[1]] \in Nat /\ Burst[k[1]] >= 1
BY BoundsAssumption, BurstAssumption DEF Keys

----------------------------------------------------------------------------
(* The limiters.                                                           *)

\* A step of a request that is neither at its INCR nor at its EXPIRE, before and after.
PastLimiter(s) ==
    /\ UNCHANGED limits /\ OnlyMoves(s)
    /\ req[s].at \notin {"limit", "expire"} /\ req'[s].at \notin {"limit", "expire"}
    /\ req'[s].win <= window

\* Such a step leaves what the limiters promise.
LEMMA PastLimiterOK ==
  ASSUME TypeOK, LimitInv, NEW s \in Slots, PastLimiter(s)
  PROVE  LimitInv'
<1>1. UNCHANGED <<window, counter, expiring, seen, letIn, refused>>
  BY DEF PastLimiter, limits
<1>2. \A o \in Slots : /\ At(o, "limit")' <=> At(o, "limit")
                       /\ At(o, "expire")' <=> At(o, "expire")
                       /\ At(o, "limit") \/ At(o, "expire") => KeyOf(o)' = KeyOf(o)
  BY DEF PastLimiter, OnlyMoves, At, KeyOf
<1>3. \A k \in Keys : Open(k)' => Open(k)
  BY <1>1, <1>2 DEF Open
<1>4. Begun'
  BY <1>1 DEF LimitInv, Begun, PastLimiter, OnlyMoves
<1>5. PlaceKept'
  <2>. SUFFICES ASSUME NEW o \in Slots, At(o, "expire")'
                PROVE  /\ letIn[KeyOf(o)] + 1 <= Burst[KeyOf(o)[1]]
                       /\ Open(KeyOf(o)) => letIn[KeyOf(o)] + 1 <= counter[KeyOf(o)]
                       /\ \A p \in Slots : At(p, "expire") /\ KeyOf(p) = KeyOf(o) => p = o
    BY <1>1, <1>2, <1>3, KeyFacts DEF PlaceKept
  <2>. QED  BY <1>2 DEF LimitInv, PlaceKept
<1>6. Covered' /\ CountsArrivals' /\ BurstHeld' /\ NoLockout'
  BY <1>1, <1>3 DEF LimitInv, Covered, CountsArrivals, BurstHeld, NoLockout
<1>. QED  BY <1>4, <1>5, <1>6 DEF LimitInv

\* Nor does a step that no request takes.
LEMMA NoRequestOK ==
  ASSUME LimitInv, UNCHANGED <<limits, req>>
  PROVE  LimitInv'
BY DEF LimitInv, Begun, PlaceKept, Covered, CountsArrivals, BurstHeld, NoLockout, Open, At, KeyOf, limits

\* A request that comes in belongs to the window that is open.
LEMMA ReceiveOK ==
  ASSUME TypeOK, LimitInv, NEW s \in Slots, NEW c \in Clients, NEW route \in Routes, Receive(s, c, route)
  PROVE  LimitInv' /\ TypeOK'
<1>. DEFINE r == [Idle EXCEPT !.at = "limit", !.route = route, !.client = c,
                              !.user = session[c].user, !.token = session[c].token, !.win = window]
<1>1. r \in Requests /\ r.at = "limit" /\ r.win = window
  <2>1. session[c].user \in Identifiers /\ session[c].token \in Nat /\ window \in 0 .. MaxWindow
    BY DEF TypeOK, TokensTyped, LimitsTyped, Sessions
  <2>2. route \in AllRoutes
    BY RoutesAssumption
  <2>. QED  BY <2>1, <2>2 DEF Requests, Points, Idle
<1>2. req' = [req EXCEPT ![s] = r] /\ UNCHANGED limits /\ At(s, "idle")
  BY DEF Receive
<1>. HIDE DEF r
<1>3. TypeOK'
  BY <1>1, <1>2 DEF Receive, TypeOK, LimitsTyped, TokensTyped, limits, github
<1>4. /\ UNCHANGED <<window, counter, expiring, seen, letIn, refused>>
      /\ req'[s] = r /\ \A o \in Slots \ {s} : req'[o] = req[o]
  BY <1>1, <1>2 DEF limits, TypeOK
<1>5. KeyOf(s)'[3] = window
  BY <1>1, <1>4 DEF KeyOf
<1>6. \A o \in Slots : o # s => (At(o, "limit")' <=> At(o, "limit")) /\ KeyOf(o)' = KeyOf(o)
  BY <1>4 DEF At, KeyOf
<1>7. \A o \in Slots : At(o, "expire")' => At(o, "expire") /\ KeyOf(o)' = KeyOf(o)
  BY <1>1, <1>4 DEF At, KeyOf
<1>8. \A k \in Keys : Open(k)' => Open(k)
  <2>. SUFFICES ASSUME NEW k \in Keys, NEW o \in Slots, At(o, "limit")', KeyOf(o)' = k, ~(k[3] >= window)
                PROVE  Open(k)
    BY <1>4 DEF Open
  <2>. QED  BY <1>5, <1>6 DEF Open, TypeOK, LimitsTyped
<1>9. Begun'
  BY <1>1, <1>4, BoundsAssumption DEF LimitInv, Begun, TypeOK, LimitsTyped
<1>10. PlaceKept'
  <2>. SUFFICES ASSUME NEW o \in Slots, At(o, "expire")'
                PROVE  /\ letIn[KeyOf(o)] + 1 <= Burst[KeyOf(o)[1]]
                       /\ Open(KeyOf(o)) => letIn[KeyOf(o)] + 1 <= counter[KeyOf(o)]
                       /\ \A p \in Slots : At(p, "expire") /\ KeyOf(p) = KeyOf(o) => p = o
    BY <1>4, <1>7, <1>8, KeyFacts DEF PlaceKept
  <2>. QED  BY <1>7 DEF LimitInv, PlaceKept
<1>11. Covered' /\ CountsArrivals' /\ BurstHeld' /\ NoLockout'
  BY <1>4, <1>8 DEF LimitInv, Covered, CountsArrivals, BurstHeld, NoLockout
<1>. QED  BY <1>3, <1>9, <1>10, <1>11 DEF LimitInv

\* The INCR of one request: counter, arrivals, who is let in, where the request goes.
Counted(s, n, in, to) ==
    /\ At(s, "limit") /\ OnlyMoves(s) /\ req'[s].at = to /\ req'[s].win <= req[s].win
    /\ to = "expire" => KeyOf(s)' = KeyOf(s)
    /\ counter' = [counter EXCEPT ![KeyOf(s)] = n]
    /\ seen' = [seen EXCEPT ![KeyOf(s)] = @ + 1]
    /\ letIn' = [letIn EXCEPT ![KeyOf(s)] = in]
    /\ UNCHANGED <<window, expiring>>

\* What is left to show for a request that leaves its INCR.
LEMMA CountedOK ==
  ASSUME TypeOK, LimitInv, NEW s \in Slots, NEW n \in Nat, NEW in \in Nat, NEW to,
         Counted(s, n, in, to), to # "limit",
         counter[KeyOf(s)] <= n, n <= counter[KeyOf(s)] + 1, letIn[KeyOf(s)] <= in,
         in = letIn[KeyOf(s)] \/ (in = letIn[KeyOf(s)] + 1 /\ n = counter[KeyOf(s)] + 1 /\ n <= Burst[KeyOf(s)[1]] /\ to # "expire"),
         to = "expire" => n = 1 /\ counter[KeyOf(s)] = 0,
         refused' = refused \/ (refused' = refused \cup {KeyOf(s)} /\ n = counter[KeyOf(s)] + 1 /\ n > Burst[KeyOf(s)[1]])
  PROVE  LimitInv' /\ LimitsTyped'
<1>. DEFINE k == KeyOf(s)
<1>1. /\ k \in Keys /\ k[1] \in Limiters /\ k[3] \in Nat
      /\ counter \in [Keys -> Nat] /\ seen \in [Keys -> Nat] /\ letIn \in [Keys -> Nat]
      /\ counter[k] \in Nat /\ seen[k] \in Nat /\ letIn[k] \in Nat
      /\ Burst[k[1]] \in Nat /\ Burst[k[1]] >= 1
  BY KeyFacts, KeysTyped DEF TypeOK, LimitsTyped
<1>2. /\ counter' = [counter EXCEPT ![k] = n] /\ seen' = [seen EXCEPT ![k] = @ + 1]
      /\ letIn' = [letIn EXCEPT ![k] = in] /\ UNCHANGED <<window, expiring>>
      /\ \A o \in Slots \ {s} : req'[o] = req[o]
      /\ req'[s].at = to /\ req[s].at = "limit"
  BY DEF Counted, OnlyMoves, At
<1>3. Open(k)
  BY DEF Open, Counted
<1>4. \A o \in Slots : At(o, "limit")' => At(o, "limit") /\ KeyOf(o)' = KeyOf(o)
  BY <1>2 DEF At, KeyOf
<1>5. \A o \in Slots : At(o, "expire")' => KeyOf(o)' = KeyOf(o) /\ (o = s \/ At(o, "expire"))
  BY <1>2 DEF At, KeyOf, Counted
<1>6. \A j \in Keys : Open(j)' => Open(j)
  BY <1>2, <1>4 DEF Open
<1>7. letIn[k] <= counter[k] /\ counter[k] <= seen[k] /\ letIn[k] <= Burst[k[1]]
  BY <1>1, <1>3 DEF LimitInv, Covered, CountsArrivals, BurstHeld
<1>8. \A o \in Slots : At(o, "expire") /\ KeyOf(o) = k => letIn[k] + 1 <= Burst[k[1]] /\ letIn[k] + 1 <= counter[k]
  BY <1>3 DEF LimitInv, PlaceKept
<1>9. k \in Keys /\ refused \subseteq Keys
  BY <1>1 DEF TypeOK, LimitsTyped
<1>10. LimitsTyped'
  BY <1>1, <1>2, <1>9 DEF TypeOK, LimitsTyped
<1>11. Begun'
  <2>1. req'[s].win <= window
    BY DEF Counted, LimitInv, Begun, TypeOK, LimitsTyped, Requests, OnlyMoves
  <2>. QED  BY <2>1, <1>2 DEF LimitInv, Begun
<1>12. PlaceKept'
  <2>. SUFFICES ASSUME NEW o \in Slots, At(o, "expire")'
                PROVE  /\ letIn'[KeyOf(o)] + 1 <= Burst[KeyOf(o)[1]]
                       /\ Open(KeyOf(o)) => letIn'[KeyOf(o)] + 1 <= counter'[KeyOf(o)]
                       /\ \A p \in Slots : At(p, "expire")' /\ KeyOf(p) = KeyOf(o) => p = o
    BY <1>5, <1>6, KeyFacts DEF PlaceKept
  <2>0. KeyOf(o) \in Keys
    BY KeyFacts
  <2>1. CASE o = s
    <3>1. to = "expire" /\ n = 1 /\ counter[k] = 0 /\ letIn[k] = 0 /\ in = 0
      BY <2>1, <1>1, <1>2, <1>7 DEF At
    <3>2. \A p \in Slots : At(p, "expire")' /\ KeyOf(p) = k => p = s
      BY <3>1, <1>1, <1>5, <1>8
    <3>. QED  BY <2>1, <3>1, <3>2, <1>1, <1>2
  <2>2. CASE o # s /\ KeyOf(o) # k
    <3>1. At(o, "expire")
      BY <2>2, <1>5
    <3>2. letIn'[KeyOf(o)] = letIn[KeyOf(o)] /\ counter'[KeyOf(o)] = counter[KeyOf(o)]
      BY <2>2, <2>0, <1>1, <1>2
    <3>. QED  BY <3>1, <3>2, <2>2, <1>5 DEF LimitInv, PlaceKept
  <2>3. CASE o # s /\ KeyOf(o) = k
    <3>1. At(o, "expire")
      BY <2>3, <1>5
    <3>2. letIn[k] + 1 <= Burst[k[1]] /\ letIn[k] + 1 <= counter[k]
      BY <3>1, <2>3, <1>8
    <3>3. to # "expire"
      BY <3>2, <1>1
    <3>4. in + 1 <= n /\ in + 1 <= Burst[k[1]]
      BY <3>2, <3>3, <1>1
    <3>5. \A p \in Slots : At(p, "expire")' /\ KeyOf(p) = KeyOf(o) => p = o
      BY <3>1, <3>3, <1>2, <1>5 DEF LimitInv, PlaceKept, At
    <3>. QED  BY <3>4, <3>5, <2>3, <1>1, <1>2
  <2>. QED  BY <2>1, <2>2, <2>3
<1>13. Covered' /\ CountsArrivals'
  <2>. SUFFICES ASSUME NEW j \in Keys
                PROVE  (Open(j) => letIn'[j] <= counter'[j]) /\ counter'[j] <= seen'[j]
    BY <1>6 DEF Covered, CountsArrivals
  <2>1. CASE j = k
    BY <2>1, <1>1, <1>2, <1>7
  <2>2. CASE j # k
    BY <2>2, <1>1, <1>2 DEF LimitInv, Covered, CountsArrivals
  <2>. QED  BY <2>1, <2>2
<1>14. BurstHeld'
  <2>. SUFFICES ASSUME NEW j \in Keys PROVE letIn'[j] <= Burst[j[1]]
    BY DEF BurstHeld
  <2>. QED  BY <1>1, <1>2, <1>7 DEF LimitInv, BurstHeld
<1>15. NoLockout'
  <2>. SUFFICES ASSUME NEW j \in refused' PROVE seen'[j] > Burst[j[1]]
    BY DEF NoLockout
  <2>0. j \in Keys /\ seen[j] \in Nat /\ seen'[j] \in Nat /\ seen'[j] >= seen[j] /\ Burst[j[1]] \in Nat
    BY <1>1, <1>2, <1>9, KeysTyped
  <2>1. CASE j \in refused
    BY <2>0, <2>1 DEF LimitInv, NoLockout
  <2>2. CASE j \notin refused
    BY <2>2, <1>1, <1>2, <1>7
  <2>. QED  BY <2>1, <2>2
<1>. QED  BY <1>10, <1>11, <1>12, <1>13, <1>14, <1>15 DEF LimitInv

\* The decision of the limiter, for a request with its number.
LEMMA DecideMoves ==
  ASSUME TypeOK, NEW s \in Slots, NEW n \in Nat, Decide(s, n)
  PROVE  \/ /\ n <= Burst[KeyOf(s)[1]] /\ OnlyMoves(s) /\ req'[s].at = "handle" /\ req'[s].win = req[s].win
            /\ letIn' = [letIn EXCEPT ![KeyOf(s)] = letIn[KeyOf(s)] + 1] /\ refused' = refused
         \/ /\ n > Burst[KeyOf(s)[1]] /\ OnlyMoves(s) /\ req'[s].at = "idle" /\ req'[s].win = 0
            /\ letIn' = letIn /\ refused' = refused \cup {KeyOf(s)}
<1>1. Arrival(s) = KeyOf(s) /\ Burst[KeyOf(s)[1]] \in Nat
  BY KeyFacts, KeysTyped
<1>2. CASE n <= Burst[KeyOf(s)[1]]
  <2>1. Go(s, "handle") /\ letIn' = [letIn EXCEPT ![KeyOf(s)] = letIn[KeyOf(s)] + 1] /\ refused' = refused
    BY <1>1, <1>2, KeyFacts DEF Decide, TypeOK, LimitsTyped
  <2>2. "handle" \in Points
    BY DEF Points
  <2>. QED  BY <1>2, <2>1, <2>2, GoMoves
<1>3. CASE ~(n <= Burst[KeyOf(s)[1]])
  <2>1. Answer(s) /\ letIn' = letIn /\ refused' = refused \cup {KeyOf(s)}
    BY <1>1, <1>3 DEF Decide
  <2>. QED  BY <1>1, <1>3, <2>1, AnswerMoves, IdleOK
<1>. QED  BY <1>2, <1>3

\* The counters stay numbers, and what they do not touch.
LEMMA IncrementOK ==
  ASSUME TypeOK, LimitInv, NEW s \in Slots, Increment(s)
  PROVE  LimitInv' /\ TypeOK'
<1>. DEFINE k == KeyOf(s)  n == counter[k] + 1
<1>1. /\ k \in Keys /\ counter[k] \in Nat /\ n \in Nat /\ letIn[k] \in Nat /\ letIn[k] + 1 \in Nat
      /\ letIn \in [Keys -> Nat] /\ req[s].win \in Nat /\ Arrival(s) = k
  BY KeyFacts, BoundsAssumption DEF TypeOK, LimitsTyped, Requests
<1>2. /\ At(s, "limit") /\ counter' = [counter EXCEPT ![k] = n] /\ seen' = [seen EXCEPT ![k] = @ + 1]
      /\ UNCHANGED <<window, expiring>>
      /\ \/ n = 1 /\ Go(s, "expire") /\ letIn' = letIn /\ refused' = refused
         \/ Decide(s, n)
  BY <1>1 DEF Increment
<1>3. letIn = [letIn EXCEPT ![k] = letIn[k]]
  BY <1>1
<1>4. OnlyMoves(s) /\ LimitInv' /\ LimitsTyped'
  <2>1. CASE n = 1 /\ Go(s, "expire") /\ letIn' = letIn /\ refused' = refused
    <3>1. "expire" \in Points
      BY DEF Points
    <3>2. OnlyMoves(s) /\ req'[s].at = "expire" /\ req'[s].win = req[s].win /\ KeyOf(s)' = k
      BY <2>1, <3>1, GoMoves, SameKey
    <3>3. Counted(s, n, letIn[k], "expire")
      BY <2>1, <3>2, <1>1, <1>2, <1>3 DEF Counted
    <3>4. counter[k] = 0
      BY <2>1, <1>1
    <3>. HIDE DEF k, n
    <3>. QED  BY <2>1, <3>2, <3>3, <3>4, <1>1, CountedOK DEF n, k
  <2>2. CASE Decide(s, n)
    <3>1. CASE /\ n <= Burst[k[1]] /\ OnlyMoves(s) /\ req'[s].at = "handle" /\ req'[s].win = req[s].win
               /\ letIn' = [letIn EXCEPT ![k] = letIn[k] + 1] /\ refused' = refused
      <4>1. Counted(s, n, letIn[k] + 1, "handle")
        BY <3>1, <1>1, <1>2 DEF Counted
      <4>. QED  BY <3>1, <4>1, <1>1, CountedOK
    <3>2. CASE /\ n > Burst[k[1]] /\ OnlyMoves(s) /\ req'[s].at = "idle" /\ req'[s].win = 0
               /\ letIn' = letIn /\ refused' = refused \cup {k}
      <4>1. Counted(s, n, letIn[k], "idle")
        BY <3>2, <1>1, <1>2, <1>3 DEF Counted
      <4>. QED  BY <3>2, <4>1, <1>1, CountedOK
    <3>. QED  BY <3>1, <3>2, <2>2, <1>1, DecideMoves
  <2>. QED  BY <2>1, <2>2, <1>2
<1>. QED  BY <1>4 DEF Increment, TypeOK, TokensTyped, OnlyMoves, github

\* Also when the INCR, or its reply, is lost.
LEMMA IncrementFailsOK ==
  ASSUME TypeOK, LimitInv, NEW s \in Slots, IncrementFails(s)
  PROVE  LimitInv' /\ TypeOK'
<1>. DEFINE k == KeyOf(s)
<1>1. /\ k \in Keys /\ counter \in [Keys -> Nat] /\ counter[k] \in Nat /\ counter[k] + 1 \in Nat
      /\ letIn \in [Keys -> Nat] /\ letIn[k] \in Nat
      /\ req[s].win \in Nat /\ Arrival(s) = k
  BY KeyFacts, BoundsAssumption DEF TypeOK, LimitsTyped, Requests
<1>2. "handle" \in Points
  BY DEF Points
<1>3. OnlyMoves(s) /\ req'[s].at = "handle" /\ req'[s].win = req[s].win
  BY <1>2, GoMoves DEF IncrementFails
<1>4. /\ At(s, "limit") /\ seen' = [seen EXCEPT ![k] = @ + 1] /\ letIn' = [letIn EXCEPT ![k] = letIn[k]]
      /\ UNCHANGED <<window, expiring, refused>>
      /\ \/ counter' = [counter EXCEPT ![k] = counter[k]]
         \/ counter' = [counter EXCEPT ![k] = counter[k] + 1]
  BY <1>1 DEF IncrementFails
<1>5. CASE counter' = [counter EXCEPT ![k] = counter[k]]
  <2>1. Counted(s, counter[k], letIn[k], "handle")
    BY <1>1, <1>3, <1>4, <1>5 DEF Counted
  <2>2. LimitInv' /\ LimitsTyped'
    BY <2>1, <1>1, <1>4, CountedOK
  <2>. QED  BY <2>2, <1>3 DEF IncrementFails, TypeOK, TokensTyped, OnlyMoves, github
<1>6. CASE counter' = [counter EXCEPT ![k] = counter[k] + 1]
  <2>1. Counted(s, counter[k] + 1, letIn[k], "handle")
    BY <1>1, <1>3, <1>4, <1>6 DEF Counted
  <2>2. LimitInv' /\ LimitsTyped'
    BY <2>1, <1>1, <1>4, CountedOK
  <2>. QED  BY <2>2, <1>3 DEF IncrementFails, TypeOK, TokensTyped, OnlyMoves, github
<1>. QED  BY <1>4, <1>5, <1>6

\* The request that set the TTL takes the place it had.
LEMMA SetExpiryOK ==
  ASSUME TypeOK, LimitInv, NEW s \in Slots, SetExpiry(s)
  PROVE  LimitInv' /\ TypeOK'
<1>. DEFINE k == KeyOf(s)
<1>1. /\ k \in Keys /\ counter \in [Keys -> Nat] /\ letIn \in [Keys -> Nat] /\ letIn[k] \in Nat
      /\ k[3] = req[s].win /\ Burst[k[1]] \in Nat /\ Burst[k[1]] >= 1 /\ req[s].win <= window
  BY KeyFacts, KeysTyped DEF TypeOK, LimitsTyped, LimitInv, Begun
<1>2. At(s, "expire") /\ UNCHANGED <<window, counter, seen>>
  BY DEF SetExpiry
<1>3. OnlyMoves(s) /\ req'[s].at = "handle" /\ req'[s].win = req[s].win /\ refused' = refused
      /\ letIn' \in {letIn, [letIn EXCEPT ![k] = letIn[k] + 1]}
      /\ expiring' \in {expiring, expiring \cup {k}}
  <2>1. CASE expiring' = expiring \cup {k} /\ Decide(s, 1)
    BY <2>1, <1>1, DecideMoves
  <2>2. CASE Go(s, "handle") /\ UNCHANGED <<expiring, letIn, refused>>
    <3>1. "handle" \in Points
      BY DEF Points
    <3>. QED  BY <2>2, <3>1, GoMoves
  <2>. QED  BY <2>1, <2>2 DEF SetExpiry
<1>4. LimitsTyped'
  BY <1>1, <1>2, <1>3 DEF TypeOK, LimitsTyped
<1>5. \A o \in Slots : o # s => req'[o] = req[o] /\ KeyOf(o)' = KeyOf(o) /\ (At(o, "expire")' <=> At(o, "expire"))
  BY <1>3 DEF OnlyMoves, KeyOf, At
<1>6. ~At(s, "expire")' /\ ~At(s, "limit")'
  BY <1>3 DEF At
<1>7. \A j \in Keys : Open(j)' => Open(j)
  BY <1>2, <1>5, <1>6 DEF Open, At
<1>8. /\ letIn[k] + 1 <= Burst[k[1]] /\ (Open(k) => letIn[k] + 1 <= counter[k])
      /\ \A o \in Slots : At(o, "expire") /\ KeyOf(o) = k => o = s
  BY <1>2 DEF LimitInv, PlaceKept
<1>9. Begun'
  BY <1>1, <1>2, <1>3 DEF LimitInv, Begun, OnlyMoves
<1>10. PlaceKept'
  <2>. SUFFICES ASSUME NEW o \in Slots, At(o, "expire")'
                PROVE  /\ letIn'[KeyOf(o)] + 1 <= Burst[KeyOf(o)[1]]
                       /\ Open(KeyOf(o)) => letIn'[KeyOf(o)] + 1 <= counter[KeyOf(o)]
                       /\ \A p \in Slots : At(p, "expire")' /\ KeyOf(p)' = KeyOf(o) => p = o
    BY <1>2, <1>5, <1>6, <1>7, KeyFacts DEF PlaceKept
  <2>1. o # s /\ At(o, "expire") /\ KeyOf(o) \in Keys /\ KeyOf(o) # k
    BY <1>5, <1>6, <1>8, KeyFacts
  <2>2. letIn'[KeyOf(o)] = letIn[KeyOf(o)]
    BY <2>1, <1>1, <1>3
  <2>. QED  BY <2>1, <2>2, <1>5, <1>6 DEF LimitInv, PlaceKept
<1>11. Covered'
  <2>. SUFFICES ASSUME NEW j \in Keys, Open(j) PROVE letIn'[j] <= counter[j]
    BY <1>2, <1>7 DEF Covered
  <2>. QED  BY <1>1, <1>3, <1>8 DEF LimitInv, Covered
<1>12. BurstHeld'
  <2>. SUFFICES ASSUME NEW j \in Keys PROVE letIn'[j] <= Burst[j[1]]
    BY DEF BurstHeld
  <2>. QED  BY <1>1, <1>3, <1>8 DEF LimitInv, BurstHeld
<1>13. CountsArrivals' /\ NoLockout'
  BY <1>2, <1>3 DEF LimitInv, CountsArrivals, NoLockout
<1>14. TypeOK'
  BY <1>3, <1>4 DEF SetExpiry, TypeOK, TokensTyped, OnlyMoves, github
<1>. QED  BY <1>9, <1>10, <1>11, <1>12, <1>13, <1>14 DEF LimitInv

\* Redis drops counters of windows that are over, when nobody is about to use them.
LEMMA NextWindowOK ==
  ASSUME TypeOK, LimitInv, NextWindow
  PROVE  LimitInv' /\ TypeOK'
<1>. DEFINE over == {k \in expiring : \A s \in Slots : At(s, "limit") => KeyOf(s) # k}
<1>1. /\ window < MaxWindow /\ window' = window + 1
      /\ counter' = [k \in Keys |-> IF k \in over THEN 0 ELSE counter[k]]
      /\ expiring' = expiring \ over
      /\ UNCHANGED <<seen, letIn, refused, session, stored, link, github, req, linked>>
  BY DEF NextWindow
<1>2. over \subseteq expiring /\ \A k \in over, s \in Slots : At(s, "limit") => KeyOf(s) # k
  OBVIOUS
<1>. HIDE DEF over
<1>3. window \in Nat /\ MaxWindow \in Nat /\ \A k \in expiring : k \in Keys /\ k[3] <= window /\ k[3] \in Nat
  BY BoundsAssumption, KeysTyped DEF TypeOK, LimitsTyped, LimitInv, Begun
<1>4. TypeOK'
  BY <1>1, <1>2, <1>3 DEF TypeOK, LimitsTyped, TokensTyped, github
<1>5. \A s \in Slots : At(s, "limit")' = At(s, "limit") /\ At(s, "expire")' = At(s, "expire") /\ KeyOf(s)' = KeyOf(s)
  BY <1>1 DEF At, KeyOf
<1>6. \A k \in Keys : Open(k)' => Open(k) /\ counter'[k] = counter[k]
  <2>. SUFFICES ASSUME NEW k \in Keys, Open(k)' PROVE Open(k) /\ k \notin over
    BY <1>1
  <2>1. k[3] \in Nat
    BY KeysTyped
  <2>2. CASE k[3] >= window + 1
    BY <2>1, <2>2, <1>2, <1>3 DEF Open
  <2>3. CASE \E s \in Slots : At(s, "limit") /\ KeyOf(s) = k
    BY <2>3, <1>2 DEF Open
  <2>. QED  BY <2>2, <2>3, <1>1, <1>5 DEF Open
<1>7. Begun'
  <2>1. \A s \in Slots : req[s].win \in Nat
    BY BoundsAssumption DEF TypeOK, Requests
  <2>. QED  BY <2>1, <1>1, <1>3 DEF LimitInv, Begun
<1>8. PlaceKept'
  <2>. SUFFICES ASSUME NEW o \in Slots, At(o, "expire")
                PROVE  /\ letIn[KeyOf(o)] + 1 <= Burst[KeyOf(o)[1]]
                       /\ Open(KeyOf(o))' => letIn[KeyOf(o)] + 1 <= counter'[KeyOf(o)]
                       /\ \A p \in Slots : At(p, "expire") /\ KeyOf(p) = KeyOf(o) => p = o
    BY <1>1, <1>5 DEF PlaceKept, Open
  <2>1. KeyOf(o) \in Keys
    BY KeyFacts
  <2>2. Open(KeyOf(o))' => Open(KeyOf(o)) /\ counter'[KeyOf(o)] = counter[KeyOf(o)]
    <3>. SUFFICES ASSUME NEW k \in Keys, k = KeyOf(o), k = KeyOf(o)' PROVE Open(k)' => Open(k) /\ counter'[k] = counter[k]
      BY <2>1, <1>5 DEF Open
    <3>. QED  BY <1>6
  <2>. QED  BY <2>1, <2>2 DEF LimitInv, PlaceKept
<1>9. Covered' /\ BurstHeld' /\ NoLockout'
  BY <1>1, <1>6 DEF LimitInv, Covered, BurstHeld, NoLockout
<1>10. CountsArrivals'
  BY <1>1 DEF LimitInv, CountsArrivals, TypeOK, LimitsTyped
<1>. QED  BY <1>4, <1>7, <1>8, <1>9, <1>10 DEF LimitInv

----------------------------------------------------------------------------
(* The tokens.                                                             *)

\* A step that takes no part in a login, a logout or the making of a link: the tokens
\* stay, a session may end, and a request may start with the token of its session.
Tame ==
    /\ UNCHANGED <<stored, link, live, linked, issued>> /\ (quiet' => quiet)
    /\ \A c \in Clients : session'[c].token \in {0, session[c].token}
    /\ \A o \in Slots :
         \/ req'[o] = req[o]
         \/ /\ req[o].at \notin TokenFlow \cup LinkAt /\ req'[o].at \notin TokenFlow \cup LinkAt
            /\ req'[o].new = 0 /\ req'[o].prev \in {0, req[o].prev}
            /\ \/ req'[o].token \in {0, req[o].token}
               \/ \E c \in Clients : req'[o].token = session[c].token

\* Such a step leaves the invariants of the tokens.
LEMMA TameOK ==
  ASSUME TypeOK, TokenInv, QuietInv, Tame
  PROVE  TokenInv' /\ QuietInv'
<1>1. /\ UNCHANGED <<stored, link, live, linked, issued>> /\ (quiet' => quiet)
      /\ LoginAt \subseteq TokenFlow /\ LinkAt \cap TokenFlow = {}
  BY DEF Tame, LoginAt, TokenFlow, LinkAt
<1>2. \A o \in Slots : req'[o].at \in TokenFlow \cup LinkAt => req'[o] = req[o]
  BY DEF Tame
<1>3. \A o \in Slots : req[o].at \in TokenFlow \cup LinkAt => req'[o] = req[o]
  BY DEF Tame
<1>4. \A t \in Nat : LinkToken(t)' <=> LinkToken(t)
  BY <1>1, <1>2, <1>3 DEF LinkToken
<1>5. \A t \in Nat : LoginToken(t)' => t = 0 \/ LoginToken(t)
  <2>. SUFFICES ASSUME NEW t \in Nat, LoginToken(t)' PROVE t = 0 \/ LoginToken(t)
    OBVIOUS
  <2>1. CASE t = stored'
    BY <2>1, <1>1 DEF LoginToken
  <2>2. ASSUME NEW c \in Clients, session'[c].token = t PROVE t = 0 \/ LoginToken(t)
    BY <2>2 DEF Tame, LoginToken
  <2>3. ASSUME NEW o \in Slots, req'[o].token = t \/ req'[o].prev = t \/ (req'[o].at \in LoginAt /\ req'[o].new = t)
        PROVE  t = 0 \/ LoginToken(t)
    <3>1. CASE req'[o] = req[o]
      BY <2>3, <3>1 DEF LoginToken
    <3>2. CASE req'[o] # req[o]
      BY <2>3, <3>2, <1>1 DEF Tame, LoginToken
    <3>. QED  BY <3>1, <3>2
  <2>. QED  BY <2>1, <2>2, <2>3 DEF LoginToken
<1>6. Issued' /\ KindsApart'
  BY <1>1, <1>4, <1>5 DEF TypeOK, TokensTyped, TokenInv, Issued, KindsApart
<1>7. OwnToken'
  <2>1. \A s \in Slots : req'[s].at \in LinkAt =>
           /\ req'[s].new \in live' /\ req'[s].new \notin linked'.saved
           /\ \A o \in Slots : req'[o].at \in LinkAt /\ req'[o].new = req'[s].new => o = s
    BY <1>1, <1>2 DEF TokenInv, OwnToken
  <2>2. \A s \in Slots : req'[s].at \notin LoginAt \cup LinkAt => req'[s].new = 0
    BY DEF Tame, TokenInv, OwnToken
  <2>3. \A s \in Slots : req'[s].at = "link" => req'[s].user \in Users
    BY <1>2 DEF TokenInv, OwnToken, LinkAt
  <2>. QED  BY <2>1, <2>2, <2>3 DEF OwnToken
<1>8. LinksLive'
  BY <1>1 DEF TokenInv, LinksLive
<1>9. QuietInv'
  <2>. SUFFICES ASSUME quiet' PROVE OneFlow' /\ Kept' /\ FlowKnows' /\ Confirmed'
    BY DEF QuietInv
  <2>0. OneFlow /\ Kept /\ FlowKnows
    BY <1>1 DEF QuietInv
  <2>1. OneFlow'
    BY <2>0, <1>2 DEF OneFlow
  <2>2. Kept'
    <3>. SUFFICES ASSUME NEW t \in live PROVE (t = stored \/ LinkToken(t) \/ \E s \in Slots : req[s].at \in LoginAt /\ req[s].new = t)'
      BY <1>1 DEF Kept
    <3>1. t \in Nat
      BY DEF TypeOK, TokensTyped
    <3>. QED  BY <2>0, <3>1, <1>1, <1>3, <1>4 DEF Kept
  <2>3. FlowKnows'
    BY <2>0, <1>1, <1>2 DEF FlowKnows, At, TokenFlow
  <2>4. Confirmed'
    BY <1>1 DEF QuietInv, Confirmed
  <2>. QED  BY <2>1, <2>2, <2>3, <2>4
<1>. QED  BY <1>6, <1>7, <1>8, <1>9 DEF TokenInv

\* A step of a login or a logout after its token was issued: it leaves the links, and it
\* revokes only tokens of logins.
LoginStep(s) ==
    /\ UNCHANGED <<link, linked, issued>> /\ OnlyMoves(s)
    /\ req[s].at \notin LinkAt /\ req'[s].at \notin LinkAt
    /\ req'[s].at \notin LoginAt => req'[s].new = 0
    /\ req'[s].at \in LoginAt => req[s].at \in LoginAt /\ req'[s].new = req[s].new
    /\ req'[s].token \in {0, req[s].token} /\ req'[s].prev \in {0, req[s].prev, stored}
    /\ stored' \in {0, stored} \/ (req[s].at \in LoginAt /\ stored' = req[s].new)
    /\ \A c \in Clients : \/ session'[c].token = session[c].token
                          \/ req[s].at \in LoginAt /\ session'[c].token = req[s].new
    /\ live' \subseteq live /\ \A t \in live \ live' : LoginToken(t)

\* Such a step leaves the tokens of the links, whatever it does to gh_token.
LEMMA LoginStepOK ==
  ASSUME TypeOK, TokenInv, NEW s \in Slots, LoginStep(s)
  PROVE  TokenInv' /\ \A t \in Nat : LinkToken(t)' <=> LinkToken(t)
<1>1. /\ UNCHANGED <<link, linked, issued>> /\ live' \subseteq live /\ live \subseteq Nat
      /\ \A o \in Slots \ {s} : req'[o] = req[o]
      /\ req[s].at \notin LinkAt /\ req'[s].at \notin LinkAt
  BY DEF LoginStep, OnlyMoves, TypeOK, TokensTyped
<1>2. \A t \in Nat : LinkToken(t)' <=> LinkToken(t)
  BY <1>1 DEF LinkToken
<1>3. \A t \in Nat : LoginToken(t)' => t = 0 \/ LoginToken(t)
  <2>. SUFFICES ASSUME NEW t \in Nat, LoginToken(t)', t # 0 PROVE LoginToken(t)
    OBVIOUS
  <2>1. CASE t = stored'
    BY <2>1 DEF LoginToken, LoginStep
  <2>2. ASSUME NEW c \in Clients, session'[c].token = t PROVE LoginToken(t)
    BY <2>2 DEF LoginStep, LoginToken
  <2>3. ASSUME NEW o \in Slots, req'[o].token = t \/ req'[o].prev = t \/ (req'[o].at \in LoginAt /\ req'[o].new = t)
        PROVE  LoginToken(t)
    <3>1. CASE o = s
      BY <2>3, <3>1 DEF LoginStep, LoginToken
    <3>2. CASE o # s
      BY <2>3, <3>2, <1>1 DEF LoginToken
    <3>. QED  BY <3>1, <3>2
  <2>. QED  BY <2>1, <2>2, <2>3 DEF LoginToken
<1>4. Issued' /\ KindsApart'
  BY <1>1, <1>2, <1>3 DEF TypeOK, TokensTyped, TokenInv, Issued, KindsApart
<1>5. \A t \in live : LinkToken(t) => t \in live'
  BY <1>1 DEF LoginStep, TokenInv, KindsApart
<1>6. OwnToken'
  <2>. SUFFICES ASSUME NEW o \in Slots
                PROVE  /\ req'[o].at \in LinkAt =>
                           /\ req'[o].new \in live' /\ req'[o].new \notin linked.saved
                           /\ \A p \in Slots : req'[p].at \in LinkAt /\ req'[p].new = req'[o].new => p = o
                       /\ req'[o].at \notin LoginAt \cup LinkAt => req'[o].new = 0
                       /\ req'[o].at = "link" => req'[o].user \in Users
    BY <1>1 DEF OwnToken
  <2>1. req'[o].at \notin LoginAt \cup LinkAt => req'[o].new = 0
    BY <1>1 DEF LoginStep, TokenInv, OwnToken
  <2>2. ASSUME req'[o].at \in LinkAt
        PROVE  /\ req'[o].new \in live' /\ req'[o].new \notin linked.saved
               /\ \A p \in Slots : req'[p].at \in LinkAt /\ req'[p].new = req'[o].new => p = o
    <3>1. o # s /\ req'[o] = req[o] /\ LinkToken(req[o].new)
      BY <1>1, <2>2 DEF LinkToken
    <3>2. req[o].new \in live /\ req[o].new \notin linked.saved
      BY <3>1, <2>2 DEF TokenInv, OwnToken
    <3>3. req'[o].new \in live'
      BY <3>1, <3>2, <1>5
    <3>. QED  BY <2>2, <3>1, <3>2, <3>3, <1>1 DEF TokenInv, OwnToken
  <2>3. req'[o].at = "link" => req'[o].user \in Users
    BY <1>1 DEF TokenInv, OwnToken, LinkAt
  <2>. QED  BY <2>1, <2>2, <2>3
<1>7. LinksLive'
  BY <1>1, <1>5 DEF TokenInv, LinksLive, LinkToken
<1>. QED  BY <1>2, <1>4, <1>6, <1>7 DEF TokenInv

\* Where the flows are.
LEMMA FlowPoints ==
  /\ LoginAt \subseteq TokenFlow /\ LinkAt \cap TokenFlow = {} /\ TokenFlow \subseteq Points /\ LinkAt \subseteq Points
  /\ "read" \in LoginAt /\ "revoke" \in LoginAt /\ "save" \in LoginAt /\ "login" \in LoginAt
  /\ "revokeOwn" \in TokenFlow \ LoginAt /\ "delete" \in TokenFlow \ LoginAt
  /\ "repo" \in LinkAt /\ "link" \in LinkAt /\ "orphan" \in LinkAt
  /\ {"idle", "handle", "upstream", "lookup", "score", "stats", "destroy"}
       \subseteq Points \ (TokenFlow \cup LinkAt \cup {"limit", "expire"})
  /\ (TokenFlow \cup LinkAt) \cap {"limit", "expire"} = {}
BY DEF LoginAt, LinkAt, TokenFlow, Points

\* The request that a flow belongs to is past the limiter.
LEMMA Passed ==
  ASSUME TypeOK, LimitInv, NEW s \in Slots, OnlyMoves(s), UNCHANGED limits,
         req[s].at \notin {"limit", "expire"}, req'[s].at \notin {"limit", "expire"},
         req'[s].win \in {0, req[s].win}
  PROVE  PastLimiter(s) /\ LimitsTyped'
BY DEF PastLimiter, TypeOK, LimitsTyped, limits, LimitInv, Begun, Requests

\* The state of the invariants after a step.
Good == TypeOK /\ LimitInv /\ TokenInv /\ QuietInv

\* What a step of a login or a logout owes while no two of them overlap: its request is
\* the only one of a flow, the token of gh_token or of the request stays in one of the
\* two places unless it was revoked, and the request knows what gh_token holds.
FlowStep(s) ==
    quiet' =>
      /\ quiet /\ \A o \in Slots \ {s} : req[o].at \notin TokenFlow
      /\ \A t \in live' : t = stored \/ (req[s].at \in LoginAt /\ t = req[s].new)
                            => t = stored' \/ (req'[s].at \in LoginAt /\ t = req'[s].new)
      /\ req'[s].at = "revoke" => req'[s].prev = stored'
      /\ req'[s].at = "save" => stored' = req'[s].new \/ stored' \notin live'
      /\ req'[s].at = "login" => stored' = req'[s].new
      /\ req'[s].at = "delete" => stored' \notin live'

\* A step that keeps both promises leaves all the invariants.
LEMMA FlowStepOK ==
  ASSUME Good, NEW s \in Slots, LoginStep(s), FlowStep(s), UNCHANGED limits,
         req[s].at \notin {"limit", "expire"}, req'[s].at \notin {"limit", "expire"},
         req'[s].win \in {0, req[s].win}, session' \in [Clients -> Sessions]
  PROVE  Good'
<1>. USE FlowPoints
<1>0. TypeOK /\ LimitInv /\ TokenInv /\ QuietInv
  BY DEF Good
<1>1. OnlyMoves(s) /\ UNCHANGED <<link, linked, issued>> /\ live' \subseteq live
  BY DEF LoginStep
<1>2. TokenInv' /\ \A t \in Nat : LinkToken(t)' <=> LinkToken(t)
  BY <1>0, LoginStepOK
<1>3. stored' \in Nat
  BY <1>0 DEF LoginStep, TypeOK, TokensTyped, Requests
<1>4. TypeOK' /\ LimitInv'
  BY <1>0, <1>1, <1>3, Passed, PastLimiterOK DEF TypeOK, TokensTyped, OnlyMoves
<1>5. QuietInv'
  <2>. SUFFICES ASSUME quiet' PROVE OneFlow' /\ Kept' /\ FlowKnows' /\ Confirmed'
    BY DEF QuietInv
  <2>1. OneFlow /\ Kept /\ FlowKnows /\ live \subseteq Nat
    BY <1>0 DEF QuietInv, FlowStep, TypeOK, TokensTyped
  <2>2. \A o \in Slots \ {s} : req'[o] = req[o] /\ req[o].at \notin TokenFlow
    BY <1>1 DEF OnlyMoves, FlowStep
  <2>3. OneFlow'
    BY <2>2 DEF OneFlow
  <2>4. Kept'
    <3>. SUFFICES ASSUME NEW t \in live', t \in Nat, ~LinkToken(t)
                  PROVE  t = stored' \/ (req'[s].at \in LoginAt /\ req'[s].new = t)
      BY <2>1, <1>1, <1>2 DEF Kept
    <3>1. t = stored \/ (req[s].at \in LoginAt /\ req[s].new = t)
      BY <2>1, <2>2, <1>1 DEF Kept
    <3>. QED  BY <3>1 DEF FlowStep
  <2>5. FlowKnows'
    BY <2>2 DEF FlowKnows, FlowStep, At
  <2>6. Confirmed'
    BY <1>0, <1>1 DEF QuietInv, Confirmed, FlowStep
  <2>. QED  BY <2>3, <2>4, <2>5, <2>6
<1>. QED  BY <1>2, <1>4, <1>5 DEF Good

\* What holds of the request of a flow while no two flows overlap.
LEMMA FlowNow ==
  ASSUME Good, NEW s \in Slots, quiet, req[s].at \in TokenFlow
  PROVE  /\ \A o \in Slots \ {s} : req[o].at \notin TokenFlow
         /\ req[s].at = "revoke" => req[s].prev = stored
         /\ req[s].at = "save" => stored = req[s].new \/ stored \notin live
         /\ req[s].at = "login" => stored = req[s].new
         /\ req[s].at = "delete" => stored \notin live
BY DEF Good, QuietInv, OneFlow, FlowKnows, At

\* Facts about a state that the flows share.
LEMMA TokenFacts ==
  ASSUME Good, NEW s \in Slots
  PROVE  /\ TypeOK /\ stored \in Nat /\ live \subseteq Nat /\ (\A t \in live : 1 <= t)
         /\ session \in [Clients -> Sessions] /\ req[s].new \in Nat
         /\ req[s].at \notin LoginAt \cup LinkAt => req[s].new = 0
         /\ LoginToken(req[s].token) /\ LoginToken(req[s].prev)
BY DEF Good, TypeOK, TokensTyped, TokenInv, Issued, OwnToken, LoginToken, Requests

\* Reading gh_token: the login remembers what it found.
LEMMA LoginReadOK ==
  ASSUME Good, NEW s \in Slots, LoginRead(s)
  PROVE  Good'
<1>. USE FlowPoints, TokenFacts
<1>. DEFINE l == IF stored \in {0, req[s].new} THEN "save" ELSE "revoke"
<1>1. /\ req[s].at = "read"
      /\ UNCHANGED <<limits, session, stored, link, live, issued, linked>>
      /\ \/ (quiet' => quiet) /\ req' = [req EXCEPT ![s].prev = stored, ![s].at = l]
         \/ ~quiet' /\ Go(s, "login")
  BY DEF LoginRead, Call, Fault, At, github
<1>2. l \in Points /\ l \in LoginAt /\ ((l = "save" /\ stored \in {0, req[s].new}) \/ l = "revoke")
  OBVIOUS
<1>. HIDE DEF l
<1>3. /\ OnlyMoves(s) /\ req'[s].new = req[s].new /\ req'[s].token = req[s].token /\ req'[s].win = req[s].win
      /\ req'[s].at \in LoginAt /\ req'[s].prev \in {req[s].prev, stored}
      /\ quiet' => quiet /\ req'[s].prev = stored /\ req'[s].at = l
  <2>1. CASE ~quiet' /\ Go(s, "login")
    <3>1. "login" \in Points
      OBVIOUS
    <3>. QED  BY <2>1, <3>1, GoMoves
  <2>2. CASE (quiet' => quiet) /\ req' = [req EXCEPT ![s].prev = stored, ![s].at = l]
    BY <2>2, <1>2 DEF TypeOK, OnlyMoves, Requests
  <2>. QED  BY <1>1, <2>1, <2>2
<1>4. LoginStep(s)
  BY <1>1, <1>3 DEF LoginStep
<1>5. FlowStep(s)
  BY <1>1, <1>2, <1>3, FlowNow DEF FlowStep
<1>. QED  BY <1>1, <1>3, <1>4, <1>5, FlowStepOK

\* Revoking the token that gh_token held.
LEMMA LoginRevokeOK ==
  ASSUME Good, NEW s \in Slots, LoginRevoke(s)
  PROVE  Good'
<1>. USE FlowPoints, TokenFacts
<1>1. /\ req[s].at = "revoke"
      /\ UNCHANGED <<limits, session, stored, link, issued, linked>>
      /\ live' \in {live, live \ {req[s].prev}}
      /\ \/ (quiet' => quiet /\ live' = live \ {req[s].prev}) /\ Go(s, "save")
         \/ ~quiet' /\ Go(s, "login")
  BY DEF LoginRevoke, Call, Fault, At, limits
<1>2. /\ OnlyMoves(s) /\ req'[s].new = req[s].new /\ req'[s].token = req[s].token /\ req'[s].win = req[s].win
      /\ req'[s].at \in {"save", "login"} /\ req'[s].prev = req[s].prev
      /\ quiet' => quiet /\ live' = live \ {req[s].prev} /\ req'[s].at = "save"
  <2>1. "login" \in Points /\ "save" \in Points
    OBVIOUS
  <2>. QED  BY <2>1, <1>1, GoMoves
<1>3. LoginStep(s)
  BY <1>1, <1>2 DEF LoginStep
<1>4. FlowStep(s)
  BY <1>1, <1>2, FlowNow DEF FlowStep
<1>. QED  BY <1>1, <1>2, <1>3, <1>4, FlowStepOK

\* Saving the new token: what gh_token held is not valid any more.
LEMMA LoginSaveOK ==
  ASSUME Good, NEW s \in Slots, LoginSave(s)
  PROVE  Good'
<1>. USE FlowPoints, TokenFacts
<1>1. /\ req[s].at = "save" /\ Go(s, "login")
      /\ UNCHANGED <<limits, session, link, live, issued, linked>>
      /\ stored' \in {stored, req[s].new} /\ (quiet' => quiet /\ stored' = req[s].new)
  BY DEF LoginSave, Call, Fault, At, github, limits
<1>2. /\ OnlyMoves(s) /\ req'[s].new = req[s].new /\ req'[s].token = req[s].token /\ req'[s].win = req[s].win
      /\ req'[s].at = "login" /\ req'[s].prev = req[s].prev
  <2>1. "login" \in Points
    OBVIOUS
  <2>. QED  BY <2>1, <1>1, GoMoves
<1>3. LoginStep(s)
  BY <1>1, <1>2 DEF LoginStep
<1>4. FlowStep(s)
  BY <1>1, <1>2, FlowNow DEF FlowStep
<1>. QED  BY <1>1, <1>2, <1>3, <1>4, FlowStepOK

\* The session gets the token that gh_token holds.
LEMMA LoginDoneOK ==
  ASSUME Good, NEW s \in Slots, LoginDone(s)
  PROVE  Good'
<1>. USE FlowPoints, TokenFacts, IdleOK
<1>1. /\ req[s].at = "login" /\ Answer(s) /\ (quiet' => quiet)
      /\ UNCHANGED <<limits, stored, link, live, issued, linked>>
      /\ session' = [session EXCEPT ![req[s].client] = [user |-> "github", token |-> req[s].new]]
  BY DEF LoginDone, Call, At, github
<1>2. OnlyMoves(s) /\ req'[s] = Idle
  BY <1>1, AnswerMoves
<1>3. session' \in [Clients -> Sessions] /\ \A c \in Clients : session'[c].token \in {session[c].token, req[s].new}
  <2>1. [user |-> "github", token |-> req[s].new] \in Sessions
    BY DEF Sessions, Identifiers, Users
  <2>. QED  BY <2>1, <1>1
<1>4. LoginStep(s)
  BY <1>1, <1>2, <1>3 DEF LoginStep
<1>5. FlowStep(s)
  BY <1>1, <1>2, FlowNow DEF FlowStep
<1>. QED  BY <1>1, <1>2, <1>3, <1>4, <1>5, FlowStepOK

\* A logout begins; with another flow under way the two overlap.
LEMMA LogoutOK ==
  ASSUME Good, NEW s \in Slots, Logout(s)
  PROVE  Good'
<1>. USE FlowPoints, TokenFacts
<1>1. /\ req[s].at = "handle" /\ UNCHANGED <<limits, session, stored, link, live, issued, linked>>
      /\ \/ Go(s, "revokeOwn") /\ (quiet' => quiet /\ \A o \in Slots \ {s} : req[o].at \notin TokenFlow)
         \/ Go(s, "destroy") /\ (quiet' => quiet)
  BY DEF Logout, Serves, At, Overlap, github
<1>2. /\ OnlyMoves(s) /\ req'[s].new = req[s].new /\ req'[s].token = req[s].token /\ req'[s].win = req[s].win
      /\ req'[s].prev = req[s].prev /\ req[s].new = 0
      /\ req'[s].at = "revokeOwn" \/ req'[s].at = "destroy"
  <2>1. "revokeOwn" \in Points /\ "destroy" \in Points
    OBVIOUS
  <2>. QED  BY <2>1, <1>1, GoMoves
<1>3. CASE Go(s, "revokeOwn") /\ (quiet' => quiet /\ \A o \in Slots \ {s} : req[o].at \notin TokenFlow)
  <2>1. req'[s].at = "revokeOwn"
    BY <1>3, GoMoves
  <2>2. LoginStep(s)
    BY <1>1, <1>2, <2>1 DEF LoginStep
  <2>3. FlowStep(s)
    BY <1>1, <1>2, <1>3, <2>1 DEF FlowStep
  <2>. QED  BY <1>1, <1>2, <2>1, <2>2, <2>3, FlowStepOK
<1>4. CASE Go(s, "destroy") /\ (quiet' => quiet)
  <2>1. req'[s].at = "destroy"
    BY <1>4, GoMoves
  <2>2. Tame
    BY <1>1, <1>2, <1>4, <2>1 DEF Tame, OnlyMoves
  <2>3. TypeOK' /\ LimitInv'
    BY <1>1, <1>2, <2>1, Passed, PastLimiterOK DEF Good, TypeOK, TokensTyped, OnlyMoves
  <2>. QED  BY <2>2, <2>3, TameOK DEF Good
<1>. QED  BY <1>1, <1>3, <1>4

\* Revoking the token of the session: when it is valid it is the one of gh_token.
LEMMA LogoutRevokeOK ==
  ASSUME Good, NEW s \in Slots, LogoutRevoke(s)
  PROVE  Good'
<1>. USE FlowPoints, TokenFacts
<1>. DEFINE l == IF req[s].token \in live THEN "delete" ELSE "destroy"
<1>1. /\ req[s].at = "revokeOwn" /\ UNCHANGED <<limits, session, stored, link, issued, linked>>
      /\ live' \in {live, live \ {req[s].token}}
      /\ \/ (quiet' => quiet /\ live' = live \ {req[s].token}) /\ Go(s, l)
         \/ ~quiet' /\ Go(s, "destroy")
  BY DEF LogoutRevoke, Call, Fault, At, limits
<1>2. l \in {"delete", "destroy"} /\ (l = "delete" => req[s].token \in live)
  OBVIOUS
<1>. HIDE DEF l
<1>3. /\ OnlyMoves(s) /\ req'[s].new = req[s].new /\ req'[s].token = req[s].token /\ req'[s].win = req[s].win
      /\ req'[s].at \in {"delete", "destroy"} /\ req'[s].prev = req[s].prev /\ req[s].new = 0
      /\ quiet' => quiet /\ live' = live \ {req[s].token} /\ req'[s].at = l
  <2>1. "delete" \in Points /\ "destroy" \in Points
    OBVIOUS
  <2>. QED  BY <2>1, <1>1, <1>2, GoMoves
<1>4. LoginStep(s)
  BY <1>1, <1>3 DEF LoginStep
<1>5. quiet /\ req[s].token \in live => stored = req[s].token
  <2>. SUFFICES ASSUME quiet, req[s].token \in live, stored # req[s].token PROVE FALSE
    OBVIOUS
  <2>1. ~LinkToken(req[s].token)
    BY DEF Good, TokenInv, KindsApart
  <2>2. PICK o \in Slots : req[o].at \in LoginAt /\ req[o].new = req[s].token
    BY <2>1 DEF Good, QuietInv, Kept
  <2>3. o # s
    BY <2>2, <1>1
  <2>. QED  BY <2>2, <2>3, <1>1, FlowNow
<1>6. FlowStep(s)
  BY <1>1, <1>2, <1>3, <1>5, FlowNow DEF FlowStep
<1>. QED  BY <1>1, <1>3, <1>4, <1>6, FlowStepOK

\* Emptying gh_token, which held the token that was revoked.
LEMMA LogoutDeleteOK ==
  ASSUME Good, NEW s \in Slots, LogoutDelete(s)
  PROVE  Good'
<1>. USE FlowPoints, TokenFacts
<1>1. /\ req[s].at = "delete" /\ Go(s, "destroy") /\ UNCHANGED <<limits, session, link, live, issued, linked>>
      /\ stored' \in {0, stored} /\ (quiet' => quiet)
  BY DEF LogoutDelete, Call, Fault, At, github, limits
<1>2. /\ OnlyMoves(s) /\ req'[s].new = req[s].new /\ req'[s].token = req[s].token /\ req'[s].win = req[s].win
      /\ req'[s].at = "destroy" /\ req'[s].prev = req[s].prev /\ req[s].new = 0
  <2>1. "destroy" \in Points
    OBVIOUS
  <2>. QED  BY <2>1, <1>1, GoMoves
<1>3. LoginStep(s)
  BY <1>1, <1>2 DEF LoginStep
<1>4. FlowStep(s)
  BY <1>1, <1>2, FlowNow DEF FlowStep
<1>. QED  BY <1>1, <1>2, <1>3, <1>4, FlowStepOK

\* A token that is issued is one that nothing knows yet.
LEMMA FreshToken ==
  ASSUME Good
  PROVE  /\ issued \in Nat /\ issued + 1 \in Nat /\ ~LoginToken(issued + 1) /\ ~LinkToken(issued + 1)
         /\ issued + 1 \notin live /\ stored <= issued /\ stored \in Nat
<1>1. issued \in Nat /\ stored \in Nat /\ Issued
  BY DEF Good, TypeOK, TokensTyped, TokenInv
<1>2. issued + 1 \in Nat /\ ~(issued + 1 <= issued)
  BY <1>1
<1>3. ~LoginToken(issued + 1)
  BY <1>1, <1>2 DEF Issued
<1>4. ~LinkToken(issued + 1)
  BY <1>1, <1>2 DEF Issued
<1>5. issued + 1 \notin live
  BY <1>1, <1>2 DEF Issued
<1>6. stored <= issued
  BY <1>1 DEF Issued, LoginToken
<1>. QED  BY <1>1, <1>2, <1>3, <1>4, <1>5, <1>6

\* GitHub issues a token to a request, which starts a flow with it.
IssueTo(s, l) ==
    /\ issued' = issued + 1 /\ live' = live \cup {issued + 1}
    /\ req[s].at = "handle" /\ req' = [req EXCEPT ![s].at = l, ![s].new = issued + 1]
    /\ UNCHANGED <<limits, session, stored, link, linked>>

\* What every new flow leaves as it was.
LEMMA IssueToOK ==
  ASSUME Good, NEW s \in Slots, NEW l \in {"read", "repo"}, IssueTo(s, l),
         quiet' => quiet /\ (l = "read" => \A o \in Slots \ {s} : req[o].at \notin TokenFlow)
  PROVE  Good'
<1>. USE FlowPoints, TokenFacts, FreshToken
<1>1. /\ OnlyMoves(s) /\ req'[s].at = l /\ req'[s].new = issued + 1 /\ req'[s].prev = req[s].prev
      /\ req'[s].token = req[s].token /\ req'[s].win = req[s].win
  <2>1. l \in Points
    OBVIOUS
  <2>. QED  BY <2>1, IssueMoves DEF IssueTo
<1>2. /\ issued' = issued + 1 /\ live' = live \cup {issued + 1} /\ req[s].at = "handle"
      /\ UNCHANGED <<limits, session, stored, link, linked>>
      /\ \A o \in Slots \ {s} : req'[o] = req[o]
      /\ TokenInv
  BY <1>1 DEF IssueTo, OnlyMoves, Good
<1>3. TypeOK' /\ LimitInv'
  BY <1>1, <1>2, Passed, PastLimiterOK DEF Good, TypeOK, TokensTyped, OnlyMoves
<1>4. \A t \in Nat : LinkToken(t)' <=> LinkToken(t) \/ (l = "repo" /\ t = issued + 1)
  BY <1>1, <1>2 DEF LinkToken
<1>5. \A t \in Nat : LoginToken(t)' => LoginToken(t) \/ (l = "read" /\ t = issued + 1)
  <2>. SUFFICES ASSUME NEW t \in Nat, LoginToken(t)' PROVE LoginToken(t) \/ (l = "read" /\ t = issued + 1)
    OBVIOUS
  <2>1. CASE t = stored' \/ \E c \in Clients : session'[c].token = t
    BY <2>1, <1>2 DEF LoginToken
  <2>2. ASSUME NEW o \in Slots, req'[o].token = t \/ req'[o].prev = t \/ (req'[o].at \in LoginAt /\ req'[o].new = t)
        PROVE  LoginToken(t) \/ (l = "read" /\ t = issued + 1)
    BY <2>2, <1>1, <1>2 DEF LoginToken
  <2>. QED  BY <2>1, <2>2 DEF LoginToken
<1>6. Issued'
  BY <1>2, <1>4, <1>5 DEF TokenInv, Issued
<1>7. KindsApart'
  <2>. SUFFICES ASSUME NEW t \in Nat, LoginToken(t)', LinkToken(t)' PROVE FALSE
    BY DEF KindsApart
  <2>1. LoginToken(t) \/ (l = "read" /\ t = issued + 1)
    BY <1>5
  <2>2. LinkToken(t) \/ (l = "repo" /\ t = issued + 1)
    BY <1>4
  <2>3. ~(LoginToken(t) /\ LinkToken(t))
    BY <1>2 DEF TokenInv, KindsApart
  <2>. QED  BY <2>1, <2>2, <2>3
<1>8. OwnToken'
  <2>1. \A o \in Slots : req'[o].at \notin LoginAt \cup LinkAt => req'[o].new = 0
    BY <1>1, <1>2 DEF TokenInv, OwnToken
  <2>2. \A o \in Slots : req[o].at \in LinkAt => req[o].new # issued + 1
    BY DEF LinkToken
  <2>3. issued + 1 \notin linked.saved
    BY DEF LinkToken
  <2>4. \A o \in Slots : req'[o].at \in LinkAt => req'[o].new \in live' /\ req'[o].new \notin linked'.saved
    BY <2>3, <1>1, <1>2 DEF TokenInv, OwnToken
  <2>5. \A o, p \in Slots : req'[o].at \in LinkAt /\ req'[p].at \in LinkAt /\ req'[p].new = req'[o].new => p = o
    BY <2>2, <1>1, <1>2 DEF TokenInv, OwnToken
  <2>6. \A o \in Slots : req'[o].at = "link" => req'[o].user \in Users
    BY <1>1, <1>2 DEF TokenInv, OwnToken
  <2>. QED  BY <2>1, <2>4, <2>5, <2>6 DEF OwnToken
<1>9. LinksLive'
  BY <1>2 DEF TokenInv, LinksLive
<1>10. QuietInv'
  <2>. SUFFICES ASSUME quiet' PROVE OneFlow' /\ Kept' /\ FlowKnows' /\ Confirmed'
    BY DEF QuietInv
  <2>1. OneFlow /\ Kept /\ FlowKnows
    BY DEF Good, QuietInv
  <2>2. OneFlow'
    BY <2>1, <1>1, <1>2 DEF OneFlow
  <2>3. Kept'
    <3>. SUFFICES ASSUME NEW t \in live'
                  PROVE  t = stored \/ LinkToken(t)' \/ \E o \in Slots : req'[o].at \in LoginAt /\ req'[o].new = t
      BY <1>2 DEF Kept
    <3>1. CASE t = issued + 1
      BY <3>1, <1>1, <1>4
    <3>2. CASE t \in live
      BY <3>2, <2>1, <1>2, <1>4 DEF Kept
    <3>. QED  BY <3>1, <3>2, <1>2
  <2>4. FlowKnows'
    <3>. SUFFICES ASSUME NEW o \in Slots
                  PROVE  /\ req'[o].at = "revoke" => req'[o].prev = stored
                         /\ req'[o].at = "save" => stored = req'[o].new \/ stored \notin live'
                         /\ req'[o].at = "login" => stored = req'[o].new
                         /\ req'[o].at = "delete" => stored \notin live'
      BY <1>2 DEF FlowKnows, At
    <3>1. CASE o = s
      BY <3>1, <1>1
    <3>2. CASE o # s
      BY <3>2, <2>1, <1>2 DEF FlowKnows, At
    <3>. QED  BY <3>1, <3>2
  <2>5. Confirmed'
    BY <1>2 DEF Good, QuietInv, Confirmed
  <2>. QED  BY <2>2, <2>3, <2>4, <2>5
<1>. QED  BY <1>3, <1>6, <1>7, <1>8, <1>9, <1>10 DEF Good, TokenInv

\* A step outside the flows.
LEMMA TameStepOK ==
  ASSUME Good, NEW s \in Slots, UNCHANGED limits, OnlyMoves(s), Tame, session' \in [Clients -> Sessions],
         req[s].at \notin {"limit", "expire"}, req'[s].at \notin {"limit", "expire"},
         req'[s].win \in {0, req[s].win}
  PROVE  Good'
<1>1. TypeOK' /\ LimitInv'
  BY Passed, PastLimiterOK DEF Good, TypeOK, TokensTyped, Tame, OnlyMoves
<1>. QED  BY <1>1, TameOK DEF Good

\* A request that ends, or goes on, outside the flows.
LEMMA PlainOK ==
  ASSUME Good, NEW s \in Slots, UNCHANGED <<limits, session, stored, link, live, linked, issued>>, quiet' => quiet,
         req[s].at \notin TokenFlow \cup LinkAt \cup {"limit", "expire"},
         Answer(s) \/ \E l \in {"upstream", "lookup", "score", "stats", "destroy"} : Go(s, l)
  PROVE  Good'
<1>. USE FlowPoints, TokenFacts, IdleOK
<1>1. /\ OnlyMoves(s) /\ req'[s].at \notin TokenFlow \cup LinkAt \cup {"limit", "expire"}
      /\ req'[s].new = 0 /\ req'[s].prev \in {0, req[s].prev}
      /\ req'[s].token \in {0, req[s].token} /\ req'[s].win \in {0, req[s].win}
  <2>1. CASE Answer(s)
    BY <2>1, AnswerMoves
  <2>2. CASE \E l \in {"upstream", "lookup", "score", "stats", "destroy"} : Go(s, l)
    <3>1. PICK l \in {"upstream", "lookup", "score", "stats", "destroy"} : Go(s, l)
      BY <2>2
    <3>2. l \in Points /\ l \notin TokenFlow \cup LinkAt \cup {"limit", "expire"}
      OBVIOUS
    <3>3. /\ OnlyMoves(s) /\ req'[s].at = l /\ req'[s].new = req[s].new /\ req'[s].prev = req[s].prev
          /\ req'[s].token = req[s].token /\ req'[s].win = req[s].win
      BY <3>1, <3>2, GoMoves
    <3>. QED  BY <3>2, <3>3
  <2>. QED  BY <2>1, <2>2
<1>2. Tame
  BY <1>1 DEF Tame, OnlyMoves
<1>. QED  BY <1>1, <1>2, TameStepOK

\* A login at GitHub.
LEMMA GithubCallbackOK ==
  ASSUME Good, NEW s \in Slots, GithubCallback(s)
  PROVE  Good'
<1>1. req[s].at = "handle" /\ UNCHANGED <<limits, session, stored, link, linked>>
  BY DEF GithubCallback, Serves, At
<1>2. CASE Issue /\ Overlap(s) /\ req' = [req EXCEPT ![s].at = "read", ![s].new = issued + 1]
  BY <1>1, <1>2, IssueToOK DEF IssueTo, Issue, Overlap
<1>3. CASE Answer(s) /\ UNCHANGED <<issued, live, quiet>>
  BY <1>1, <1>3, PlainOK, FlowPoints
<1>. QED  BY <1>2, <1>3 DEF GithubCallback

\* An authorization of the submissions repository.
LEMMA ConnectCallbackOK ==
  ASSUME Good, NEW s \in Slots, ConnectCallback(s)
  PROVE  Good'
<1>1. req[s].at = "handle" /\ UNCHANGED <<limits, session, stored, link, linked, quiet>>
  BY DEF ConnectCallback, Serves, At, Call
<1>2. CASE Issue /\ req' = [req EXCEPT ![s].at = "repo", ![s].new = issued + 1]
  BY <1>1, <1>2, IssueToOK DEF IssueTo, Issue
<1>3. CASE Answer(s) /\ UNCHANGED <<issued, live>>
  BY <1>1, <1>3, PlainOK, FlowPoints
<1>. QED  BY <1>2, <1>3 DEF ConnectCallback

\* A step of a request that links: it keeps its token, saves it, or lets it go.
LinkStep(s) ==
    /\ UNCHANGED <<limits, session, stored, issued>> /\ OnlyMoves(s)
    /\ req[s].at \in LinkAt /\ req'[s].win \in {0, req[s].win}
    /\ req'[s].token \in {0, req[s].token} /\ req'[s].prev \in {0, req[s].prev}
    /\ quiet' => quiet
    /\ \/ /\ req'[s].at \in LinkAt /\ req'[s].new = req[s].new /\ UNCHANGED live
          /\ req'[s].at = "link" => req'[s].user \in Users
          /\ UNCHANGED <<link, linked>> \/ (req[s].at = "link" /\ Relink(s, "unconfirmed") /\ ~quiet')
       \/ /\ req'[s] = Idle
          /\ \/ live' \in {live, live \ {req[s].new}} /\ UNCHANGED <<link, linked>>
                  /\ (quiet' => live' = live \ {req[s].new})
             \/ UNCHANGED live /\ req[s].at = "link" /\ Relink(s, "saved")

\* What saving a link changes.
LEMMA RelinkFacts ==
  ASSUME TypeOK, NEW s \in Slots, req[s].user \in Users, NEW kind \in {"saved", "unconfirmed"}, Relink(s, kind)
  PROVE  /\ link' \in [Users -> Nat]
         /\ \A u \in Users : link'[u] \in {link[u], req[s].new}
         /\ \A u \in Users : link'[u] = link[u] \/ link[u] \in {0} \cup linked'.replaced
         /\ link'[req[s].user] = req[s].new
         /\ linked'.saved = linked.saved \cup (IF kind = "saved" THEN {req[s].new} ELSE {})
         /\ linked'.unconfirmed = linked.unconfirmed \cup (IF kind = "saved" THEN {} ELSE {req[s].new})
         /\ linked.replaced \subseteq linked'.replaced
         /\ linked' \in [saved : SUBSET Nat, unconfirmed : SUBSET Nat, replaced : SUBSET Nat]
<1>. DEFINE gone == {link[req[s].user]} \ {0}
<1>1. link \in [Users -> Nat] /\ req[s].new \in Nat /\ req[s].user \in Identifiers
      /\ linked \in [saved : SUBSET Nat, unconfirmed : SUBSET Nat, replaced : SUBSET Nat]
  BY DEF TypeOK, TokensTyped, Requests
<1>2. link' = [link EXCEPT ![req[s].user] = req[s].new]
  BY DEF Relink
<1>3. linked' = [linked EXCEPT ![kind] = @ \cup {req[s].new}, !.replaced = @ \cup gone]
  BY DEF Relink
<1>. HIDE DEF gone
<1>4. kind = "saved" \/ kind = "unconfirmed"
  OBVIOUS
<1>5. /\ linked'.saved = linked.saved \cup (IF kind = "saved" THEN {req[s].new} ELSE {})
      /\ linked'.unconfirmed = linked.unconfirmed \cup (IF kind = "saved" THEN {} ELSE {req[s].new})
      /\ linked'.replaced = linked.replaced \cup gone
  BY <1>1, <1>3, <1>4
<1>6. \A u \in Users : link'[u] = link[u] \/ (u = req[s].user /\ link'[u] = req[s].new)
  BY <1>1, <1>2
<1>7. linked' \in [saved : SUBSET Nat, unconfirmed : SUBSET Nat, replaced : SUBSET Nat]
  BY <1>1, <1>3, <1>4 DEF gone
<1>8. link' \in [Users -> Nat] /\ link'[req[s].user] = req[s].new
  BY <1>1, <1>2
<1>9. \A u \in Users : u = req[s].user => link[u] \in {0} \cup gone
  BY DEF gone
<1>. QED  BY <1>5, <1>6, <1>7, <1>8, <1>9

\* Such a step leaves all the invariants.
LEMMA LinkStepOK ==
  ASSUME Good, NEW s \in Slots, LinkStep(s)
  PROVE  Good'
<1>. USE FlowPoints, TokenFacts, IdleOK
<1>. DEFINE n == req[s].new
<1>1. /\ UNCHANGED <<limits, session, stored, issued>> /\ OnlyMoves(s)
      /\ req[s].at \in LinkAt /\ req'[s].win \in {0, req[s].win}
      /\ req'[s].token \in {0, req[s].token} /\ req'[s].prev \in {0, req[s].prev}
      /\ \A o \in Slots \ {s} : req'[o] = req[o]
      /\ TokenInv /\ n \in Nat /\ (quiet' => quiet)
      /\ live' \in {live, live \ {n}}
      /\ (req'[s].at \in LinkAt /\ req'[s].new = n /\ live' = live) \/ req'[s] = Idle
      /\ req'[s].at = "link" => req'[s].user \in Users
  BY DEF LinkStep, OnlyMoves, Good
<1>2. n \in live /\ n \notin linked.saved /\ LinkToken(n)
      /\ \A o \in Slots \ {s} : req[o].at \in LinkAt => req[o].new # n
  BY <1>1 DEF TokenInv, OwnToken, LinkToken
<1>3. n # stored /\ ~LoginToken(n)
  BY <1>1, <1>2 DEF TokenInv, KindsApart, LoginToken
<1>a. /\ link' \in [Users -> Nat]
      /\ linked' \in [saved : SUBSET Nat, unconfirmed : SUBSET Nat, replaced : SUBSET Nat]
      /\ \/ UNCHANGED <<link, linked>> /\ (req'[s] = Idle /\ quiet' => live' = live \ {n})
         \/ /\ live' = live /\ linked.replaced \subseteq linked'.replaced
            /\ \A u \in Users : link'[u] \in {link[u], n}
            /\ \A u \in Users : link'[u] = link[u] \/ link[u] \in {0} \cup linked'.replaced
            /\ \E u \in Users : link'[u] = n
            /\ \/ linked'.saved = linked.saved \cup {n} /\ linked'.unconfirmed = linked.unconfirmed /\ req'[s] = Idle
               \/ /\ linked'.saved = linked.saved /\ linked'.unconfirmed = linked.unconfirmed \cup {n}
                  /\ ~quiet' /\ req'[s].at \in LinkAt
  <2>1. CASE UNCHANGED <<link, linked>> /\ (req'[s] = Idle /\ quiet' => live' = live \ {n})
    BY <2>1 DEF Good, TypeOK, TokensTyped
  <2>2. ASSUME NEW kind \in {"saved", "unconfirmed"}, Relink(s, kind), req[s].at = "link" 
        PROVE  /\ link' \in [Users -> Nat]
               /\ linked' \in [saved : SUBSET Nat, unconfirmed : SUBSET Nat, replaced : SUBSET Nat]
               /\ linked.replaced \subseteq linked'.replaced
               /\ \A u \in Users : link'[u] \in {link[u], n}
               /\ \A u \in Users : link'[u] = link[u] \/ link[u] \in {0} \cup linked'.replaced
               /\ \E u \in Users : link'[u] = n
               /\ linked'.saved = linked.saved \cup (IF kind = "saved" THEN {n} ELSE {})
               /\ linked'.unconfirmed = linked.unconfirmed \cup (IF kind = "saved" THEN {} ELSE {n})
    <3>1. req[s].user \in Users
      BY <2>2, <1>1 DEF TokenInv, OwnToken
    <3>2. linked.saved \subseteq Nat /\ linked.unconfirmed \subseteq Nat
      BY DEF TypeOK, TokensTyped
    <3>. QED  BY <2>2, <3>1, <3>2, <1>1, RelinkFacts
  <2>3. \/ UNCHANGED <<link, linked>> /\ (req'[s] = Idle /\ quiet' => live' = live \ {n})
        \/ UNCHANGED live /\ req[s].at = "link" /\ Relink(s, "saved") /\ req'[s] = Idle
        \/ UNCHANGED live /\ req[s].at = "link" /\ Relink(s, "unconfirmed") /\ ~quiet' /\ req'[s].at \in LinkAt
    BY <1>1 DEF LinkStep
  <2>4. CASE UNCHANGED live /\ req[s].at = "link" /\ Relink(s, "saved") /\ req'[s] = Idle
    BY <2>4, <2>2
  <2>5. CASE UNCHANGED live /\ req[s].at = "link" /\ Relink(s, "unconfirmed") /\ ~quiet' /\ req'[s].at \in LinkAt
    BY <2>5, <2>2
  <2>. QED  BY <2>1, <2>3, <2>4, <2>5
<1>4. TypeOK' /\ LimitInv'
  <2>1. live' \subseteq Nat
    BY <1>1
  <2>2. req[s].at \notin {"limit", "expire"} /\ req'[s].at \notin {"limit", "expire"}
    BY <1>1
  <2>. QED  BY <1>1, <1>a, <2>1, <2>2, Passed, PastLimiterOK DEF Good, TypeOK, TokensTyped, OnlyMoves
<1>5. \A t \in Nat : LinkToken(t)' => LinkToken(t)
  BY <1>1, <1>2, <1>a DEF LinkToken
<1>6. \A t \in Nat : LinkToken(t) => LinkToken(t)' \/ (t = n /\ UNCHANGED linked /\ req'[s] = Idle)
  <2>. SUFFICES ASSUME NEW t \in Nat, LinkToken(t)
                PROVE  LinkToken(t)' \/ (t = n /\ UNCHANGED linked /\ req'[s] = Idle)
    OBVIOUS
  <2>1. CASE t = n
    BY <2>1, <1>1, <1>a DEF LinkToken
  <2>2. CASE t # n
    BY <2>2, <1>1, <1>a DEF LinkToken
  <2>. QED  BY <2>1, <2>2
<1>7. \A t \in Nat : LoginToken(t)' => t = 0 \/ LoginToken(t)
  <2>. SUFFICES ASSUME NEW t \in Nat, LoginToken(t)', t # 0 PROVE LoginToken(t)
    OBVIOUS
  <2>1. CASE t = stored' \/ \E c \in Clients : session'[c].token = t
    BY <2>1, <1>1 DEF LoginToken
  <2>2. ASSUME NEW o \in Slots, req'[o].token = t \/ req'[o].prev = t \/ (req'[o].at \in LoginAt /\ req'[o].new = t)
        PROVE  LoginToken(t)
    BY <2>2, <1>1 DEF LoginToken
  <2>. QED  BY <2>1, <2>2 DEF LoginToken
<1>8. Issued' /\ KindsApart'
  BY <1>1, <1>5, <1>7 DEF Good, TypeOK, TokensTyped, TokenInv, Issued, KindsApart
<1>9. OwnToken'
  <2>1. \A o \in Slots : req'[o].at \notin LoginAt \cup LinkAt => req'[o].new = 0
    BY <1>1 DEF TokenInv, OwnToken
  <2>4. \A o \in Slots : req'[o].at = "link" => req'[o].user \in Users
    BY <1>1 DEF TokenInv, OwnToken
  <2>2. \A o \in Slots : req'[o].at \in LinkAt => req'[o].new \in live' /\ req'[o].new \notin linked'.saved
    <3>. SUFFICES ASSUME NEW o \in Slots, req'[o].at \in LinkAt
                  PROVE  req'[o].new \in live' /\ req'[o].new \notin linked'.saved
      OBVIOUS
    <3>1. CASE o = s
      BY <3>1, <1>1, <1>2, <1>a
    <3>2. CASE o # s
      BY <3>2, <1>1, <1>2, <1>a DEF TokenInv, OwnToken
    <3>. QED  BY <3>1, <3>2
  <2>3. \A o, p \in Slots : req'[o].at \in LinkAt /\ req'[p].at \in LinkAt /\ req'[p].new = req'[o].new => p = o
    <3>1. \A o \in Slots : req'[o].at \in LinkAt => req[o].at \in LinkAt /\ req'[o].new = req[o].new
      BY <1>1
    <3>. QED  BY <3>1, <1>1 DEF TokenInv, OwnToken
  <2>. QED  BY <2>1, <2>2, <2>3, <2>4 DEF OwnToken
<1>10. LinksLive'
  <2>0. LinksLive
    BY <1>1 DEF TokenInv
  <2>1. linked'.saved \subseteq live'
    BY <2>0, <1>1, <1>2, <1>a DEF LinksLive
  <2>2. \A u \in Users : link'[u] # 0 => link'[u] \in linked'.saved \cup linked'.unconfirmed
    BY <2>0, <1>a DEF LinksLive
  <2>3. \A t \in linked'.saved : t \in linked'.replaced \/ \E u \in Users : link'[u] = t
    <3>. SUFFICES ASSUME NEW t \in linked'.saved, t \notin linked'.replaced, t # n PROVE \E u \in Users : link'[u] = t
      BY <1>2, <1>a, <2>0 DEF LinksLive
    <3>1. PICK u \in Users : link[u] = t
      BY <1>a, <2>0 DEF LinksLive
    <3>2. t # 0
      BY <2>0, <1>a DEF LinksLive
    <3>. QED  BY <3>1, <3>2, <1>a
  <2>. QED  BY <2>1, <2>2, <2>3 DEF LinksLive
<1>11. QuietInv'
  <2>. SUFFICES ASSUME quiet' PROVE OneFlow' /\ Kept' /\ FlowKnows' /\ Confirmed'
    BY DEF QuietInv
  <2>1. OneFlow /\ Kept /\ FlowKnows /\ Confirmed
    BY <1>1 DEF Good, QuietInv
  <2>2. \A o \in Slots : req'[o].at \in TokenFlow => o # s /\ req'[o] = req[o]
    BY <1>1
  <2>3. OneFlow'
    BY <2>1, <2>2 DEF OneFlow
  <2>4. Kept'
    <3>. SUFFICES ASSUME NEW t \in live'
                  PROVE  t = stored \/ LinkToken(t)' \/ \E o \in Slots : req'[o].at \in LoginAt /\ req'[o].new = t
      BY <1>1 DEF Kept
    <3>1. t \in live /\ t \in Nat
      BY <1>1
    <3>2. CASE LinkToken(t)
      <4>1. t # n \/ ~UNCHANGED linked \/ req'[s] # Idle
        BY <1>2, <1>a
      <4>. QED  BY <3>1, <3>2, <4>1, <1>6
    <3>3. CASE ~LinkToken(t)
      BY <3>1, <3>3, <2>1, <1>1 DEF Kept
    <3>. QED  BY <3>2, <3>3
  <2>5. FlowKnows'
    BY <2>1, <2>2, <1>1 DEF FlowKnows, At
  <2>6. Confirmed'
    BY <2>1, <1>a DEF Confirmed
  <2>. QED  BY <2>3, <2>4, <2>5, <2>6
<1>. QED  BY <1>4, <1>8, <1>9, <1>10, <1>11 DEF Good, TokenInv

\* The steps of /github/callback/connect after the token was issued.
LEMMA ConnectOK ==
  ASSUME Good, NEW s \in Slots, ConnectRepo(s) \/ ConnectSave(s) \/ ConnectRevoke(s)
  PROVE  Good'
<1>. USE FlowPoints, TokenFacts, IdleOK, AnswerMoves
<1>1. CASE ConnectRepo(s)
  <2>1. req[s].at = "repo" /\ UNCHANGED <<limits, session, stored, issued, live, link, linked>>
    BY <1>1 DEF ConnectRepo, At, unforwarded, github
  <2>2. CASE Call /\ Go(s, IF req[s].user = "ip" THEN "orphan" ELSE "link")
    <3>. DEFINE l == IF req[s].user = "ip" THEN "orphan" ELSE "link"
    <3>1. l \in LinkAt /\ (l = "link" => req[s].user \in Users)
      BY DEF TypeOK, Requests, Identifiers
    <3>. HIDE DEF l
    <3>2. /\ OnlyMoves(s) /\ req'[s].at = l /\ req'[s].new = req[s].new /\ req'[s].prev = req[s].prev
          /\ req'[s].token = req[s].token /\ req'[s].win = req[s].win /\ req'[s].user = req[s].user
      <4>1. Go(s, l) /\ l \in Points
        BY <2>2, <3>1 DEF l
      <4>. QED  BY <4>1, GoMoves
    <3>3. LinkStep(s)
      BY <2>1, <2>2, <3>1, <3>2 DEF LinkStep, Call
    <3>. QED  BY <3>3, LinkStepOK
  <2>3. CASE Fault /\ Answer(s)
    <3>1. LinkStep(s)
      BY <2>1, <2>3 DEF LinkStep, Fault
    <3>. QED  BY <3>1, LinkStepOK
  <2>. QED  BY <1>1, <2>2, <2>3 DEF ConnectRepo
<1>2. CASE ConnectSave(s)
  <2>1. req[s].at = "link" /\ UNCHANGED <<limits, session, stored, issued, live>>
    BY <1>2 DEF ConnectSave, At, github
  <2>2. CASE Call /\ Answer(s) /\ Relink(s, "saved")
    <3>1. LinkStep(s)
      BY <2>1, <2>2 DEF LinkStep, Call
    <3>. QED  BY <3>1, LinkStepOK
  <2>3. CASE Fault /\ Go(s, "orphan") /\ ((UNCHANGED <<link, linked>>) \/ Relink(s, "unconfirmed"))
    <3>1. "orphan" \in Points
      OBVIOUS
    <3>2. LinkStep(s)
      BY <2>1, <2>3, <3>1, GoMoves DEF LinkStep, Fault
    <3>. QED  BY <3>2, LinkStepOK
  <2>. QED  BY <1>2, <2>2, <2>3 DEF ConnectSave
<1>3. CASE ConnectRevoke(s)
  <2>1. /\ req[s].at = "orphan" /\ UNCHANGED <<limits, session, stored, issued, link, linked>> /\ Answer(s)
        /\ live' \in {live, live \ {req[s].new}} /\ (quiet' => quiet /\ live' = live \ {req[s].new})
    BY <1>3 DEF ConnectRevoke, At, Call, Fault, limits
  <2>2. LinkStep(s)
    BY <2>1 DEF LinkStep
  <2>. QED  BY <2>2, LinkStepOK
<1>. QED  BY <1>1, <1>2, <1>3

\* The routes that only answer or forward, and submissions.
LEMMA PlainHandlersOK ==
  ASSUME Good, NEW s \in Slots,
         \/ AnswerPage(s) \/ EnsureAuth(s) \/ Upstream(s)
         \/ Submission(s) \/ SubmissionLookup(s) \/ SubmissionScore(s) \/ SubmissionStats(s)
  PROVE  Good'
<1>. DEFINE Onward == {"upstream", "lookup", "score", "stats", "destroy"}
<1>1. /\ req[s].at \in {"handle", "upstream", "lookup", "score", "stats"}
      /\ UNCHANGED <<limits, session, stored, link, live, linked, issued>> /\ (quiet' => quiet)
      /\ Answer(s) \/ \E l \in Onward : Go(s, l)
  <2>1. CASE AnswerPage(s)
    BY <2>1 DEF AnswerPage, At, Call, Fault, unforwarded, github
  <2>2. CASE EnsureAuth(s)
    BY <2>2 DEF EnsureAuth, At, Call, unforwarded, github
  <2>3. CASE Upstream(s)
    BY <2>3 DEF Upstream, At, Call, Fault, unforwarded, github
  <2>4. CASE Submission(s)
    BY <2>4 DEF Submission, Serves, At, Call, unforwarded, github
  <2>5. CASE SubmissionLookup(s)
    BY <2>5 DEF SubmissionLookup, At, Call, Fault, unforwarded, github
  <2>6. CASE SubmissionScore(s)
    BY <2>6 DEF SubmissionScore, At, Call, Fault, github
  <2>7. CASE SubmissionStats(s)
    BY <2>7 DEF SubmissionStats, At, Call, Fault, github
  <2>. QED  BY <2>1, <2>2, <2>3, <2>4, <2>5, <2>6, <2>7
<1>. QED  BY <1>1, FlowPoints, PlainOK

\* Sessions that begin at Google, and sessions that end.
LEMMA SessionsOK ==
  ASSUME Good, NEW s \in Slots, GoogleCallback(s) \/ LogoutDestroy(s)
  PROVE  Good'
<1>. USE FlowPoints, TokenFacts, IdleOK
<1>1. /\ req[s].at \in {"handle", "destroy"} /\ Answer(s)
      /\ UNCHANGED <<limits, stored, link, live, linked, issued>> /\ (quiet' => quiet)
      /\ \/ session' = session
         \/ session' = [session EXCEPT ![req[s].client] = [user |-> "google", token |-> 0]]
         \/ session' = [session EXCEPT ![req[s].client] = NoSession]
  BY DEF GoogleCallback, LogoutDestroy, Serves, At, Call, Fault, github
<1>2. OnlyMoves(s) /\ req'[s] = Idle
  BY <1>1, AnswerMoves
<1>3. session' \in [Clients -> Sessions] /\ \A c \in Clients : session'[c].token \in {0, session[c].token}
  <2>1. [user |-> "google", token |-> 0] \in Sessions /\ NoSession \in Sessions /\ NoSession.token = 0
    BY DEF Sessions, Identifiers, Users, NoSession
  <2>. QED  BY <1>1, <2>1
<1>4. Tame
  BY <1>1, <1>2, <1>3 DEF Tame, OnlyMoves
<1>. QED  BY <1>1, <1>2, <1>3, <1>4, TameStepOK

\* A session that expires, and steps that concern no request.
LEMMA SessionExpiresOK ==
  ASSUME Good, NEW c \in Clients, SessionExpires(c)
  PROVE  Good'
<1>1. /\ UNCHANGED <<limits, stored, link, live, linked, issued, req, quiet>>
      /\ session' = [session EXCEPT ![c] = NoSession] /\ session \in [Clients -> Sessions]
  BY DEF SessionExpires, github, Good, TypeOK, TokensTyped
<1>2. NoSession \in Sessions /\ NoSession.token = 0
  BY DEF Sessions, Identifiers, NoSession
<1>3. Tame
  BY <1>1, <1>2 DEF Tame
<1>4. TypeOK'
  BY <1>1, <1>2 DEF Good, TypeOK, TokensTyped, LimitsTyped, limits
<1>. QED  BY <1>1, <1>3, <1>4, TameOK, NoRequestOK DEF Good

\* Pushes to GitHub and bodies that are refused.
LEMMA ElsewhereOK ==
  ASSUME Good, UNCHANGED <<limits, session, stored, link, live, linked, issued, req>>, quiet' => quiet
  PROVE  Good'
<1>1. Tame
  BY DEF Tame
<1>2. TypeOK'
  BY DEF Good, TypeOK, TokensTyped, LimitsTyped, limits
<1>. QED  BY <1>1, <1>2, TameOK, NoRequestOK DEF Good

\* The way to a handler does not touch tokens.
LEMMA LimiterTame ==
  ASSUME Good, NEW s \in Slots, Limit(s)
  PROVE  Tame
<1>. USE FlowPoints, TokenFacts, IdleOK
<1>0. "expire" \in Points /\ "handle" \in Points
  BY DEF Points
<1>1. /\ req[s].at \in {"limit", "expire"}
      /\ UNCHANGED <<session, stored, link, live, linked, issued>> /\ (quiet' => quiet)
  BY DEF Limit, Increment, IncrementFails, SetExpiry, Call, Fault, At, github
<1>2. Answer(s) \/ Go(s, "expire") \/ Go(s, "handle")
  BY DEF Limit, Increment, IncrementFails, SetExpiry, Decide
<1>3. /\ OnlyMoves(s) /\ req'[s].at \in {"idle", "expire", "handle"}
      /\ req'[s].new \in {0, req[s].new} /\ req'[s].prev \in {0, req[s].prev}
      /\ req'[s].token \in {0, req[s].token}
  BY <1>0, <1>2, AnswerMoves, GoMoves
<1>4. req[s].new = 0
  BY <1>1 DEF LoginAt, LinkAt
<1>5. req[s].at \notin TokenFlow \cup LinkAt /\ req'[s].at \notin TokenFlow \cup LinkAt
  BY <1>1, <1>3 DEF TokenFlow, LinkAt
<1>. QED  BY <1>1, <1>3, <1>4, <1>5 DEF Tame, OnlyMoves

\* Nor does a request that comes in, or a tick of the clock.
LEMMA ArrivalTame ==
  ASSUME Good, NEW s \in Slots, NEW c \in Clients, NEW route \in Routes, Receive(s, c, route)
  PROVE  Tame
<1>. DEFINE r == [Idle EXCEPT !.at = "limit", !.route = route, !.client = c,
                              !.user = session[c].user, !.token = session[c].token, !.win = window]
<1>1. r.at = "limit" /\ r.new = 0 /\ r.prev = 0 /\ r.token = session[c].token
  BY DEF Idle
<1>2. req' = [req EXCEPT ![s] = r] /\ req[s].at = "idle"
      /\ UNCHANGED <<session, stored, link, live, linked, issued, quiet>>
  BY DEF Receive, At, github
<1>. HIDE DEF r
<1>3. req'[s] = r /\ \A o \in Slots \ {s} : req'[o] = req[o]
  BY <1>2 DEF Good, TypeOK
<1>4. "limit" \notin TokenFlow \cup LinkAt /\ "idle" \notin TokenFlow \cup LinkAt
  BY DEF TokenFlow, LinkAt
<1>. QED  BY <1>1, <1>2, <1>3, <1>4 DEF Tame

----------------------------------------------------------------------------
(* The invariants hold in every behaviour.                                 *)

\* Either nobody is logged in, or one browser has token 1 and perhaps a link has token 2.
LEMMA InitGood == Init => Good
<1>. SUFFICES ASSUME Init PROVE Good
  OBVIOUS
<1>. USE IdleOK
<1>1. PICK in \in SUBSET Clients, connected \in BOOLEAN :
      /\ Cardinality(in) <= 1 /\ (connected => in # {})
      /\ session = [c \in Clients |-> IF c \in in THEN [user |-> "github", token |-> 1] ELSE NoSession]
      /\ stored = Cardinality(in)
      /\ link = [u \in Users |-> IF connected /\ u = "github" THEN 2 ELSE 0]
      /\ linked = [saved |-> IF connected THEN {2} ELSE {}, unconfirmed |-> {}, replaced |-> {}]
      /\ issued = Cardinality(in) + Cardinality(linked.saved)
  BY DEF Init
<1>2. /\ window = 0 /\ counter = [k \in Keys |-> 0] /\ expiring = {}
      /\ live = 1 .. issued /\ req = [s \in Slots |-> Idle]
      /\ seen = [k \in Keys |-> 0] /\ letIn = [k \in Keys |-> 0] /\ refused = {}
  BY DEF Init
<1>3. IsFiniteSet(in) /\ Cardinality(in) \in Nat /\ (Cardinality(in) = 0 <=> in = {})
  <2>1. IsFiniteSet(in)
    BY ClientsAssumption, FS_Subset
  <2>. QED  BY <2>1, FS_EmptySet, FS_CardinalityType
<1>4. Cardinality({2}) = 1 /\ Cardinality({}) = 0
  BY FS_Singleton, FS_EmptySet
<1>5. /\ stored \in {0, 1} /\ issued \in Nat /\ stored <= issued
      /\ (stored = 0 => in = {}) /\ linked.saved \subseteq {2} /\ linked.unconfirmed = {} /\ linked.replaced = {}
      /\ (linked.saved # {} => linked.saved = {2} /\ stored = 1 /\ issued = 2 /\ connected)
      /\ (linked.saved = {} => issued = stored /\ ~connected)
  <2>1. CASE connected
    BY <2>1, <1>1, <1>3, <1>4
  <2>2. CASE ~connected
    BY <2>2, <1>1, <1>3, <1>4
  <2>. QED  BY <2>1, <2>2
<1>6. \A c \in Clients : session[c] \in Sessions /\ session[c].token <= stored /\ session[c].token \in {0, 1}
  BY <1>1, <1>5 DEF Sessions, NoSession, Identifiers, Users
<1>7. \A s \in Slots : req[s] = Idle
  BY <1>2
<1>8. LimitsTyped
  BY <1>2, BoundsAssumption DEF LimitsTyped
<1>9. TypeOK
  BY <1>1, <1>2, <1>5, <1>6, <1>8 DEF TypeOK, TokensTyped
<1>10. LimitInv
  <2>1. \A k \in Keys : counter[k] = 0 /\ seen[k] = 0 /\ letIn[k] = 0 /\ Burst[k[1]] \in Nat
    BY <1>2, KeysTyped
  <2>2. Covered /\ CountsArrivals /\ BurstHeld /\ NoLockout
    BY <2>1, <1>2 DEF Covered, CountsArrivals, BurstHeld, NoLockout
  <2>3. Begun /\ PlaceKept
    BY <1>2, <1>7 DEF Begun, PlaceKept, At
  <2>. QED  BY <2>2, <2>3 DEF LimitInv
<1>11. "idle" \notin TokenFlow \cup LinkAt \cup LoginAt
  BY DEF TokenFlow, LinkAt, LoginAt
<1>12. \A t : (LinkToken(t) <=> t \in linked.saved) /\ (LoginToken(t) => t <= stored /\ t \in {0, 1})
  BY <1>5, <1>6, <1>7, <1>11 DEF LinkToken, LoginToken
<1>13. TokenInv
  <2>1. Issued
    BY <1>2, <1>5, <1>12 DEF Issued
  <2>2. KindsApart
    BY <1>5, <1>12 DEF KindsApart
  <2>3. OwnToken
    BY <1>7, <1>11 DEF OwnToken
  <2>4. LinksLive
    <3>1. "github" \in Users /\ \A u \in Users : link[u] = IF connected /\ u = "github" THEN 2 ELSE 0
      BY <1>1 DEF Users
    <3>2. linked.saved # {} <=> connected
      BY <1>5
    <3>3. linked.saved \subseteq live
      BY <1>2, <1>5
    <3>. QED  BY <3>1, <3>2, <3>3, <1>5 DEF LinksLive
  <2>. QED  BY <2>1, <2>2, <2>3, <2>4 DEF TokenInv
<1>14. QuietInv
  <2>1. OneFlow /\ FlowKnows
    BY <1>7, <1>11 DEF OneFlow, FlowKnows, At
  <2>2. Kept
    <3>1. \A t \in live : t = stored \/ t \in linked.saved
      <4>1. CASE linked.saved = {}
        BY <4>1, <1>2, <1>5
      <4>2. CASE linked.saved # {}
        BY <4>2, <1>2, <1>5
      <4>. QED  BY <4>1, <4>2
    <3>. QED  BY <3>1, <1>12 DEF Kept
  <2>3. Confirmed
    BY <1>5 DEF Confirmed
  <2>. QED  BY <2>1, <2>2, <2>3 DEF QuietInv
<1>. QED  BY <1>9, <1>10, <1>13, <1>14 DEF Good

\* Every handler keeps the invariants.
LEMMA HandlerOK ==
  ASSUME Good, NEW s \in Slots, Handler(s)
  PROVE  Good'
BY PlainHandlersOK, SessionsOK, GithubCallbackOK, LoginReadOK, LoginRevokeOK, LoginSaveOK, LoginDoneOK,
   LogoutOK, LogoutRevokeOK, LogoutDeleteOK, ConnectCallbackOK, ConnectOK DEF Handler

\* Every step keeps the invariants.
LEMMA StepGood == Good /\ [Next]_vars => Good'
<1>. SUFFICES ASSUME Good, [Next]_vars PROVE Good'
  OBVIOUS
<1>0. TypeOK /\ LimitInv /\ TokenInv /\ QuietInv
  BY DEF Good
<1>1. ASSUME NEW s \in Slots, NEW c \in Clients, NEW route \in Routes, Receive(s, c, route) PROVE Good'
  BY <1>0, <1>1, ReceiveOK, ArrivalTame, TameOK DEF Good
<1>2. ASSUME NEW s \in Slots, NEW route \in Routes, RejectBody(s, route) PROVE Good'
  BY <1>2, ElsewhereOK DEF RejectBody, github
<1>3. ASSUME NEW s \in Slots, Limit(s) PROVE Good'
  BY <1>0, <1>3, IncrementOK, IncrementFailsOK, SetExpiryOK, LimiterTame, TameOK DEF Limit, Good
<1>4. ASSUME NEW s \in Slots, Handler(s) PROVE Good'
  BY <1>4, HandlerOK
<1>5. ASSUME NEW p \in pushes, Push(p) PROVE Good'
  <2>1. CASE PushLink(p)
    BY <2>1, ElsewhereOK DEF PushLink, Call, Fault, github
  <2>2. CASE CommitSolution(p)
    BY <2>2, ElsewhereOK DEF CommitSolution, Call, Fault
  <2>. QED  BY <1>5, <2>1, <2>2 DEF Push
<1>6. ASSUME NEW c \in Clients, SessionExpires(c) PROVE Good'
  BY <1>6, SessionExpiresOK
<1>7. CASE NextWindow
  <2>1. Tame
    BY <1>7 DEF NextWindow, Tame, github
  <2>. QED  BY <1>0, <1>7, <2>1, NextWindowOK, TameOK DEF Good
<1>8. CASE UNCHANGED vars
  BY <1>8, ElsewhereOK DEF vars, github
<1>. QED  BY <1>1, <1>2, <1>3, <1>4, <1>5, <1>6, <1>7, <1>8 DEF Next

\* Every state of a behaviour satisfies the invariants of the limiters and of the tokens.
THEOREM ServerInvariant == Spec => []Good
BY InitGood, StepGood, PTL DEF Spec

\* BurstHeld: with any number of replicas and requests, in any interleaving and whichever
\* INCR or EXPIRE fails, no counter of checkLimit lets more than burstSize requests of a
\* caller through in one window.
THEOREM LimitHoldsAcrossReplicas == Spec => []BurstHeld
<1>1. Good => BurstHeld
  BY DEF Good, LimitInv
<1>. QED  BY <1>1, ServerInvariant, PTL

\* NoLockout: a caller is answered 429 only when more than burstSize of his requests came
\* in that window, also after an EXPIRE that failed.
THEOREM NobodyLockedOut == Spec => []NoLockout
<1>1. Good => NoLockout
  BY DEF Good, LimitInv
<1>. QED  BY <1>1, ServerInvariant, PTL

\* LinkSurvives: no login, logout or failed authorization revokes the token of a link,
\* unless the SET of that very link had reported an error.
THEOREM LinksOutliveLogins == Spec => []LinkSurvives
<1>1. Good => LinkSurvives
  BY DEF Good, TokenInv, LinksLive, LinkSurvives
<1>. QED  BY <1>1, ServerInvariant, PTL

\* NoOrphanToken: while no call failed and no two logins or logouts overlapped, every valid
\* token is in gh_token, in a session, with a request or in a link, except those of links
\* that were replaced.
THEOREM TokensAccountedFor == Spec => []NoOrphanToken
<1>1. ASSUME Good, quiet, NEW t \in live \ linked.replaced PROVE Held(t)
  <2>1. t = stored \/ LinkToken(t) \/ \E s \in Slots : req[s].at \in LoginAt /\ req[s].new = t
    BY <1>1 DEF Good, QuietInv, Kept
  <2>2. CASE t \in linked.saved \cup linked.unconfirmed
    BY <1>1, <2>2 DEF Good, QuietInv, Confirmed, TokenInv, LinksLive, Held
  <2>. QED  BY <2>1, <2>2 DEF LinkToken, Held
<1>2. Good => NoOrphanToken
  BY <1>1 DEF NoOrphanToken
<1>. QED  BY <1>2, ServerInvariant, PTL

====
