------------------------ MODULE RoomMembershipProofs ------------------------
(***************************************************************************)
(* Proofs about RoomMembership, for any number of handlers, users, rooms,  *)
(* faults and crashes: as long as no two requests or TTL tasks overlap,    *)
(* active_room pointers are sound, and a room whose leader has come is led *)
(* by one of its members.                                                  *)
(***************************************************************************)
EXTENDS RoomMembership, WellFoundedInduction, TLAPS

\* Where a process can be, by the request it works on.
JoinAt == {"joinAdd", "joinPoint", "joinTell"}
LeaveAt == {"leaveRemove", "leavePoint", "leaveTell", "leaveCheck", "leavePick", "leaveAdmin"}
RoundAt == {"roundInsert", "roundFill"}
DeleteAt == {"delList", "delKey", "delPointers", "delRow"}
Labels == {"idle"} \cup JoinAt \cup LeaveAt \cup RoundAt \cup DeleteAt

Reqs == [room : Rooms \cup {NoRoom}, user : Users \cup {NoUser}, leads : BOOLEAN, seen : SUBSET Nat,
         did : BOOLEAN, list : SUBSET Users, heir : Users \cup {NoUser}]

StoreTyped ==
    /\ row \in [Rooms -> {"none", "live", "deleted"}]
    /\ admin \in [Rooms -> Users \cup {NoUser}]
    /\ rounds \in [Rooms -> SUBSET Nat] /\ nextRound \in Nat
    /\ joined \in [Rooms -> Seq(Users)]
    /\ active \in [Users -> Rooms \cup {NoRoom}]

ProcsTyped ==
    /\ pc \in [Procs -> Labels] /\ req \in [Procs -> Reqs]
    /\ \A p \in Procs : pc[p] # "idle" => req[p].room \in Rooms
    /\ \A p \in Procs : pc[p] \in JoinAt \cup LeaveAt => req[p].user \in Users

TypeOK ==
    /\ StoreTyped /\ ProcsTyped
    /\ everIn \in [Rooms -> SUBSET Users] /\ overlapped \in BOOLEAN
    /\ faults \subseteq FaultKinds /\ crashes \in Nat

----------------------------------------------------------------------------
\* As long as nothing has overlapped, one process at most is busy.
Alone == \A p, q \in Procs : pc[p] # "idle" /\ pc[q] # "idle" => p = q

\* The room of a join or a leave is still there; whoever leaves knows whether he leads it,
\* and hands it on to a member.
RoomThere ==
    \A p \in Procs :
      /\ pc[p] \in JoinAt \cup LeaveAt => row[req[p].room] = "live"
      /\ pc[p] \in LeaveAt => (req[p].leads <=> admin[req[p].room] = req[p].user)
      /\ pc[p] = "leaveAdmin" => req[p].heir \in Members(req[p].room)

\* A room that is gone has no members, and nobody has been in one that is yet to come.
GoneIsEmpty ==
    /\ \A r \in Rooms : row[r] # "live" => joined[r] = <<>>
    /\ \A r \in Rooms : row[r] = "none" => everIn[r] = {}
    /\ \A p \in Procs : pc[p] \in {"delPointers", "delRow"} => joined[req[p].room] = <<>>

\* A pointer names a room its user is in, or the process that works is about to delete it.
Pointed ==
    /\ \A u \in Users : active[u] # NoRoom =>
         \/ u \in Members(active[u])
         \/ \E p \in Procs : pc[p] = "leavePoint" /\ req[p].user = u
         \/ \E p \in Procs : pc[p] = "delPointers" /\ u \in req[p].list
    /\ \A p \in Procs : pc[p] = "joinPoint" => req[p].user \in Members(req[p].room)
    /\ \A p \in Procs : pc[p] = "delKey" => req[p].list = Members(req[p].room)

\* A room that nobody has joined yet, or that is led by a member, once its leader came.
LedRoom(r) ==
    \/ everIn[r] = {}
    \/ joined[r] # <<>> /\ (admin[r] \in everIn[r] => admin[r] \in Members(r))

\* A process at l with request x will delete its room, or see to its leadership.
SeesTo(l, x) ==
    LET r == x.room
    IN  \/ l \in DeleteAt
        \/ /\ l \in {"leavePoint", "leaveTell", "leaveCheck"}
           /\ l = "leavePoint" => x.did
           /\ admin[r] \in everIn[r] => admin[r] \in Members(r) \/ x.leads
        \/ l \in {"leavePick", "leaveAdmin"} /\ joined[r] # <<>>

Led ==
    \A r \in Rooms : row[r] = "live" =>
      LedRoom(r) \/ \E p \in Procs : req[p].room = r /\ SeesTo(pc[p], req[p])

\* Members of a room have been in it.
MembersCame == \A r \in Rooms : Members(r) \subseteq everIn[r]

LeaderFaults == GivesUp \cup {"pick", "update"}

SerialInv ==
    ~ overlapped =>
      /\ Alone /\ RoomThere /\ GoneIsEmpty
      /\ Without({"unpoint", "list"}) => Pointed
      /\ Without(LeaderFaults) => Led

Inv == TypeOK /\ MembersCame /\ SerialInv

----------------------------------------------------------------------------
(* What the commands on a Redis sorted set do to the set of its members.   *)

\* Splitting off the head loses nothing else (LMOVE and BLMOVE).
LEMMA HeadTailToSet ==
  ASSUME NEW M, NEW s \in Seq(M), s # <<>>
  PROVE  /\ Head(s) \in M
         /\ Tail(s) \in Seq(M)
         /\ ToSet(s) = ToSet(Tail(s)) \cup {Head(s)}
<1>1. Head(s) \in M /\ Tail(s) \in Seq(M) /\ Len(s) >= 1 /\ Len(Tail(s)) = Len(s) - 1
  OBVIOUS
<1>2. \A i \in 1 .. Len(s) - 1 : Tail(s)[i] = s[i + 1]
  OBVIOUS
<1>3. ASSUME NEW x \in ToSet(s) PROVE x \in ToSet(Tail(s)) \cup {Head(s)}
  <2>1. PICK i \in 1 .. Len(s) : x = s[i]
    BY DEF ToSet
  <2>2. CASE i = 1
    BY <2>1, <2>2
  <2>3. CASE i # 1
    <3>1. i - 1 \in 1 .. Len(s) - 1 /\ Tail(s)[i - 1] = s[i]
      BY <2>3, <1>2
    <3>2. i - 1 \in DOMAIN Tail(s)
      BY <1>1, <3>1
    <3> QED BY <2>1, <3>1, <3>2 DEF ToSet
  <2> QED BY <2>2, <2>3
<1>4. ASSUME NEW x \in ToSet(Tail(s)) PROVE x \in ToSet(s)
  <2>1. PICK i \in 1 .. Len(s) - 1 : x = Tail(s)[i]
    BY <1>1 DEF ToSet
  <2> QED BY <2>1, <1>2, <1>1 DEF ToSet
<1>5. Head(s) \in ToSet(s)
  BY <1>1 DEF ToSet
<1> QED BY <1>1, <1>3, <1>4, <1>5

\* A non-empty set of numbers has the minimum Min chooses.
LEMMA MinExists ==
  ASSUME NEW I, I \subseteq Nat, I # {}
  PROVE  Min(I) \in I
<1>1. \E x \in I : \A y \in I : ~ (<<y, x>> \in OpToRel(<, Nat))
  BY NatLessThanWellFounded, WFMin
<1>2. PICK x \in I : \A y \in I : ~ (<<y, x>> \in OpToRel(<, Nat))
  BY <1>1
<1>3. \A y \in I : ~ (y < x)
  <2>1. \A a, b \in Nat : a < b => <<a, b>> \in {ss \in Nat \X Nat : ss[1] < ss[2]}
    OBVIOUS
  <2>2. OpToRel(<, Nat) = {ss \in Nat \X Nat : ss[1] < ss[2]}
    BY Zenon DEF OpToRel
  <2> QED BY <1>2, <2>1, <2>2, Zenon
<1>4. \A y \in I : x =< y
  BY <1>3
<1> QED BY <1>2, <1>4 DEF Min

\* LREM 1 removes nothing but (one occurrence of) its argument.
LEMMA RemoveFirstToSet ==
  ASSUME NEW M, NEW s \in Seq(M), NEW m
  PROVE  /\ RemoveFirst(s, m) \in Seq(M)
         /\ ToSet(s) \subseteq ToSet(RemoveFirst(s, m)) \cup {m}
         /\ ToSet(RemoveFirst(s, m)) \subseteq ToSet(s)
<1>1. CASE ~ \E i \in 1 .. Len(s) : s[i] = m
  BY <1>1 DEF RemoveFirst
<1>2. CASE \E i \in 1 .. Len(s) : s[i] = m
  <2> DEFINE n == Len(s)
             I == {i \in 1 .. n : s[i] = m}
             k == Min(I)
             r == RemoveAt(s, k)
  <2>1. RemoveFirst(s, m) = r
    BY <1>2 DEF RemoveFirst, SelectInSeq
  <2>2. k \in 1 .. n /\ s[k] = m /\ n \in Nat
    <3>1. I # {} /\ I \subseteq Nat
      BY <1>2
    <3>2. k \in I
      BY <3>1, MinExists
    <3> QED BY <3>2
  <2> HIDE DEF k, I
  <2>3. /\ r \in Seq(M) /\ Len(r) = n - 1
        /\ \A i \in 1 .. k - 1 : r[i] = s[i]
        /\ \A i \in k .. n - 1 : r[i] = s[i + 1]
    <3> DEFINE a == SubSeq(s, 1, k - 1)
               b == SubSeq(s, k + 1, n)
    <3>1. /\ a \in Seq(M) /\ Len(a) = k - 1
          /\ \A i \in 1 .. k - 1 : a[i] = s[i]
      BY <2>2
    <3>2. /\ b \in Seq(M) /\ Len(b) = n - k
          /\ \A i \in 1 .. n - k : b[i] = s[k + i]
      BY <2>2
    <3>3. r = a \o b
      BY DEF RemoveAt
    <3> HIDE DEF a, b, r
    <3>4. /\ r \in Seq(M) /\ Len(r) = n - 1
          /\ \A i \in 1 .. k - 1 : r[i] = a[i]
      <4>1. r \in Seq(M)
        BY <3>1, <3>2, <3>3
      <4>2. Len(r) = (k - 1) + (n - k)
        BY <3>1, <3>2, <3>3
      <4>3. (k - 1) + (n - k) = n - 1
        BY <2>2
      <4>4. \A i \in 1 .. Len(a) : r[i] = a[i]
        BY <3>1, <3>2, <3>3
      <4> QED BY <4>1, <4>2, <4>3, <4>4, <3>1
    <3>5. ASSUME NEW i \in k .. n - 1 PROVE r[i] = s[i + 1]
      <4>1. r[i] = b[i - (k - 1)]
        BY <3>1, <3>2, <3>3, <2>2
      <4>2. i - (k - 1) \in 1 .. n - k /\ k + (i - (k - 1)) = i + 1
        BY <2>2
      <4> QED BY <4>1, <4>2, <3>2
    <3> QED BY <3>1, <3>4, <3>5
  <2>4. DOMAIN r = 1 .. n - 1 /\ DOMAIN s = 1 .. n
    BY <2>3
  <2> HIDE DEF r
  <2>5. ASSUME NEW x \in ToSet(s), x # m PROVE x \in ToSet(r)
    <3>1. PICK i \in 1 .. n : x = s[i]
      BY <2>4 DEF ToSet
    <3>2. i # k
      BY <3>1, <2>5, <2>2
    <3>3. CASE i < k
      BY <3>1, <3>3, <2>2, <2>3, <2>4 DEF ToSet
    <3>4. CASE i > k
      <4>1. i - 1 \in k .. n - 1 /\ r[i - 1] = s[i]
        BY <3>4, <2>2, <2>3
      <4> QED BY <4>1, <3>1, <2>2, <2>4 DEF ToSet
    <3> QED BY <3>2, <3>3, <3>4, <2>2
  <2>6. ASSUME NEW x \in ToSet(r) PROVE x \in ToSet(s)
    <3>1. PICK i \in 1 .. n - 1 : x = r[i]
      BY <2>4 DEF ToSet
    <3>2. i \in 1 .. k - 1 \/ i \in k .. n - 1
      BY <2>2
    <3>3. x = s[i] \/ x = s[i + 1]
      BY <3>1, <3>2, <2>3
    <3>4. i \in 1 .. n /\ i + 1 \in 1 .. n
      BY <2>2
    <3> QED BY <3>3, <3>4, <2>4 DEF ToSet
  <2> QED BY <2>1, <2>3, <2>5, <2>6
<1> QED BY <1>1, <1>2

\* LREM and ZREM leave a list alone that does not hold their argument.
LEMMA RemoveFirstAbsent ==
  ASSUME NEW M, NEW s \in Seq(M), NEW m, m \notin ToSet(s)
  PROVE  RemoveFirst(s, m) = s
<1>1. ~ \E i \in 1 .. Len(s) : s[i] = m
  BY DEF ToSet
<1> QED BY <1>1 DEF RemoveFirst

\* ZADD adds exactly its argument, wherever its score puts it.
LEMMA InsertAtToSet ==
  ASSUME NEW M, NEW s \in Seq(M), NEW m \in M, NEW k \in 1 .. Len(s) + 1
  PROVE  /\ InsertAt(s, k, m) \in Seq(M)
         /\ InsertAt(s, k, m) # <<>>
         /\ ToSet(InsertAt(s, k, m)) = ToSet(s) \cup {m}
<1> DEFINE n == Len(s)
           a == SubSeq(s, 1, k - 1)
           b == SubSeq(s, k, n)
           c == a \o <<m>>
           r == InsertAt(s, k, m)
<1>0. n \in Nat /\ k \in Nat /\ 1 <= k /\ k <= n + 1
  OBVIOUS
<1>1. a \in Seq(M) /\ Len(a) = k - 1 /\ \A i \in 1 .. k - 1 : a[i] = s[i]
  BY <1>0
<1>2. b \in Seq(M) /\ Len(b) = n + 1 - k /\ \A i \in 1 .. n + 1 - k : b[i] = s[k - 1 + i]
  BY <1>0
<1>3. r = c \o b
  BY DEF InsertAt
<1> HIDE DEF a, b, r
<1>4. c \in Seq(M) /\ Len(c) = k /\ c[k] = m /\ \A i \in 1 .. k - 1 : c[i] = a[i]
  BY <1>0, <1>1
<1> HIDE DEF c
<1>5. r \in Seq(M) /\ Len(r) = n + 1
  <2>1. r \in Seq(M)
    BY <1>2, <1>3, <1>4
  <2>2. Len(r) = Len(c) + Len(b)
    <3>1. c \in Seq(M) /\ b \in Seq(M)
      BY <1>2, <1>4
    <3> QED BY <3>1, <1>3
  <2> QED BY <2>1, <2>2, <1>0, <1>2, <1>4
<1>6. \A i \in 1 .. k : r[i] = c[i]
  BY <1>2, <1>3, <1>4
<1>7. ASSUME NEW i \in k + 1 .. n + 1 PROVE r[i] = s[i - 1]
  <2>1. r[i] = b[i - k]
    BY <1>0, <1>2, <1>3, <1>4
  <2>2. i - k \in 1 .. n + 1 - k /\ k - 1 + (i - k) = i - 1
    BY <1>0
  <2> QED BY <2>1, <2>2, <1>2
<1>8. DOMAIN r = 1 .. n + 1 /\ DOMAIN s = 1 .. n
  BY <1>5
<1>9. ASSUME NEW x \in ToSet(r) PROVE x \in ToSet(s) \cup {m}
  <2>1. PICK i \in 1 .. n + 1 : x = r[i]
    BY <1>8 DEF ToSet
  <2>2. CASE i = k
    BY <2>1, <2>2, <1>0, <1>4, <1>6
  <2>3. CASE i < k
    <3>1. i \in 1 .. k - 1 /\ i \in 1 .. k /\ i \in 1 .. n
      BY <2>3, <1>0
    <3>2. x = s[i]
      BY <3>1, <2>1, <1>1, <1>4, <1>6
    <3> QED BY <3>1, <3>2, <1>8 DEF ToSet
  <2>4. CASE i > k
    <3>1. i \in k + 1 .. n + 1 /\ i - 1 \in 1 .. n
      BY <2>4, <1>0
    <3> QED BY <3>1, <2>1, <1>7, <1>8 DEF ToSet
  <2> QED BY <2>2, <2>3, <2>4, <1>0
<1>10. ASSUME NEW x \in ToSet(s) PROVE x \in ToSet(r)
  <2>1. PICK i \in 1 .. n : x = s[i]
    BY <1>8 DEF ToSet
  <2>2. CASE i < k
    <3>1. i \in 1 .. k - 1 /\ i \in 1 .. k /\ i \in 1 .. n + 1
      BY <2>2, <1>0
    <3> QED BY <3>1, <2>1, <1>1, <1>4, <1>6, <1>8 DEF ToSet
  <2>3. CASE i >= k
    <3>1. i + 1 \in k + 1 .. n + 1 /\ (i + 1) - 1 = i /\ i + 1 \in 1 .. n + 1
      BY <2>3, <1>0
    <3>2. r[i + 1] = s[i]
      BY <3>1, <1>7
    <3> QED BY <3>1, <3>2, <2>1, <1>8 DEF ToSet
  <2> QED BY <2>2, <2>3, <1>0
<1>11. m \in ToSet(r)
  BY <1>0, <1>4, <1>6, <1>8 DEF ToSet
<1>12. r # <<>>
  BY <1>5, <1>0
<1> QED BY <1>5, <1>9, <1>10, <1>11, <1>12 DEF r

----------------------------------------------------------------------------
(* One process at a time.                                                  *)

\* The invariant, when the only busy process is at l with request x.
RoomThereAt(l, x) ==
    /\ l \in JoinAt \cup LeaveAt => row[x.room] = "live"
    /\ l \in LeaveAt => (x.leads <=> admin[x.room] = x.user)
    /\ l = "leaveAdmin" => x.heir \in Members(x.room)
EmptyAt(l, x) ==
    /\ \A r \in Rooms : row[r] # "live" => joined[r] = <<>>
    /\ \A r \in Rooms : row[r] = "none" => everIn[r] = {}
    /\ l \in {"delPointers", "delRow"} => joined[x.room] = <<>>
PointedAt(l, x) ==
    /\ \A u \in Users : active[u] # NoRoom =>
         \/ u \in Members(active[u])
         \/ l = "leavePoint" /\ x.user = u
         \/ l = "delPointers" /\ u \in x.list
    /\ l = "joinPoint" => x.user \in Members(x.room)
    /\ l = "delKey" => x.list = Members(x.room)
LedAt(l, x) == \A r \in Rooms : row[r] = "live" => LedRoom(r) \/ (x.room = r /\ SeesTo(l, x))

SerialAt(l, x) ==
    /\ RoomThereAt(l, x) /\ EmptyAt(l, x)
    /\ Without({"unpoint", "list"}) => PointedAt(l, x)
    /\ Without(LeaderFaults) => LedAt(l, x)

OthersIdle(p) == \A q \in Procs \ {p} : pc[q] = "idle"

\* A process at rest, or with no leave or deletion under way, sees to nothing.
LEMMA Resting == ASSUME NEW l, NEW x, l \in {"idle", "joinAdd", "joinPoint", "joinTell", "leaveRemove"} \cup RoundAt
                PROVE  ~ SeesTo(l, x)
BY DEF SeesTo, DeleteAt, RoundAt

\* With the others at rest it is enough to look at p.
LEMMA Focus ==
  \A p \in Procs : \A l, x : OthersIdle(p) /\ pc[p] = l /\ req[p] = x =>
    (SerialInv <=> (~ overlapped => SerialAt(l, x)))
<1>. SUFFICES ASSUME NEW p \in Procs, NEW l, NEW x, OthersIdle(p), pc[p] = l, req[p] = x
              PROVE  SerialInv <=> (~ overlapped => SerialAt(l, x))
  OBVIOUS
<1>1. Alone
  BY DEF OthersIdle, Alone
<1>2. RoomThere <=> RoomThereAt(l, x)
  BY DEF OthersIdle, RoomThere, RoomThereAt, JoinAt, LeaveAt
<1>3. GoneIsEmpty <=> EmptyAt(l, x)
  BY DEF OthersIdle, GoneIsEmpty, EmptyAt
<1>4. Pointed <=> PointedAt(l, x)
  BY DEF OthersIdle, Pointed, PointedAt
<1>5. Led <=> LedAt(l, x)
  BY Resting DEF OthersIdle, Led, LedAt
<1>. QED  BY <1>1, <1>2, <1>3, <1>4, <1>5 DEF SerialInv, SerialAt

\* The same of the next state.
LEMMA FocusNext ==
  (\A p \in Procs : \A l, x : OthersIdle(p) /\ pc[p] = l /\ req[p] = x =>
    (SerialInv <=> (~ overlapped => SerialAt(l, x))))'
BY Focus, PTL

\* Process p, which was busy, takes a step.
Moves(p, l, x) ==
    /\ pc' = [pc EXCEPT ![p] = l] /\ req' = [req EXCEPT ![p] = x]
    /\ l \in Labels /\ x \in Reqs
    /\ l # "idle" => x.room \in Rooms
    /\ l \in JoinAt \cup LeaveAt => x.user \in Users

LEMMA MovesTyped ==
  ASSUME TypeOK, NEW p \in Procs, NEW l, NEW x, Moves(p, l, x)
  PROVE  /\ ProcsTyped' /\ pc'[p] = l /\ req'[p] = x
         /\ \A q \in Procs \ {p} : pc'[q] = pc[q] /\ req'[q] = req[q]
BY DEF TypeOK, ProcsTyped, Moves

\* What is left to show for a step of a busy process.
LEMMA StepSerial ==
  ASSUME Inv, NEW p \in Procs, pc[p] # "idle", NEW l, NEW x, Moves(p, l, x), overlapped' = overlapped,
         ~ overlapped /\ SerialAt(pc[p], req[p]) => SerialAt(l, x)'
  PROVE  SerialInv'
<1>. SUFFICES ASSUME ~ overlapped' PROVE SerialInv'
  BY DEF SerialInv
<1>1. OthersIdle(p)
  BY DEF Inv, SerialInv, Alone, OthersIdle
<1>2. SerialAt(pc[p], req[p])
  BY <1>1, Focus DEF Inv
<1>3. OthersIdle(p)' /\ pc'[p] = l /\ req'[p] = x
  BY <1>1, MovesTyped DEF OthersIdle, Inv
<1>. QED  BY <1>1, <1>2, <1>3, FocusNext

\* And for a request or a TTL task that begins.
LEMMA BeginSerial ==
  ASSUME Inv, NEW p \in Procs, NEW r \in Rooms, NEW l, NEW x, Moves(p, l, x), Begin(p, r, l, x),
         ~ overlapped /\ pc[p] = "idle" /\ row[r] = "live" /\ SerialAt(pc[p], req[p]) => SerialAt(l, x)'
  PROVE  SerialInv'
<1>. SUFFICES ASSUME ~ overlapped' PROVE SerialInv'
  BY DEF SerialInv
<1>1. ~ overlapped /\ OthersIdle(p) /\ pc[p] = "idle" /\ row[r] = "live"
  BY DEF Begin, At, OthersIdle
<1>2. SerialAt(pc[p], req[p])
  BY <1>1, Focus DEF Inv
<1>3. OthersIdle(p)' /\ pc'[p] = l /\ req'[p] = x
  BY <1>1, MovesTyped DEF OthersIdle, Inv
<1>. QED  BY <1>1, <1>2, <1>3, FocusNext

\* A request is well-formed, and so are the ways to go on.
LEMMA BlankOK == /\ Blank \in Reqs /\ Blank.room = NoRoom /\ Blank.user = NoUser
                 /\ Blank.list = {} /\ Blank.seen = {}
BY DEF Blank, Reqs

LEMMA ReturnMoves ==
  ASSUME NEW p \in Procs, Return(p)
  PROVE  Moves(p, "idle", Blank)
BY BlankOK DEF Return, Moves, Labels, JoinAt, LeaveAt

LEMMA GotoMoves ==
  ASSUME TypeOK, NEW p \in Procs, NEW l \in Labels, Goto(p, l), pc[p] # "idle",
         l \in JoinAt \cup LeaveAt => pc[p] \in JoinAt \cup LeaveAt
  PROVE  Moves(p, l, req[p])
BY DEF Goto, Moves, TypeOK, ProcsTyped

LEMMA DeleteMoves ==
  ASSUME TypeOK, NEW p \in Procs, Delete(p), pc[p] # "idle"
  PROVE  \E x \in Reqs : Moves(p, "delList", x) /\ x.room = req[p].room
<1>. DEFINE x == [Blank EXCEPT !.room = req[p].room, !.seen = req[p].seen]
<1>1. req[p].room \in Rooms /\ req[p].seen \in SUBSET Nat
  BY DEF TypeOK, ProcsTyped, Reqs
<1>2. x \in Reqs /\ x.room = req[p].room
  BY <1>1 DEF Blank, Reqs
<1>. HIDE DEF x
<1>3. pc' = [pc EXCEPT ![p] = "delList"] /\ req' = [req EXCEPT ![p] = x]
  BY DEF Delete, x
<1>4. Moves(p, "delList", x)
  BY <1>1, <1>2, <1>3 DEF Moves, Labels, JoinAt, LeaveAt, DeleteAt
<1>. QED  BY <1>2, <1>4

\* The rest of the types does not depend on the processes.
OtherTypes ==
    /\ StoreTyped /\ everIn \in [Rooms -> SUBSET Users] /\ overlapped \in BOOLEAN
    /\ faults \subseteq FaultKinds /\ crashes \in Nat

LEMMA TypeParts == TypeOK <=> OtherTypes /\ ProcsTyped
BY DEF TypeOK, OtherTypes

\* A round trip that fails is of a kind the code handles, and is not forgotten.
LEMMA FailsTyped ==
  ASSUME faults \subseteq FaultKinds, NEW k, Fails(k)
  PROVE  faults' \subseteq FaultKinds /\ faults \subseteq faults' /\ k \in faults'
BY FaultsAssumption DEF Fails

\* Members by their list.
LEMMA MembersTyped ==
  ASSUME OtherTypes, NEW r \in Rooms
  PROVE  Members(r) \subseteq Users /\ (Members(r) = {} <=> joined[r] = <<>>) /\ joined[r] \in Seq(Users)
<1>1. joined[r] \in Seq(Users)
  BY DEF OtherTypes, StoreTyped
<1>2. joined[r] # <<>> => Head(joined[r]) \in ToSet(joined[r])
  BY <1>1, HeadTailToSet
<1>3. joined[r] = <<>> => ToSet(joined[r]) = {}
  BY <1>1 DEF ToSet
<1>4. ToSet(joined[r]) \subseteq Users
  BY <1>1 DEF ToSet
<1>. QED  BY <1>1, <1>2, <1>3, <1>4 DEF Members

\* What fails may only grow.
Worse == faults \subseteq faults' /\ faults' \subseteq FaultKinds /\ crashes' = crashes

\* What has not failed by now had not failed before.
LEMMA WithoutBefore ==
  ASSUME Worse, NEW K, Without(K)'
  PROVE  Without(K)
BY DEF Without, Worse

\* A step that may change the rounds rows and nothing else of the store.
Still ==
    /\ UNCHANGED <<row, admin, joined, active, everIn, overlapped>>
    /\ rounds' \in [Rooms -> SUBSET Nat] /\ nextRound' \in Nat
    /\ Worse

\* What such a step of the only busy process has to establish.
After(l, x) ==
    /\ RoomThereAt(l, x) /\ EmptyAt(l, x)
    /\ Without({"unpoint", "list"})' => PointedAt(l, x)
    /\ Without(LeaderFaults)' => LedAt(l, x)

LEMMA StillTyped ==
  ASSUME Inv, NEW p \in Procs, NEW l, NEW x, Moves(p, l, x), Still
  PROVE  TypeOK' /\ MembersCame'
<1>1. TypeOK'
  BY MovesTyped DEF Inv, TypeOK, StoreTyped, Still, Worse
<1>2. MembersCame'
  BY DEF Inv, MembersCame, Members, Still
<1>. QED  BY <1>1, <1>2

LEMMA StillSerial ==
  ASSUME NEW l, NEW x, Still, After(l, x)
  PROVE  SerialAt(l, x)'
<1>1. RoomThereAt(l, x)' /\ EmptyAt(l, x)'
  BY DEF After, Still, RoomThereAt, EmptyAt, Members
<1>2. Without({"unpoint", "list"})' => PointedAt(l, x)'
  BY DEF After, Still, PointedAt, Members
<1>3. Without(LeaderFaults)' => LedAt(l, x)'
  BY DEF After, Still, LedAt, LedRoom, SeesTo, Members
<1>. QED  BY <1>1, <1>2, <1>3 DEF SerialAt

LEMMA StillOK ==
  ASSUME Inv, NEW p \in Procs, pc[p] # "idle", NEW l, NEW x, Moves(p, l, x), Still,
         ~ overlapped /\ SerialAt(pc[p], req[p]) => After(l, x)
  PROVE  Inv'
<1>1. TypeOK' /\ MembersCame'
  BY StillTyped
<1>2. overlapped' = overlapped
  BY DEF Still
<1>3. ~ overlapped /\ SerialAt(pc[p], req[p]) => SerialAt(l, x)'
  BY StillSerial
<1>4. SerialInv'
  BY <1>2, <1>3, StepSerial
<1>. QED  BY <1>1, <1>4 DEF Inv

\* A process that returns leaves all pointers and leaders as they should be.
LEMMA ReturnOK ==
  ASSUME Inv, NEW p \in Procs, pc[p] # "idle", Return(p), Still,
         ~ overlapped /\ SerialAt(pc[p], req[p]) =>
           /\ Without({"unpoint", "list"})' => \A u \in Users : active[u] # NoRoom => u \in Members(active[u])
           /\ Without(LeaderFaults)' => \A r \in Rooms : row[r] = "live" => LedRoom(r)
  PROVE  Inv'
<1>1. Moves(p, "idle", Blank)
  BY ReturnMoves
<1>2. ASSUME ~ overlapped, SerialAt(pc[p], req[p]) PROVE After("idle", Blank)
  <2>1. RoomThereAt("idle", Blank) /\ EmptyAt("idle", Blank)
    BY <1>2 DEF SerialAt, RoomThereAt, EmptyAt, JoinAt, LeaveAt
  <2>2. Without({"unpoint", "list"})' => PointedAt("idle", Blank)
    BY <1>2 DEF PointedAt
  <2>3. Without(LeaderFaults)' => LedAt("idle", Blank)
    BY <1>2 DEF LedAt
  <2>. QED  BY <2>1, <2>2, <2>3 DEF After
<1>. QED  BY <1>1, <1>2, StillOK

\* So does one that calls deleteRoom, which will see to its room.
LEMMA DeleteOK ==
  ASSUME Inv, NEW p \in Procs, pc[p] # "idle", Delete(p), Still,
         pc[p] \notin {"leavePoint", "delPointers"}
  PROVE  Inv'
<1>1. PICK x \in Reqs : Moves(p, "delList", x) /\ x.room = req[p].room
  BY DeleteMoves DEF Inv
<1>2. ASSUME ~ overlapped, SerialAt(pc[p], req[p]) PROVE After("delList", x)
  <2>1. RoomThereAt("delList", x) /\ EmptyAt("delList", x)
    BY <1>2 DEF SerialAt, RoomThereAt, EmptyAt, JoinAt, LeaveAt
  <2>2. Without({"unpoint", "list"})' => PointedAt("delList", x)
    BY <1>2, WithoutBefore DEF SerialAt, PointedAt, Still
  <2>3. Without(LeaderFaults)' => LedAt("delList", x)
    BY <1>1, <1>2, WithoutBefore DEF SerialAt, LedAt, Still, SeesTo, DeleteAt
  <2>. QED  BY <2>1, <2>2, <2>3 DEF After
<1>. QED  BY <1>1, <1>2, StillOK

\* A request, or a TTL task, that begins with the room as it is.
LEMMA BeginOK ==
  ASSUME Inv, NEW p \in Procs, NEW r \in Rooms, NEW l \in {"joinAdd", "leaveRemove", "roundInsert", "delList"},
         NEW x \in Reqs, x.room = r, l \in {"joinAdd", "leaveRemove"} => x.user \in Users,
         l = "leaveRemove" => (x.leads <=> admin[r] = x.user),
         Begin(p, r, l, x), UNCHANGED <<store, faults, crashes, everIn>>
  PROVE  Inv'
<1>1. Moves(p, l, x)
  BY DEF Begin, Moves, Labels, JoinAt, LeaveAt, RoundAt, DeleteAt
<1>2. UNCHANGED <<row, admin, rounds, nextRound, joined, active>>
  BY DEF store
<1>3. overlapped' \in BOOLEAN
  BY DEF Begin
<1>4. TypeOK'
  BY <1>1, <1>2, <1>3, MovesTyped DEF Inv, TypeOK, StoreTyped
<1>5. MembersCame'
  BY <1>2 DEF Inv, MembersCame, Members
<1>6. ASSUME ~ overlapped, pc[p] = "idle", row[r] = "live", SerialAt(pc[p], req[p])
      PROVE  SerialAt(l, x)'
  <2>2. RoomThereAt(l, x)'
    BY <1>6, <1>2 DEF RoomThereAt, JoinAt, LeaveAt
  <2>3. EmptyAt(l, x)'
    BY <1>6, <1>2 DEF SerialAt, EmptyAt
  <2>4. ASSUME Without({"unpoint", "list"})' PROVE PointedAt(l, x)'
    <3>1. PointedAt(pc[p], req[p])
      BY <1>6, <2>4 DEF SerialAt, Without
    <3>. QED  BY <1>6, <1>2, <3>1 DEF PointedAt, Members
  <2>5. ASSUME Without(LeaderFaults)' PROVE LedAt(l, x)'
    <3>1. LedAt(pc[p], req[p]) /\ ~ SeesTo(pc[p], req[p])
      BY <1>6, <2>5, Resting DEF SerialAt, Without
    <3>. QED  BY <1>2, <3>1 DEF LedAt, LedRoom, Members
  <2>. QED  BY <2>2, <2>3, <2>4, <2>5 DEF SerialAt
<1>. QED  BY <1>1, <1>4, <1>5, <1>6, BeginSerial DEF Inv

----------------------------------------------------------------------------
(* The steps that change nothing of the store but rounds.                  *)

\* What is known of a busy process.
LEMMA Busy ==
  ASSUME Inv, NEW p \in Procs, pc[p] # "idle"
  PROVE  /\ TypeOK /\ OtherTypes /\ ProcsTyped /\ MembersCame /\ faults \subseteq FaultKinds
         /\ req[p] \in Reqs /\ req[p].room \in Rooms
         /\ pc[p] \in JoinAt \cup LeaveAt => req[p].user \in Users
         /\ rounds \in [Rooms -> SUBSET Nat] /\ nextRound \in Nat
BY TypeParts DEF Inv, TypeOK, ProcsTyped, StoreTyped

\* Nothing fails, or something does.
LEMMA WorseIfFails ==
  ASSUME Inv, crashes' = crashes
  PROVE  /\ faults' = faults => Worse
         /\ \A k : Fails(k) => Worse /\ k \in faults'
BY FailsTyped DEF Inv, TypeOK, Worse

LEMMA JoinTellOK == ASSUME Inv, NEW p \in Procs, JoinTell(p) PROVE Inv'
<1>0. /\ pc[p] = "joinTell" /\ Return(p)
      /\ UNCHANGED <<row, admin, rounds, nextRound, joined, active, everIn, overlapped, crashes>>
      /\ (UNCHANGED faults \/ Fails("joinRtc"))
  BY DEF JoinTell, At, StepFrame, Frame, store
<1>1. Still
  BY <1>0, Busy, WorseIfFails DEF Still
<1>2. ASSUME SerialAt(pc[p], req[p])
      PROVE  /\ Without({"unpoint", "list"})' => \A u \in Users : active[u] # NoRoom => u \in Members(active[u])
             /\ Without(LeaderFaults)' => \A r \in Rooms : row[r] = "live" => LedRoom(r)
  BY <1>0, <1>1, <1>2, Resting, WithoutBefore DEF Still, SerialAt, PointedAt, LedAt
<1>. QED  BY <1>0, <1>1, <1>2, ReturnOK

LEMMA LeaveTellOK == ASSUME Inv, NEW p \in Procs, LeaveTell(p) PROVE Inv'
<1>0. /\ pc[p] = "leaveTell"
      /\ UNCHANGED <<row, admin, rounds, nextRound, joined, active, everIn, overlapped, crashes>>
  BY DEF LeaveTell, At, StepFrame, Frame, store
<1>1. Still
  BY <1>0, Busy, WorseIfFails DEF Still, LeaveTell
<1>2. ASSUME SerialAt(pc[p], req[p]), Without({"unpoint", "list"})'
      PROVE  \A u \in Users : active[u] # NoRoom => u \in Members(active[u])
  BY <1>0, <1>1, <1>2, WithoutBefore DEF Still, SerialAt, PointedAt
<1>3. CASE Fails("leaveRtc") /\ Return(p)
  <2>1. ~ Without(LeaderFaults)'
    BY <1>0, <1>3, WorseIfFails DEF Without, LeaderFaults, GivesUp
  <2>. QED  BY <1>0, <1>1, <1>2, <1>3, <2>1, ReturnOK
<1>4. CASE Goto(p, "leaveCheck")
  <2>1. PICK x \in Reqs : x = req[p]
    BY <1>0, Busy
  <2>2. Moves(p, "leaveCheck", x)
    BY <1>0, <1>4, <2>1, Busy, GotoMoves DEF Labels, LeaveAt
  <2>3. ASSUME SerialAt(pc[p], req[p]) PROVE After("leaveCheck", x)
    <3>1. RoomThereAt("leaveCheck", x) /\ EmptyAt("leaveCheck", x)
      BY <1>0, <2>1, <2>3 DEF SerialAt, RoomThereAt, EmptyAt, LeaveAt
    <3>2. Without({"unpoint", "list"})' => PointedAt("leaveCheck", x)
      BY <1>2, <2>3 DEF PointedAt
    <3>3. Without(LeaderFaults)' => LedAt("leaveCheck", x)
      BY <1>0, <1>1, <2>1, <2>3, WithoutBefore DEF Still, SerialAt, LedAt, SeesTo, DeleteAt
    <3>. QED  BY <3>1, <3>2, <3>3 DEF After
  <2>. QED  BY <1>0, <1>1, <2>2, <2>3, StillOK
<1>. QED  BY <1>3, <1>4 DEF LeaveTell

LEMMA LeaveCheckOK == ASSUME Inv, NEW p \in Procs, LeaveCheck(p) PROVE Inv'
<1>0. /\ pc[p] = "leaveCheck"
      /\ UNCHANGED <<row, admin, rounds, nextRound, joined, active, everIn, overlapped, crashes>>
  BY DEF LeaveCheck, At, Frame, store
<1>1. Still
  BY <1>0, Busy, WorseIfFails DEF Still, LeaveCheck
<1>2. ASSUME SerialAt(pc[p], req[p]), Without({"unpoint", "list"})'
      PROVE  \A u \in Users : active[u] # NoRoom => u \in Members(active[u])
  BY <1>0, <1>1, <1>2, WithoutBefore DEF Still, SerialAt, PointedAt
<1>3. CASE Delete(p)
  BY <1>0, <1>1, <1>3, DeleteOK
<1>4. CASE Fails("check") /\ Return(p)
  <2>1. ~ Without(LeaderFaults)'
    BY <1>0, <1>4, WorseIfFails DEF Without, LeaderFaults, GivesUp
  <2>. QED  BY <1>0, <1>1, <1>2, <1>4, <2>1, ReturnOK
<1>5. CASE joined[req[p].room] # <<>> /\ ~ req[p].leads /\ Return(p)
  <2>1. ASSUME SerialAt(pc[p], req[p]), Without(LeaderFaults)'
        PROVE  \A r \in Rooms : row[r] = "live" => LedRoom(r)
    <3>1. LedAt(pc[p], req[p])
      BY <1>1, <2>1, WithoutBefore DEF Still, SerialAt
    <3>2. SeesTo(pc[p], req[p]) => LedRoom(req[p].room)
      BY <1>0, <1>5 DEF SeesTo, LedRoom, DeleteAt
    <3>. QED  BY <3>1, <3>2 DEF LedAt
  <2>. QED  BY <1>0, <1>1, <1>2, <1>5, <2>1, ReturnOK
<1>6. CASE joined[req[p].room] # <<>> /\ req[p].leads /\ Goto(p, "leavePick")
  <2>1. PICK x \in Reqs : x = req[p]
    BY <1>0, Busy
  <2>2. Moves(p, "leavePick", x)
    BY <1>0, <1>6, <2>1, Busy, GotoMoves DEF Labels, LeaveAt
  <2>3. ASSUME SerialAt(pc[p], req[p]) PROVE After("leavePick", x)
    <3>1. RoomThereAt("leavePick", x) /\ EmptyAt("leavePick", x)
      BY <1>0, <2>1, <2>3 DEF SerialAt, RoomThereAt, EmptyAt, LeaveAt
    <3>2. Without({"unpoint", "list"})' => PointedAt("leavePick", x)
      BY <1>2, <2>3 DEF PointedAt
    <3>3. Without(LeaderFaults)' => LedAt("leavePick", x)
      BY <1>1, <1>6, <2>1, <2>3, WithoutBefore DEF Still, SerialAt, LedAt, SeesTo
    <3>. QED  BY <3>1, <3>2, <3>3 DEF After
  <2>. QED  BY <1>0, <1>1, <2>2, <2>3, StillOK
<1>. QED  BY <1>3, <1>4, <1>5, <1>6 DEF LeaveCheck

LEMMA LeavePickOK == ASSUME Inv, NEW p \in Procs, LeavePick(p) PROVE Inv'
<1>0. /\ pc[p] = "leavePick"
      /\ UNCHANGED <<row, admin, rounds, nextRound, joined, active, everIn, overlapped, crashes>>
  BY DEF LeavePick, At, StepFrame, Frame, store
<1>1. Still
  BY <1>0, Busy, WorseIfFails DEF Still, LeavePick
<1>2. ASSUME SerialAt(pc[p], req[p]), Without({"unpoint", "list"})'
      PROVE  \A u \in Users : active[u] # NoRoom => u \in Members(active[u])
  BY <1>0, <1>1, <1>2, WithoutBefore DEF Still, SerialAt, PointedAt
<1>3. CASE Fails("pick") /\ Return(p)
  <2>1. ~ Without(LeaderFaults)'
    BY <1>0, <1>3, WorseIfFails DEF Without, LeaderFaults, GivesUp
  <2>. QED  BY <1>0, <1>1, <1>2, <1>3, <2>1, ReturnOK
<1>4. CASE joined[req[p].room] = <<>> /\ Return(p)
  <2>1. ASSUME SerialAt(pc[p], req[p]), Without(LeaderFaults)'
        PROVE  \A r \in Rooms : row[r] = "live" => LedRoom(r)
    <3>1. LedAt(pc[p], req[p])
      BY <1>1, <2>1, WithoutBefore DEF Still, SerialAt
    <3>2. ~ SeesTo(pc[p], req[p])
      BY <1>0, <1>4 DEF SeesTo, DeleteAt
    <3>. QED  BY <3>1, <3>2 DEF LedAt
  <2>. QED  BY <1>0, <1>1, <1>2, <1>4, <2>1, ReturnOK
<1>5. CASE /\ joined[req[p].room] # <<>>
           /\ pc' = [pc EXCEPT ![p] = "leaveAdmin"]
           /\ req' = [req EXCEPT ![p].heir = Head(joined[req[p].room])]
  <2>1. PICK h : h = Head(joined[req[p].room])
    OBVIOUS
  <2>2. h \in Users /\ h \in Members(req[p].room)
    BY <1>0, <1>5, <2>1, Busy, MembersTyped, HeadTailToSet DEF Members
  <2>3. PICK x \in Reqs : x = [req[p] EXCEPT !.heir = h]
    BY <1>0, <2>2, Busy DEF Reqs
  <2>4. /\ x.heir = h /\ x.room = req[p].room /\ x.user = req[p].user /\ x.leads = req[p].leads
    BY <1>0, <2>3, Busy DEF Reqs
  <2>5. Moves(p, "leaveAdmin", x)
    BY <1>0, <1>5, <2>1, <2>3, <2>4, Busy DEF Moves, Labels, LeaveAt
  <2>6. ASSUME SerialAt(pc[p], req[p]) PROVE After("leaveAdmin", x)
    <3>1. RoomThereAt("leaveAdmin", x) /\ EmptyAt("leaveAdmin", x)
      BY <1>0, <2>2, <2>4, <2>6 DEF SerialAt, RoomThereAt, EmptyAt, LeaveAt
    <3>2. Without({"unpoint", "list"})' => PointedAt("leaveAdmin", x)
      BY <1>2, <2>6 DEF PointedAt
    <3>3. Without(LeaderFaults)' => LedAt("leaveAdmin", x)
      BY <1>1, <1>5, <2>2, <2>4, <2>6, WithoutBefore DEF Still, SerialAt, LedAt, SeesTo
    <3>. QED  BY <3>1, <3>2, <3>3 DEF After
  <2>. QED  BY <1>0, <1>1, <2>5, <2>6, StillOK
<1>. QED  BY <1>3, <1>4, <1>5 DEF LeavePick

\* A round that cannot be created: the room is deleted, or stays as it is.
LEMMA CleanUpOK ==
  ASSUME Inv, NEW p \in Procs, pc[p] \in RoundAt, CleanUp(p), Still
  PROVE  Inv'
<1>1. CASE Delete(p)
  BY <1>1, DeleteOK DEF RoundAt
<1>2. CASE Return(p)
  <2>1. ASSUME SerialAt(pc[p], req[p])
        PROVE  /\ Without({"unpoint", "list"})' => \A u \in Users : active[u] # NoRoom => u \in Members(active[u])
               /\ Without(LeaderFaults)' => \A r \in Rooms : row[r] = "live" => LedRoom(r)
    BY <2>1, Resting, WithoutBefore DEF Still, SerialAt, PointedAt, LedAt, RoundAt
  <2>. QED  BY <1>2, <2>1, ReturnOK DEF RoundAt
<1>. QED  BY <1>1, <1>2 DEF CleanUp

LEMMA RoundInsertOK == ASSUME Inv, NEW p \in Procs, RoundInsert(p) PROVE Inv'
<1>0. /\ pc[p] = "roundInsert"
      /\ UNCHANGED <<row, admin, joined, active, everIn, overlapped, crashes>>
  BY DEF RoundInsert, At, Frame
<1>1. CASE CleanUp(p) /\ UNCHANGED <<rounds, nextRound>> /\ (UNCHANGED faults \/ Fails("insert"))
  <2>1. Still
    BY <1>0, <1>1, Busy, WorseIfFails DEF Still
  <2>. QED  BY <1>0, <1>1, <2>1, CleanUpOK DEF RoundAt
<1>2. CASE /\ rounds' = [rounds EXCEPT ![req[p].room] = @ \cup {nextRound}]
           /\ nextRound' = nextRound + 1
           /\ Goto(p, "roundFill") /\ UNCHANGED faults
  <2>1. nextRound + 1 \in Nat
    BY <1>0, Busy
  <2>2. rounds' \in [Rooms -> SUBSET Nat]
    BY <1>0, <1>2, Busy
  <2>3. Still
    BY <1>0, <1>2, <2>1, <2>2, WorseIfFails DEF Still
  <2>4. PICK x \in Reqs : x = req[p]
    BY <1>0, Busy
  <2>5. Moves(p, "roundFill", x)
    BY <1>0, <1>2, <2>4, Busy, GotoMoves DEF Labels, JoinAt, LeaveAt, RoundAt
  <2>6. ASSUME SerialAt(pc[p], req[p]) PROVE After("roundFill", x)
    BY <1>0, <2>3, <2>6, Resting, WithoutBefore
       DEF After, Still, SerialAt, PointedAt, LedAt, RoomThereAt, EmptyAt, JoinAt, LeaveAt, RoundAt
  <2>. QED  BY <1>0, <2>3, <2>5, <2>6, StillOK
<1>. QED  BY <1>1, <1>2 DEF RoundInsert, Goto

LEMMA RoundFillOK == ASSUME Inv, NEW p \in Procs, RoundFill(p) PROVE Inv'
<1>0. /\ pc[p] = "roundFill"
      /\ UNCHANGED <<row, admin, rounds, nextRound, joined, active, everIn, overlapped, crashes, faults>>
  BY DEF RoundFill, At, Frame, store
<1>1. Still
  BY <1>0, Busy, WorseIfFails DEF Still
<1>2. CASE CleanUp(p)
  BY <1>0, <1>1, <1>2, CleanUpOK DEF RoundAt
<1>3. CASE Return(p)
  <2>1. ASSUME SerialAt(pc[p], req[p])
        PROVE  /\ Without({"unpoint", "list"})' => \A u \in Users : active[u] # NoRoom => u \in Members(active[u])
               /\ Without(LeaderFaults)' => \A r \in Rooms : row[r] = "live" => LedRoom(r)
    BY <1>0, <1>1, <2>1, Resting, WithoutBefore DEF Still, SerialAt, PointedAt, LedAt, RoundAt
  <2>. QED  BY <1>0, <1>1, <1>3, <2>1, ReturnOK
<1>. QED  BY <1>2, <1>3 DEF RoundFill

LEMMA DelListOK == ASSUME Inv, NEW p \in Procs, DelList(p) PROVE Inv'
<1>0. /\ pc[p] = "delList" /\ pc' = [pc EXCEPT ![p] = "delKey"]
      /\ UNCHANGED <<row, admin, rounds, nextRound, joined, active, everIn, overlapped, crashes>>
  BY DEF DelList, At, StepFrame, Frame, store
<1>1. Still
  BY <1>0, Busy, WorseIfFails DEF Still, DelList
<1>2. PICK x \in Reqs :
        /\ req' = [req EXCEPT ![p] = x] /\ x.room = req[p].room
        /\ x.list = Members(x.room) \/ ~ Without({"unpoint", "list"})'
  <2>1. CASE req' = [req EXCEPT ![p].list = Members(req[p].room)]
    <3>1. PICK m \in SUBSET Users : m = Members(req[p].room)
      BY <1>0, Busy, MembersTyped
    <3>2. [req[p] EXCEPT !.list = m] \in Reqs /\ [req[p] EXCEPT !.list = m].room = req[p].room
      BY <1>0, Busy DEF Reqs
    <3>3. [req[p] EXCEPT !.list = m].list = m
      BY <1>0, Busy DEF Reqs
    <3>. QED  BY <2>1, <3>1, <3>2, <3>3
  <2>2. CASE Fails("list") /\ UNCHANGED req
    <3>1. ~ Without({"unpoint", "list"})'
      BY <1>0, <2>2, WorseIfFails DEF Without
    <3>. QED  BY <1>0, <2>2, <3>1, Busy DEF ProcsTyped
  <2>. QED  BY <2>1, <2>2 DEF DelList
<1>3. Moves(p, "delKey", x)
  BY <1>0, <1>2, Busy DEF Moves, Labels, JoinAt, LeaveAt, DeleteAt
<1>4. ASSUME SerialAt(pc[p], req[p]) PROVE After("delKey", x)
  <2>1. RoomThereAt("delKey", x) /\ EmptyAt("delKey", x)
    BY <1>4 DEF SerialAt, RoomThereAt, EmptyAt, JoinAt, LeaveAt
  <2>2. Without({"unpoint", "list"})' => PointedAt("delKey", x)
    BY <1>0, <1>1, <1>2, <1>4, WithoutBefore DEF Still, SerialAt, PointedAt
  <2>3. Without(LeaderFaults)' => LedAt("delKey", x)
    BY <1>1, <1>2, <1>4, WithoutBefore DEF Still, SerialAt, LedAt, SeesTo, DeleteAt
  <2>. QED  BY <2>1, <2>2, <2>3 DEF After
<1>. QED  BY <1>0, <1>1, <1>3, <1>4, StillOK

LEMMA DelRoundsOK == ASSUME Inv, NEW p \in Procs, DelRounds(p) PROVE Inv'
<1>0. /\ pc[p] = "delPointers" /\ req[p].list = {}
      /\ UNCHANGED <<row, admin, nextRound, joined, active, everIn, overlapped, crashes>>
  BY DEF DelRounds, At, StepFrame, Frame
<1>1. PICK gone \in SUBSET req[p].seen : rounds' = [rounds EXCEPT ![req[p].room] = @ \ gone]
  BY DEF DelRounds
<1>2. Still
  BY <1>0, <1>1, Busy, WorseIfFails DEF Still, DelRounds
<1>3. ASSUME SerialAt(pc[p], req[p]), Without({"unpoint", "list"})'
      PROVE  \A u \in Users : active[u] # NoRoom => u \in Members(active[u])
  BY <1>0, <1>2, <1>3, WithoutBefore DEF Still, SerialAt, PointedAt
<1>4. CASE Fails("rounds") /\ Return(p)
  <2>1. ~ Without(LeaderFaults)'
    BY <1>0, <1>4, WorseIfFails DEF Without, LeaderFaults, GivesUp
  <2>. QED  BY <1>0, <1>2, <1>3, <1>4, <2>1, ReturnOK
<1>5. CASE Goto(p, "delRow")
  <2>1. PICK x \in Reqs : x = req[p]
    BY <1>0, Busy
  <2>2. Moves(p, "delRow", x)
    BY <1>0, <1>5, <2>1, Busy, GotoMoves DEF Labels, DeleteAt, JoinAt, LeaveAt
  <2>3. ASSUME SerialAt(pc[p], req[p]) PROVE After("delRow", x)
    <3>1. RoomThereAt("delRow", x) /\ EmptyAt("delRow", x)
      BY <1>0, <2>1, <2>3 DEF SerialAt, RoomThereAt, EmptyAt, JoinAt, LeaveAt
    <3>2. Without({"unpoint", "list"})' => PointedAt("delRow", x)
      BY <1>3, <2>3 DEF PointedAt
    <3>3. Without(LeaderFaults)' => LedAt("delRow", x)
      BY <1>2, <2>1, <2>3, WithoutBefore DEF Still, SerialAt, LedAt, SeesTo, DeleteAt
    <3>. QED  BY <3>1, <3>2, <3>3 DEF After
  <2>. QED  BY <1>0, <1>2, <2>2, <2>3, StillOK
<1>. QED  BY <1>4, <1>5 DEF DelRounds

----------------------------------------------------------------------------
(* The steps that change members, pointers, leaders or rows.               *)

\* ZADD: the user is a member now, the others still are.
LEMMA JoinAddOK == ASSUME Inv, NEW p \in Procs, JoinAdd(p) PROVE Inv'
<1>0. /\ pc[p] = "joinAdd"
      /\ UNCHANGED <<row, admin, rounds, nextRound, active, overlapped, crashes>>
  BY DEF JoinAdd, At, Frame
<1>1. CASE Fails("add") /\ Return(p) /\ UNCHANGED <<joined, everIn>>
  <2>1. Still
    BY <1>0, <1>1, Busy, WorseIfFails DEF Still
  <2>2. ASSUME SerialAt(pc[p], req[p])
        PROVE  /\ Without({"unpoint", "list"})' => \A u \in Users : active[u] # NoRoom => u \in Members(active[u])
               /\ Without(LeaderFaults)' => \A r \in Rooms : row[r] = "live" => LedRoom(r)
    BY <1>0, <2>1, <2>2, Resting, WithoutBefore DEF Still, SerialAt, PointedAt, LedAt
  <2>. QED  BY <1>0, <1>1, <2>1, <2>2, ReturnOK
<1>2. CASE /\ LET others == RemoveFirst(joined[req[p].room], req[p].user)
              IN  \E i \in 1 .. Len(others) + 1 :
                     joined' = [joined EXCEPT ![req[p].room] = InsertAt(others, i, req[p].user)]
           /\ everIn' = [everIn EXCEPT ![req[p].room] = @ \cup {req[p].user}]
           /\ pc' = [pc EXCEPT ![p] = "joinPoint"]
           /\ req' = [req EXCEPT ![p].did = req[p].user \notin Members(req[p].room)]
           /\ UNCHANGED faults
  <2>1. PICK r \in Rooms, u \in Users : r = req[p].room /\ u = req[p].user
    BY <1>0, Busy DEF JoinAt
  <2>2. PICK b \in BOOLEAN : b = (u \notin Members(r))
    OBVIOUS
  <2>3. PICK x \in Reqs : x = [req[p] EXCEPT !.did = b]
    BY <1>0, Busy DEF Reqs
  <2>4. x.room = r /\ x.user = u /\ req' = [req EXCEPT ![p] = x]
    BY <1>0, <1>2, <2>1, <2>2, <2>3, Busy DEF Reqs
  <2>5. Moves(p, "joinPoint", x)
    BY <1>2, <2>4 DEF Moves, Labels, JoinAt
  <2>6. PICK s \in Seq(Users) : joined' = [joined EXCEPT ![r] = s] /\ s # <<>> /\ ToSet(s) = Members(r) \cup {u}
    <3>. DEFINE others == RemoveFirst(joined[r], u)
    <3>1. PICK i \in 1 .. Len(others) + 1 : joined' = [joined EXCEPT ![r] = InsertAt(others, i, u)]
      BY <1>2, <2>1
    <3>2. /\ others \in Seq(Users) /\ ToSet(joined[r]) \subseteq ToSet(others) \cup {u}
          /\ ToSet(others) \subseteq ToSet(joined[r])
      BY <1>0, Busy, MembersTyped, RemoveFirstToSet
    <3>. HIDE DEF others
    <3>3. /\ InsertAt(others, i, u) \in Seq(Users) /\ InsertAt(others, i, u) # <<>>
          /\ ToSet(InsertAt(others, i, u)) = ToSet(others) \cup {u}
      BY <3>2, InsertAtToSet
    <3>. QED  BY <3>1, <3>2, <3>3 DEF Members
  <2>7. /\ joined' \in [Rooms -> Seq(Users)] /\ joined'[r] # <<>>
        /\ ToSet(joined'[r]) = Members(r) \cup {u}
        /\ \A q \in Rooms : q # r => joined'[q] = joined[q]
    BY <1>0, <2>6, Busy DEF OtherTypes, StoreTyped
  <2>8. /\ everIn' \in [Rooms -> SUBSET Users] /\ everIn'[r] = everIn[r] \cup {u}
        /\ \A q \in Rooms : q # r => everIn'[q] = everIn[q]
    BY <1>0, <1>2, <2>1, Busy DEF OtherTypes
  <2>9. TypeOK'
    BY <1>0, <1>2, <2>5, <2>7, <2>8, Busy, MovesTyped DEF TypeOK, StoreTyped
  <2>10. MembersCame'
    <3>. SUFFICES ASSUME NEW q \in Rooms PROVE ToSet(joined'[q]) \subseteq everIn'[q]
      BY DEF MembersCame, Members
    <3>. QED  BY <1>0, <2>7, <2>8, Busy DEF MembersCame, Members
  <2>11. Worse
    BY <1>0, <1>2, WorseIfFails
  <2>12. ASSUME SerialAt(pc[p], req[p]) PROVE SerialAt("joinPoint", x)'
    <3>0. row[r] = "live"
      BY <1>0, <2>1, <2>12 DEF SerialAt, RoomThereAt, JoinAt
    <3>1. RoomThereAt("joinPoint", x)'
      BY <1>0, <2>4, <3>0 DEF RoomThereAt, LeaveAt
    <3>2. EmptyAt("joinPoint", x)'
      BY <1>0, <3>0, <2>7, <2>8, <2>12 DEF SerialAt, EmptyAt
    <3>3. ASSUME Without({"unpoint", "list"})' PROVE PointedAt("joinPoint", x)'
      <4>1. PointedAt(pc[p], req[p])
        BY <2>11, <2>12, <3>3, WithoutBefore DEF SerialAt
      <4>2. \A v \in Users, q \in Rooms : v \in ToSet(joined[q]) => v \in ToSet(joined'[q])
        BY <2>7 DEF Members
      <4>3. active' \in [Users -> Rooms \cup {NoRoom}]
        BY <2>9 DEF TypeOK, StoreTyped
      <4>4. \A v \in Users : active'[v] # NoRoom => v \in ToSet(joined'[active'[v]])
        BY <1>0, <4>1, <4>2, <4>3 DEF PointedAt, Members
      <4>5. u \in ToSet(joined'[r])
        BY <2>7
      <4>. QED  BY <2>4, <4>4, <4>5 DEF PointedAt, Members
    <3>4. ASSUME Without(LeaderFaults)' PROVE LedAt("joinPoint", x)'
      <4>1. \A q \in Rooms : row[q] = "live" => LedRoom(q)
        BY <1>0, <2>11, <2>12, <3>4, Resting, WithoutBefore DEF SerialAt, LedAt
      <4>2. LedRoom(r)'
        <5>1. LedRoom(r)
          BY <4>1, <3>0
        <5>2. Members(r) \subseteq everIn[r]
          BY <1>0, Busy DEF MembersCame
        <5>. QED  BY <1>0, <5>1, <5>2, <2>7, <2>8 DEF LedRoom, Members
      <4>3. \A q \in Rooms : q # r /\ LedRoom(q) => LedRoom(q)'
        BY <1>0, <2>7, <2>8 DEF LedRoom, Members
      <4>. QED  BY <1>0, <4>1, <4>2, <4>3 DEF LedAt
    <3>. QED  BY <3>1, <3>2, <3>3, <3>4 DEF SerialAt
  <2>13. SerialInv'
    BY <1>0, <2>5, <2>12, StepSerial
  <2>. QED  BY <2>9, <2>10, <2>13 DEF Inv
<1>. QED  BY <1>1, <1>2 DEF JoinAdd

\* A step that changes nothing but the pointers.
Repoints(a) ==
    /\ active' = a /\ a \in [Users -> Rooms \cup {NoRoom}]
    /\ UNCHANGED <<row, admin, rounds, nextRound, joined, everIn, overlapped>>
    /\ Worse

LEMMA RepointsOK ==
  ASSUME Inv, NEW p \in Procs, pc[p] # "idle", NEW l, NEW x, Moves(p, l, x), NEW a, Repoints(a),
         ~ overlapped /\ SerialAt(pc[p], req[p]) =>
           /\ RoomThereAt(l, x) /\ EmptyAt(l, x)
           /\ Without({"unpoint", "list"})' =>
                /\ \A v \in Users : a[v] # NoRoom =>
                     v \in Members(a[v]) \/ (l = "delPointers" /\ v \in x.list)
                /\ l \notin {"joinPoint", "delKey"}
           /\ Without(LeaderFaults)' => LedAt(l, x)
  PROVE  Inv'
<1>1. TypeOK'
  BY MovesTyped DEF Inv, TypeOK, StoreTyped, Repoints, Worse
<1>2. MembersCame'
  BY DEF Inv, MembersCame, Members, Repoints
<1>3. ASSUME ~ overlapped, SerialAt(pc[p], req[p]) PROVE SerialAt(l, x)'
  <2>1. RoomThereAt(l, x)' /\ EmptyAt(l, x)'
    BY <1>3 DEF Repoints, RoomThereAt, EmptyAt, Members
  <2>2. Without({"unpoint", "list"})' => PointedAt(l, x)'
    BY <1>3 DEF Repoints, PointedAt, Members
  <2>3. Without(LeaderFaults)' => LedAt(l, x)'
    BY <1>3 DEF Repoints, LedAt, LedRoom, SeesTo, Members
  <2>. QED  BY <2>1, <2>2, <2>3 DEF SerialAt
<1>4. SerialInv'
  BY <1>3, StepSerial DEF Repoints
<1>. QED  BY <1>1, <1>2, <1>4 DEF Inv

\* SET active_room: the user is a member of the room it names.
LEMMA JoinPointOK == ASSUME Inv, NEW p \in Procs, JoinPoint(p) PROVE Inv'
<1>0. /\ pc[p] = "joinPoint"
      /\ UNCHANGED <<row, admin, rounds, nextRound, joined, everIn, overlapped, crashes>>
      /\ active \in [Users -> Rooms \cup {NoRoom}]
  BY DEF JoinPoint, At, StepFrame, Frame, Inv, TypeOK, StoreTyped
<1>1. PICK l \in {"joinTell", "idle"}, x \in Reqs : Moves(p, l, x) /\ (l = "joinTell" => x = req[p])
  <2>1. CASE Goto(p, "joinTell")
    <3>1. PICK x \in Reqs : x = req[p]
      BY <1>0, Busy
    <3>. QED  BY <1>0, <2>1, <3>1, Busy, GotoMoves DEF Labels, JoinAt
  <2>2. CASE Return(p)
    BY <2>2, ReturnMoves, BlankOK
  <2>. QED  BY <2>1, <2>2 DEF JoinPoint
<1>2. PICK r \in Rooms, u \in Users : r = req[p].room /\ u = req[p].user
  BY <1>0, Busy DEF JoinAt
<1>3. PICK a : a = active' /\ Repoints(a) /\ \A v \in Users : a[v] \in {active[v]} \cup (IF v = u THEN {r} ELSE {})
  <2>1. CASE active' = [active EXCEPT ![u] = r] /\ UNCHANGED faults
    BY <1>0, <2>1, WorseIfFails DEF Repoints
  <2>2. CASE Fails("point") /\ UNCHANGED active
    BY <1>0, <2>2, WorseIfFails DEF Repoints
  <2>. QED  BY <1>2, <2>1, <2>2 DEF JoinPoint
<1>4. ASSUME SerialAt(pc[p], req[p])
      PROVE  /\ RoomThereAt(l, x) /\ EmptyAt(l, x)
             /\ Without({"unpoint", "list"})' => \A v \in Users : a[v] # NoRoom => v \in Members(a[v])
             /\ Without(LeaderFaults)' => LedAt(l, x)
  <2>1. RoomThereAt(l, x) /\ EmptyAt(l, x)
    BY <1>0, <1>1, <1>4 DEF SerialAt, RoomThereAt, EmptyAt, JoinAt, LeaveAt
  <2>2. ASSUME Without({"unpoint", "list"})', NEW v \in Users, a[v] # NoRoom PROVE v \in Members(a[v])
    <3>1. PointedAt(pc[p], req[p])
      BY <1>3, <1>4, <2>2, WithoutBefore DEF SerialAt, Repoints
    <3>. QED  BY <1>0, <1>2, <1>3, <2>2, <3>1 DEF PointedAt
  <2>3. Without(LeaderFaults)' => LedAt(l, x)
    BY <1>0, <1>3, <1>4, Resting, WithoutBefore DEF SerialAt, LedAt, Repoints
  <2>. QED  BY <2>1, <2>2, <2>3
<1>. QED  BY <1>0, <1>1, <1>3, <1>4, RepointsOK

\* DEL active_room: whoever has left points nowhere.
LEMMA LeavePointOK == ASSUME Inv, NEW p \in Procs, LeavePoint(p) PROVE Inv'
<1>0. /\ pc[p] = "leavePoint"
      /\ UNCHANGED <<row, admin, rounds, nextRound, joined, everIn, overlapped, crashes>>
      /\ active \in [Users -> Rooms \cup {NoRoom}]
  BY DEF LeavePoint, At, StepFrame, Frame, Inv, TypeOK, StoreTyped
<1>1. PICK l \in {"leaveTell", "idle"}, x \in Reqs :
        /\ Moves(p, l, x) /\ (l = "leaveTell" => x = req[p]) /\ (l = "leaveTell" <=> req[p].did)
  <2>1. CASE req[p].did /\ Goto(p, "leaveTell")
    <3>1. PICK x \in Reqs : x = req[p]
      BY <1>0, Busy
    <3>. QED  BY <1>0, <2>1, <3>1, Busy, GotoMoves DEF Labels, LeaveAt
  <2>2. CASE ~ req[p].did /\ Return(p)
    BY <2>2, ReturnMoves, BlankOK
  <2>. QED  BY <2>1, <2>2 DEF LeavePoint
<1>2. PICK u \in Users : u = req[p].user
  BY <1>0, Busy DEF LeaveAt
<1>3. PICK a : a = active' /\ Repoints(a) /\ (Without({"unpoint", "list"})' => a = [active EXCEPT ![u] = NoRoom])
  <2>1. CASE active' = [active EXCEPT ![u] = NoRoom] /\ UNCHANGED faults
    BY <1>0, <2>1, WorseIfFails DEF Repoints
  <2>2. CASE Fails("unpoint") /\ UNCHANGED active
    BY <1>0, <2>2, WorseIfFails DEF Repoints, Without
  <2>. QED  BY <1>2, <2>1, <2>2 DEF LeavePoint
<1>4. ASSUME SerialAt(pc[p], req[p])
      PROVE  /\ RoomThereAt(l, x) /\ EmptyAt(l, x)
             /\ Without({"unpoint", "list"})' => \A v \in Users : a[v] # NoRoom => v \in Members(a[v])
             /\ Without(LeaderFaults)' => LedAt(l, x)
  <2>1. RoomThereAt(l, x) /\ EmptyAt(l, x)
    BY <1>0, <1>1, <1>4 DEF SerialAt, RoomThereAt, EmptyAt, JoinAt, LeaveAt
  <2>2. ASSUME Without({"unpoint", "list"})', NEW v \in Users, a[v] # NoRoom PROVE v \in Members(a[v])
    <3>1. PointedAt(pc[p], req[p])
      BY <1>3, <1>4, <2>2, WithoutBefore DEF SerialAt, Repoints
    <3>2. v # u /\ a[v] = active[v]
      BY <1>0, <1>3, <2>2
    <3>. QED  BY <1>0, <1>2, <2>2, <3>1, <3>2 DEF PointedAt
  <2>3. ASSUME Without(LeaderFaults)' PROVE LedAt(l, x)
    <3>1. LedAt(pc[p], req[p])
      BY <1>3, <1>4, <2>3, WithoutBefore DEF SerialAt, Repoints
    <3>2. SeesTo(pc[p], req[p]) => l = "leaveTell" /\ SeesTo(l, x)
      BY <1>0, <1>1 DEF SeesTo, DeleteAt
    <3>. QED  BY <1>1, <3>1, <3>2 DEF LedAt
  <2>. QED  BY <2>1, <2>2, <2>3
<1>. QED  BY <1>0, <1>1, <1>3, <1>4, RepointsOK

\* DEL active_room of one more of the listed users.
LEMMA DelPointerOK == ASSUME Inv, NEW p \in Procs, NEW u \in Users, DelPointer(p, u) PROVE Inv'
<1>0. /\ pc[p] = "delPointers" /\ u \in req[p].list
      /\ UNCHANGED <<row, admin, rounds, nextRound, joined, everIn, overlapped, crashes, faults, pc>>
      /\ active \in [Users -> Rooms \cup {NoRoom}]
  BY DEF DelPointer, At, StepFrame, Frame, Inv, TypeOK, StoreTyped
<1>1. PICK x \in Reqs : x = [req[p] EXCEPT !.list = @ \ {u}]
  BY <1>0, Busy DEF Reqs
<1>2. x.room = req[p].room /\ x.list = req[p].list \ {u}
  BY <1>0, <1>1, Busy DEF Reqs
<1>3. Moves(p, "delPointers", x)
  <2>1. pc' = [pc EXCEPT ![p] = "delPointers"]
    BY <1>0, Busy DEF ProcsTyped
  <2>2. req' = [req EXCEPT ![p] = x]
    BY <1>1 DEF DelPointer
  <2>. QED  BY <1>0, <1>2, <2>1, <2>2, Busy DEF Moves, Labels, DeleteAt, JoinAt, LeaveAt
<1>4. PICK a : a = [active EXCEPT ![u] = NoRoom]
  OBVIOUS
<1>5. Repoints(a)
  BY <1>0, <1>4, WorseIfFails DEF Repoints, DelPointer
<1>6. ASSUME SerialAt(pc[p], req[p])
      PROVE  /\ RoomThereAt("delPointers", x) /\ EmptyAt("delPointers", x)
             /\ Without({"unpoint", "list"})' =>
                  \A v \in Users : a[v] # NoRoom => v \in Members(a[v]) \/ v \in x.list
             /\ Without(LeaderFaults)' => LedAt("delPointers", x)
  <2>1. RoomThereAt("delPointers", x) /\ EmptyAt("delPointers", x)
    BY <1>0, <1>2, <1>6 DEF SerialAt, RoomThereAt, EmptyAt, JoinAt, LeaveAt
  <2>2. ASSUME Without({"unpoint", "list"})', NEW v \in Users, a[v] # NoRoom
        PROVE  v \in Members(a[v]) \/ v \in x.list
    <3>1. PointedAt(pc[p], req[p])
      BY <1>5, <1>6, <2>2, WithoutBefore DEF SerialAt, Repoints
    <3>2. v # u /\ a[v] = active[v]
      BY <1>0, <1>4, <2>2
    <3>. QED  BY <1>0, <1>2, <2>2, <3>1, <3>2 DEF PointedAt
  <2>3. Without(LeaderFaults)' => LedAt("delPointers", x)
    BY <1>2, <1>5, <1>6, WithoutBefore DEF SerialAt, Repoints, LedAt, SeesTo, DeleteAt
  <2>. QED  BY <2>1, <2>2, <2>3
<1>. QED  BY <1>0, <1>3, <1>5, <1>6, RepointsOK

\* ZREM: whoever leaves is no member, the others still are.
LEMMA LeaveRemoveOK == ASSUME Inv, NEW p \in Procs, LeaveRemove(p) PROVE Inv'
<1>0. /\ pc[p] = "leaveRemove"
      /\ UNCHANGED <<row, admin, rounds, nextRound, active, everIn, overlapped, crashes>>
  BY DEF LeaveRemove, At, StepFrame, Frame
<1>1. CASE Fails("remove") /\ Return(p) /\ UNCHANGED joined
  <2>1. Still
    BY <1>0, <1>1, Busy, WorseIfFails DEF Still
  <2>2. ASSUME SerialAt(pc[p], req[p])
        PROVE  /\ Without({"unpoint", "list"})' => \A u \in Users : active[u] # NoRoom => u \in Members(active[u])
               /\ Without(LeaderFaults)' => \A r \in Rooms : row[r] = "live" => LedRoom(r)
    BY <1>0, <2>1, <2>2, Resting, WithoutBefore DEF Still, SerialAt, PointedAt, LedAt
  <2>. QED  BY <1>0, <1>1, <2>1, <2>2, ReturnOK
<1>2. CASE /\ joined' = [joined EXCEPT ![req[p].room] = RemoveFirst(@, req[p].user)]
           /\ pc' = [pc EXCEPT ![p] = "leavePoint"]
           /\ req' = [req EXCEPT ![p].did = req[p].user \in Members(req[p].room)]
           /\ UNCHANGED faults
  <2>1. PICK r \in Rooms, u \in Users : r = req[p].room /\ u = req[p].user
    BY <1>0, Busy DEF LeaveAt
  <2>2. PICK b \in BOOLEAN : b = (u \in Members(r))
    <3>1. (u \in Members(r)) \in BOOLEAN
      OBVIOUS
    <3>. QED  BY <3>1, Zenon
  <2>3. PICK x \in Reqs : x = [req[p] EXCEPT !.did = b]
    BY <1>0, Busy DEF Reqs
  <2>4. /\ x.room = r /\ x.user = u /\ x.did = b /\ x.leads = req[p].leads
        /\ req' = [req EXCEPT ![p] = x]
    BY <1>0, <1>2, <2>1, <2>2, <2>3, Busy DEF Reqs
  <2>5. Moves(p, "leavePoint", x)
    BY <1>2, <2>4 DEF Moves, Labels, LeaveAt
  <2>6. PICK s \in Seq(Users) :
          /\ joined' = [joined EXCEPT ![r] = s]
          /\ Members(r) \subseteq ToSet(s) \cup {u} /\ ToSet(s) \subseteq Members(r)
          /\ u \notin Members(r) => s = joined[r]
    <3>1. /\ RemoveFirst(joined[r], u) \in Seq(Users)
          /\ ToSet(joined[r]) \subseteq ToSet(RemoveFirst(joined[r], u)) \cup {u}
          /\ ToSet(RemoveFirst(joined[r], u)) \subseteq ToSet(joined[r])
      BY <1>0, Busy, MembersTyped, RemoveFirstToSet
    <3>2. u \notin ToSet(joined[r]) => RemoveFirst(joined[r], u) = joined[r]
      BY <1>0, Busy, MembersTyped, RemoveFirstAbsent
    <3>3. joined' = [joined EXCEPT ![r] = RemoveFirst(joined[r], u)]
      BY <1>2, <2>1
    <3>. QED  BY <3>1, <3>2, <3>3 DEF Members
  <2>7. /\ joined' \in [Rooms -> Seq(Users)] /\ joined'[r] = s
        /\ \A q \in Rooms : q # r => joined'[q] = joined[q]
    BY <1>0, <2>6, Busy DEF OtherTypes, StoreTyped
  <2>8. TypeOK'
    BY <1>0, <1>2, <2>5, <2>7, Busy, MovesTyped DEF TypeOK, StoreTyped
  <2>9. MembersCame'
    <3>. SUFFICES ASSUME NEW q \in Rooms PROVE ToSet(joined'[q]) \subseteq everIn'[q]
      BY DEF MembersCame, Members
    <3>. QED  BY <1>0, <2>6, <2>7, Busy DEF MembersCame, Members
  <2>10. Worse
    BY <1>0, <1>2, WorseIfFails
  <2>11. ASSUME SerialAt(pc[p], req[p]) PROVE SerialAt("leavePoint", x)'
    <3>0. row[r] = "live" /\ (x.leads <=> admin[r] = u)
      BY <1>0, <2>1, <2>4, <2>11 DEF SerialAt, RoomThereAt, LeaveAt
    <3>1. RoomThereAt("leavePoint", x)'
      BY <1>0, <2>4, <3>0 DEF RoomThereAt
    <3>2. EmptyAt("leavePoint", x)'
      BY <1>0, <3>0, <2>7, <2>11 DEF SerialAt, EmptyAt
    <3>3. ASSUME Without({"unpoint", "list"})' PROVE PointedAt("leavePoint", x)'
      <4>1. PointedAt(pc[p], req[p])
        BY <2>10, <2>11, <3>3, WithoutBefore DEF SerialAt
      <4>2. \A v \in Users, q \in Rooms : v \in ToSet(joined[q]) => v \in ToSet(joined'[q]) \/ v = u
        BY <2>6, <2>7 DEF Members
      <4>3. active' \in [Users -> Rooms \cup {NoRoom}]
        BY <2>8 DEF TypeOK, StoreTyped
      <4>4. \A v \in Users : active'[v] # NoRoom => v \in ToSet(joined'[active'[v]]) \/ v = u
        BY <1>0, <4>1, <4>2, <4>3 DEF PointedAt, Members
      <4>. QED  BY <2>4, <4>4 DEF PointedAt, Members
    <3>4. ASSUME Without(LeaderFaults)' PROVE LedAt("leavePoint", x)'
      <4>1. \A q \in Rooms : row[q] = "live" => LedRoom(q)
        BY <1>0, <2>10, <2>11, <3>4, Resting, WithoutBefore DEF SerialAt, LedAt
      <4>2. LedRoom(r)' \/ SeesTo("leavePoint", x)'
        <5>1. CASE u \notin Members(r)
          BY <1>0, <3>0, <4>1, <5>1, <2>6, <2>7 DEF LedRoom, Members
        <5>2. CASE u \in Members(r)
          <6>1. admin[r] \in everIn[r] => admin[r] \in ToSet(s) \/ x.leads
            BY <3>0, <4>1, <2>6 DEF LedRoom
          <6>. QED  BY <1>0, <2>2, <2>4, <2>7, <5>2, <6>1 DEF SeesTo, Members
        <5>. QED  BY <5>1, <5>2
      <4>3. \A q \in Rooms : q # r /\ LedRoom(q) => LedRoom(q)'
        BY <1>0, <2>7 DEF LedRoom, Members
      <4>. QED  BY <1>0, <2>4, <4>1, <4>2, <4>3 DEF LedAt
    <3>. QED  BY <3>1, <3>2, <3>3, <3>4 DEF SerialAt
  <2>12. SerialInv'
    BY <1>0, <2>5, <2>11, StepSerial
  <2>. QED  BY <2>8, <2>9, <2>12 DEF Inv
<1>. QED  BY <1>1, <1>2 DEF LeaveRemove

\* UPDATE rooms SET admin: the new leader is a member.
LEMMA LeaveAdminOK == ASSUME Inv, NEW p \in Procs, LeaveAdmin(p) PROVE Inv'
<1>0. /\ pc[p] = "leaveAdmin" /\ Return(p)
      /\ UNCHANGED <<row, rounds, nextRound, joined, active, everIn, overlapped, crashes>>
  BY DEF LeaveAdmin, At, StepFrame, Frame
<1>1. CASE Fails("update") /\ UNCHANGED admin
  <2>1. Still
    BY <1>0, <1>1, Busy, WorseIfFails DEF Still
  <2>2. ~ Without(LeaderFaults)'
    BY <1>0, <1>1, WorseIfFails DEF Without, LeaderFaults, GivesUp
  <2>3. ASSUME SerialAt(pc[p], req[p]), Without({"unpoint", "list"})'
        PROVE  \A u \in Users : active[u] # NoRoom => u \in Members(active[u])
    BY <1>0, <2>1, <2>3, WithoutBefore DEF Still, SerialAt, PointedAt
  <2>. QED  BY <1>0, <2>1, <2>2, <2>3, ReturnOK
<1>2. CASE /\ admin' = IF row[req[p].room] = "live" THEN [admin EXCEPT ![req[p].room] = req[p].heir] ELSE admin
           /\ UNCHANGED faults
  <2>1. PICK r \in Rooms, h \in Users \cup {NoUser} : r = req[p].room /\ h = req[p].heir
    BY <1>0, Busy DEF Reqs
  <2>2. admin \in [Rooms -> Users \cup {NoUser}]
    BY <1>0, Busy DEF OtherTypes, StoreTyped
  <2>3. admin' \in [Rooms -> Users \cup {NoUser}] /\ \A q \in Rooms : q # r => admin'[q] = admin[q]
    BY <1>2, <2>1, <2>2
  <2>4. Moves(p, "idle", Blank)
    BY <1>0, ReturnMoves
  <2>5. TypeOK' /\ MembersCame'
    BY <1>0, <1>2, <2>3, <2>4, Busy, MovesTyped DEF TypeOK, StoreTyped, MembersCame, Members
  <2>6. Worse
    BY <1>0, <1>2, WorseIfFails
  <2>7. ASSUME SerialAt(pc[p], req[p]) PROVE SerialAt("idle", Blank)'
    <3>0. row[r] = "live" /\ h \in Members(r)
      BY <1>0, <2>1, <2>7 DEF SerialAt, RoomThereAt, LeaveAt
    <3>1. RoomThereAt("idle", Blank)' /\ EmptyAt("idle", Blank)'
      BY <1>0, <2>7 DEF SerialAt, RoomThereAt, EmptyAt, JoinAt, LeaveAt
    <3>2. Without({"unpoint", "list"})' => PointedAt("idle", Blank)'
      BY <1>0, <2>6, <2>7, WithoutBefore DEF SerialAt, PointedAt, Members
    <3>3. ASSUME Without(LeaderFaults)' PROVE LedAt("idle", Blank)'
      <4>1. LedAt(pc[p], req[p])
        BY <2>6, <2>7, <3>3, WithoutBefore DEF SerialAt
      <4>2. \A q \in Rooms : row[q] = "live" /\ q # r => LedRoom(q)'
        BY <1>0, <2>1, <2>3, <4>1 DEF LedAt, LedRoom, Members
      <4>3. admin'[r] = h
        BY <1>2, <2>1, <2>2, <3>0
      <4>4. joined[r] # <<>>
        BY <1>0, <3>0, Busy, MembersTyped
      <4>5. LedRoom(r)'
        BY <1>0, <3>0, <4>3, <4>4 DEF LedRoom, Members
      <4>. QED  BY <1>0, <4>2, <4>5 DEF LedAt
    <3>. QED  BY <3>1, <3>2, <3>3 DEF SerialAt
  <2>8. SerialInv'
    BY <1>0, <2>4, <2>7, StepSerial
  <2>. QED  BY <2>5, <2>8 DEF Inv
<1>. QED  BY <1>1, <1>2 DEF LeaveAdmin

\* DEL of the sorted set: all of its members are on the list.
LEMMA DelKeyOK == ASSUME Inv, NEW p \in Procs, DelKey(p) PROVE Inv'
<1>0. /\ pc[p] = "delKey"
      /\ UNCHANGED <<row, admin, rounds, nextRound, active, everIn, overlapped, crashes>>
  BY DEF DelKey, At, StepFrame, Frame
<1>1. CASE Fails("drop") /\ Return(p) /\ UNCHANGED joined
  <2>1. Still
    BY <1>0, <1>1, Busy, WorseIfFails DEF Still
  <2>2. ~ Without(LeaderFaults)'
    BY <1>0, <1>1, WorseIfFails DEF Without, LeaderFaults, GivesUp
  <2>3. ASSUME SerialAt(pc[p], req[p]), Without({"unpoint", "list"})'
        PROVE  \A u \in Users : active[u] # NoRoom => u \in Members(active[u])
    BY <1>0, <2>1, <2>3, WithoutBefore DEF Still, SerialAt, PointedAt
  <2>. QED  BY <1>0, <1>1, <2>1, <2>2, <2>3, ReturnOK
<1>2. CASE joined' = [joined EXCEPT ![req[p].room] = <<>>] /\ Goto(p, "delPointers") /\ UNCHANGED faults
  <2>1. PICK r \in Rooms, x \in Reqs : r = req[p].room /\ x = req[p]
    BY <1>0, Busy
  <2>2. Moves(p, "delPointers", x)
    BY <1>0, <1>2, <2>1, Busy, GotoMoves DEF Labels, DeleteAt, JoinAt, LeaveAt
  <2>3. /\ joined' \in [Rooms -> Seq(Users)] /\ joined'[r] = <<>>
        /\ \A q \in Rooms : q # r => joined'[q] = joined[q]
    BY <1>0, <1>2, <2>1, Busy DEF OtherTypes, StoreTyped
  <2>4. ToSet(joined'[r]) = {}
    BY <2>3 DEF ToSet
  <2>5. TypeOK'
    BY <1>0, <1>2, <2>2, <2>3, Busy, MovesTyped DEF TypeOK, StoreTyped
  <2>6. MembersCame'
    <3>. SUFFICES ASSUME NEW q \in Rooms PROVE ToSet(joined'[q]) \subseteq everIn'[q]
      BY DEF MembersCame, Members
    <3>. QED  BY <1>0, <2>3, <2>4, Busy DEF MembersCame, Members
  <2>7. Worse
    BY <1>0, <1>2, WorseIfFails
  <2>8. ASSUME SerialAt(pc[p], req[p]) PROVE SerialAt("delPointers", x)'
    <3>1. RoomThereAt("delPointers", x)'
      BY DEF RoomThereAt, JoinAt, LeaveAt
    <3>2. EmptyAt("delPointers", x)'
      BY <1>0, <2>1, <2>3, <2>8 DEF SerialAt, EmptyAt
    <3>3. ASSUME Without({"unpoint", "list"})' PROVE PointedAt("delPointers", x)'
      <4>1. PointedAt(pc[p], req[p])
        BY <2>7, <2>8, <3>3, WithoutBefore DEF SerialAt
      <4>2. x.list = ToSet(joined[r])
        BY <1>0, <2>1, <4>1 DEF PointedAt, Members
      <4>3. active' \in [Users -> Rooms \cup {NoRoom}]
        BY <2>5 DEF TypeOK, StoreTyped
      <4>4. \A v \in Users : active'[v] # NoRoom => v \in ToSet(joined'[active'[v]]) \/ v \in x.list
        BY <1>0, <2>3, <4>1, <4>2, <4>3 DEF PointedAt, Members
      <4>. QED  BY <4>4 DEF PointedAt, Members
    <3>4. ASSUME Without(LeaderFaults)' PROVE LedAt("delPointers", x)'
      <4>1. LedAt(pc[p], req[p])
        BY <2>7, <2>8, <3>4, WithoutBefore DEF SerialAt
      <4>2. \A q \in Rooms : row[q] = "live" /\ q # r => LedRoom(q)'
        BY <1>0, <2>1, <2>3, <4>1 DEF LedAt, LedRoom, Members
      <4>3. SeesTo("delPointers", x)'
        BY DEF SeesTo, DeleteAt
      <4>. QED  BY <1>0, <2>1, <4>2, <4>3 DEF LedAt
    <3>. QED  BY <3>1, <3>2, <3>3, <3>4 DEF SerialAt
  <2>9. SerialInv'
    BY <1>0, <2>2, <2>8, StepSerial
  <2>. QED  BY <2>5, <2>6, <2>9 DEF Inv
<1>. QED  BY <1>1, <1>2 DEF DelKey

\* The room goes, without members.
LEMMA DelRowOK == ASSUME Inv, NEW p \in Procs, DelRow(p) PROVE Inv'
<1>0. /\ pc[p] = "delRow" /\ Return(p)
      /\ UNCHANGED <<admin, nextRound, joined, active, everIn, overlapped, crashes>>
  BY DEF DelRow, At, StepFrame, Frame
<1>1. CASE Fails("row") /\ UNCHANGED <<row, rounds>>
  <2>1. Still
    BY <1>0, <1>1, Busy, WorseIfFails DEF Still
  <2>2. ~ Without(LeaderFaults)'
    BY <1>0, <1>1, WorseIfFails DEF Without, LeaderFaults, GivesUp
  <2>3. ASSUME SerialAt(pc[p], req[p]), Without({"unpoint", "list"})'
        PROVE  \A u \in Users : active[u] # NoRoom => u \in Members(active[u])
    BY <1>0, <2>1, <2>3, WithoutBefore DEF Still, SerialAt, PointedAt
  <2>. QED  BY <1>0, <2>1, <2>2, <2>3, ReturnOK
<1>2. CASE /\ row' = [row EXCEPT ![req[p].room] = "deleted"]
           /\ rounds' = [rounds EXCEPT ![req[p].room] = {}] /\ UNCHANGED faults
  <2>1. PICK r \in Rooms : r = req[p].room
    BY <1>0, Busy
  <2>2. /\ row' \in [Rooms -> {"none", "live", "deleted"}] /\ row'[r] = "deleted"
        /\ \A q \in Rooms : q # r => row'[q] = row[q]
    BY <1>0, <1>2, <2>1, Busy DEF OtherTypes, StoreTyped
  <2>3. rounds' \in [Rooms -> SUBSET Nat]
    BY <1>0, <1>2, <2>1, Busy
  <2>4. Moves(p, "idle", Blank)
    BY <1>0, ReturnMoves
  <2>5. TypeOK' /\ MembersCame'
    BY <1>0, <1>2, <2>2, <2>3, <2>4, Busy, MovesTyped DEF TypeOK, StoreTyped, MembersCame, Members
  <2>6. Worse
    BY <1>0, <1>2, WorseIfFails
  <2>7. ASSUME SerialAt(pc[p], req[p]) PROVE SerialAt("idle", Blank)'
    <3>1. RoomThereAt("idle", Blank)'
      BY DEF RoomThereAt, JoinAt, LeaveAt
    <3>2. EmptyAt("idle", Blank)'
      BY <1>0, <2>1, <2>2, <2>7 DEF SerialAt, EmptyAt
    <3>3. Without({"unpoint", "list"})' => PointedAt("idle", Blank)'
      BY <1>0, <2>6, <2>7, WithoutBefore DEF SerialAt, PointedAt, Members
    <3>4. ASSUME Without(LeaderFaults)' PROVE LedAt("idle", Blank)'
      <4>1. LedAt(pc[p], req[p])
        BY <2>6, <2>7, <3>4, WithoutBefore DEF SerialAt
      <4>. QED  BY <1>0, <2>1, <2>2, <4>1 DEF LedAt, LedRoom, Members
    <3>. QED  BY <3>1, <3>2, <3>3, <3>4 DEF SerialAt
  <2>8. SerialInv'
    BY <1>0, <2>4, <2>7, StepSerial
  <2>. QED  BY <2>5, <2>8 DEF Inv
<1>. QED  BY <1>1, <1>2 DEF DelRow

----------------------------------------------------------------------------
(* What happens whoever is busy.                                           *)

\* A new room: nobody has been in it.
LEMMA CreateRoomOK ==
  ASSUME Inv, NEW r \in Rooms, NEW u \in Users, NEW ttl \in BOOLEAN, CreateRoom(r, u, ttl)
  PROVE  Inv'
<1>0. /\ row[r] = "none" /\ row' = [row EXCEPT ![r] = "live"] /\ admin' = [admin EXCEPT ![r] = u]
      /\ UNCHANGED <<rounds, nextRound, joined, active, pc, req, crashes, everIn, overlapped>>
  BY DEF CreateRoom
<1>f. faults \subseteq faults' /\ faults' \subseteq FaultKinds
  BY FailsTyped DEF CreateRoom, Inv, TypeOK
<1>w. \A K : Without(K)' => Without(K)
  BY <1>0, <1>f DEF Without
<1>1. /\ row' \in [Rooms -> {"none", "live", "deleted"}] /\ row'[r] = "live"
      /\ \A q \in Rooms : q # r => row'[q] = row[q]
  BY <1>0 DEF Inv, TypeOK, StoreTyped
<1>2. admin' \in [Rooms -> Users \cup {NoUser}] /\ \A q \in Rooms : q # r => admin'[q] = admin[q]
  BY <1>0 DEF Inv, TypeOK, StoreTyped
<1>3. TypeOK' /\ MembersCame'
  BY <1>0, <1>1, <1>2, <1>f DEF Inv, TypeOK, StoreTyped, ProcsTyped, MembersCame, Members
<1>4. ASSUME ~ overlapped
      PROVE  /\ Alone' /\ RoomThere' /\ GoneIsEmpty'
             /\ Without({"unpoint", "list"})' => Pointed'
             /\ Without(LeaderFaults)' => Led'
  <2>0. /\ Alone /\ RoomThere /\ GoneIsEmpty
        /\ Without({"unpoint", "list"}) => Pointed
        /\ Without(LeaderFaults) => Led
        /\ everIn[r] = {}
    BY <1>0, <1>4 DEF Inv, SerialInv, GoneIsEmpty
  <2>1. Alone'
    BY <1>0, <2>0 DEF Alone
  <2>2. RoomThere'
    <3>. SUFFICES ASSUME NEW p \in Procs
                  PROVE  /\ pc[p] \in JoinAt \cup LeaveAt => row'[req[p].room] = "live"
                         /\ pc[p] \in LeaveAt => (req[p].leads <=> admin'[req[p].room] = req[p].user)
                         /\ pc[p] = "leaveAdmin" => req[p].heir \in ToSet(joined[req[p].room])
      BY <1>0 DEF RoomThere, Members
    <3>1. pc[p] \in JoinAt \cup LeaveAt => req[p].room \in Rooms /\ row[req[p].room] = "live"
      BY <2>0 DEF RoomThere, Inv, TypeOK, ProcsTyped, JoinAt, LeaveAt
    <3>2. pc[p] \in JoinAt \cup LeaveAt => req[p].room # r
      BY <1>0, <3>1
    <3>. QED  BY <1>1, <1>2, <2>0, <3>1, <3>2 DEF RoomThere, Members
  <2>3. GoneIsEmpty'
    BY <1>0, <1>1, <2>0 DEF GoneIsEmpty
  <2>4. Without({"unpoint", "list"})' => Pointed'
    BY <1>0, <1>w, <2>0 DEF Pointed, Members
  <2>5. ASSUME Without(LeaderFaults)' PROVE Led'
    <3>1. Led
      BY <1>w, <2>0, <2>5
    <3>2. SUFFICES ASSUME NEW q \in Rooms, row'[q] = "live"
                   PROVE  LedRoom(q)' \/ \E p \in Procs : req'[p].room = q /\ SeesTo(pc[p], req[p])'
      BY DEF Led
    <3>3. CASE q = r
      BY <1>0, <2>0, <3>3 DEF LedRoom
    <3>4. CASE q # r /\ LedRoom(q)
      BY <1>0, <1>2, <3>4 DEF LedRoom, Members
    <3>5. ASSUME q # r, NEW p \in Procs, req[p].room = q, SeesTo(pc[p], req[p])
          PROVE  req'[p].room = q /\ SeesTo(pc[p], req[p])'
      BY <1>0, <1>2, <3>5 DEF SeesTo, Members
    <3>. QED  BY <1>1, <3>1, <3>2, <3>3, <3>4, <3>5 DEF Led
  <2>. QED  BY <2>1, <2>2, <2>3, <2>4, <2>5
<1>5. SerialInv'
  BY <1>0, <1>4 DEF SerialInv
<1>. QED  BY <1>3, <1>5 DEF Inv

LEMMA JoinFindOK ==
  ASSUME Inv, NEW p \in Procs, NEW r \in Rooms, NEW u \in Users, JoinFind(p, r, u)
  PROVE  Inv'
<1>1. PICK x \in Reqs : x = [Blank EXCEPT !.room = r, !.user = u]
  BY DEF Blank, Reqs
<1>2. x.room = r /\ x.user = u
  BY <1>1 DEF Blank
<1>3. Begin(p, r, "joinAdd", x) /\ UNCHANGED <<store, faults, crashes, everIn>>
  BY <1>1 DEF JoinFind, Frame
<1>. QED  BY <1>2, <1>3, BeginOK

LEMMA LeaveFindOK ==
  ASSUME Inv, NEW p \in Procs, NEW r \in Rooms, NEW u \in Users, LeaveFind(p, r, u)
  PROVE  Inv'
<1>1. PICK b \in BOOLEAN : b = (admin[r] = u)
  <2>1. (admin[r] = u) \in BOOLEAN
    OBVIOUS
  <2>. QED  BY <2>1, Zenon
<1>2. rounds[r] \in SUBSET Nat
  BY DEF Inv, TypeOK, StoreTyped
<1>3. PICK x \in Reqs : x = [Blank EXCEPT !.room = r, !.user = u, !.leads = b, !.seen = rounds[r]]
  BY <1>2 DEF Blank, Reqs
<1>4. x.room = r /\ x.user = u /\ x.leads = b
  BY <1>3 DEF Blank
<1>5. Begin(p, r, "leaveRemove", x) /\ UNCHANGED <<store, faults, crashes, everIn>>
  BY <1>1, <1>3 DEF LeaveFind, Frame
<1>6. x.leads <=> admin[r] = x.user
  <2>1. b <=> admin[r] = u
    BY <1>1, Zenon
  <2>2. x.leads = b /\ x.user = u
    BY <1>4
  <2>3. CASE b = TRUE
    <3>1. x.leads = TRUE /\ admin[r] = u
      BY <2>1, <2>2, <2>3
    <3>. QED  BY <2>2, <3>1
  <2>4. CASE b = FALSE
    <3>1. x.leads = FALSE /\ admin[r] # u
      BY <2>1, <2>2, <2>4
    <3>. QED  BY <2>2, <3>1
  <2>. QED  BY <2>3, <2>4
<1>. QED  BY <1>4, <1>5, <1>6, BeginOK

LEMMA RoundFindOK ==
  ASSUME Inv, NEW p \in Procs, NEW r \in Rooms, RoundFind(p, r)
  PROVE  Inv'
<1>1. rounds[r] \in SUBSET Nat
  BY DEF Inv, TypeOK, StoreTyped
<1>2. PICK x \in Reqs : x = [Blank EXCEPT !.room = r, !.seen = rounds[r]]
  BY <1>1 DEF Blank, Reqs
<1>3. x.room = r
  BY <1>2 DEF Blank
<1>4. Begin(p, r, "roundInsert", x) /\ UNCHANGED <<store, faults, crashes, everIn>>
  BY <1>2 DEF RoundFind, Frame
<1>. QED  BY <1>3, <1>4, BeginOK

\* A step that leaves alone what the invariant speaks of.
LEMMA NothingHappens ==
  ASSUME Inv, Worse, UNCHANGED <<row, admin, rounds, nextRound, joined, active, pc, req, everIn, overlapped>>
  PROVE  Inv'
<1>1. TypeOK' /\ MembersCame'
  BY DEF Inv, TypeOK, StoreTyped, ProcsTyped, MembersCame, Members, Worse
<1>2. Alone' = Alone /\ RoomThere' = RoomThere /\ GoneIsEmpty' = GoneIsEmpty
  BY DEF Alone, RoomThere, GoneIsEmpty, Members
<1>3. Pointed' = Pointed /\ Led' = Led
  BY DEF Pointed, Led, LedRoom, SeesTo, Members
<1>4. SerialInv'
  BY <1>2, <1>3, WithoutBefore DEF Inv, SerialInv
<1>. QED  BY <1>1, <1>4 DEF Inv

LEMMA ExpireOK == ASSUME Inv, NEW r \in Rooms, Expire(r) PROVE Inv'
<1>0. UNCHANGED <<store, crashes, everIn>> /\ r \in Procs
  BY DEF Expire, Frame, Procs
<1>1. CASE UNCHANGED <<pc, req, overlapped>> /\ (UNCHANGED faults \/ Fails("find"))
  BY <1>0, <1>1, NothingHappens, WorseIfFails DEF store
<1>2. CASE /\ Begin(r, r, "delList", [Blank EXCEPT !.room = r, !.seen = rounds[r]])
           /\ UNCHANGED faults
  <2>1. rounds[r] \in SUBSET Nat
    BY DEF Inv, TypeOK, StoreTyped
  <2>2. PICK x \in Reqs : x = [Blank EXCEPT !.room = r, !.seen = rounds[r]]
    BY <2>1 DEF Blank, Reqs
  <2>3. x.room = r
    BY <2>2 DEF Blank
  <2>. QED  BY <1>0, <1>2, <2>2, <2>3, BeginOK
<1>. QED  BY <1>1, <1>2 DEF Expire

LEMMA CrashOK == ASSUME Inv, Crash PROVE Inv'
<1>0. /\ UNCHANGED <<row, admin, rounds, nextRound, joined, active, faults, everIn, overlapped>>
      /\ crashes' = crashes + 1
      /\ pc' = [p \in Procs |-> "idle"] /\ req' = [p \in Procs |-> Blank]
  BY DEF Crash, store, history
<1>1. crashes' \in Nat /\ crashes' # 0
  BY <1>0 DEF Inv, TypeOK
<1>2. ProcsTyped'
  BY <1>0, BlankOK DEF ProcsTyped, Labels, JoinAt, LeaveAt
<1>3. TypeOK' /\ MembersCame'
  BY <1>0, <1>1, <1>2 DEF Inv, TypeOK, StoreTyped, MembersCame, Members
<1>4. Alone' /\ RoomThere'
  BY <1>0 DEF Alone, RoomThere, JoinAt, LeaveAt
<1>5. ~ overlapped => GoneIsEmpty'
  BY <1>0 DEF Inv, SerialInv, GoneIsEmpty
<1>6. SerialInv'
  BY <1>0, <1>1, <1>4, <1>5 DEF SerialInv, Without
<1>. QED  BY <1>3, <1>6 DEF Inv

----------------------------------------------------------------------------
\* One step, of whomever.
LEMMA HandlerKeeps ==
  ASSUME Inv, NEW p \in Procs, Request(p) \/ HandlerStep(p) \/ DeleteStep(p)
  PROVE  Inv'
<1>1. CASE Request(p)
  BY <1>1, RoundFindOK, JoinFindOK, LeaveFindOK DEF Request
<1>2. CASE HandlerStep(p)
  BY <1>2, JoinAddOK, JoinPointOK, JoinTellOK, LeaveRemoveOK, LeavePointOK, LeaveTellOK, LeaveCheckOK,
     LeavePickOK, LeaveAdminOK, RoundInsertOK, RoundFillOK DEF HandlerStep
<1>3. CASE DeleteStep(p)
  BY <1>3, DelListOK, DelKeyOK, DelPointerOK, DelRoundsOK, DelRowOK DEF DeleteStep
<1>. QED  BY <1>1, <1>2, <1>3

LEMMA StepKeeps == Inv /\ [Next]_vars => Inv'
<1>. SUFFICES ASSUME Inv, [Next]_vars PROVE Inv'
  OBVIOUS
<1>1. CASE UNCHANGED vars
  BY <1>1, NothingHappens, WorseIfFails DEF vars, store, history
<1>2. ASSUME NEW r \in Rooms, NEW u \in Users, NEW ttl \in BOOLEAN, CreateRoom(r, u, ttl) PROVE Inv'
  BY <1>2, CreateRoomOK
<1>3. ASSUME NEW h \in Handlers, Request(h) \/ HandlerStep(h) PROVE Inv'
  BY <1>3, HandlerKeeps DEF Procs
<1>4. ASSUME NEW r \in Rooms, Expire(r) PROVE Inv'
  BY <1>4, ExpireOK
<1>5. ASSUME NEW p \in Procs, DeleteStep(p) PROVE Inv'
  BY <1>5, HandlerKeeps
<1>6. CASE Crash
  BY <1>6, CrashOK
<1>. QED  BY <1>1, <1>2, <1>3, <1>4, <1>5, <1>6 DEF Next

LEMMA InitGood == Init => Inv
<1>. SUFFICES ASSUME Init PROVE Inv
  OBVIOUS
<1>1. StoreTyped
  <2>1. <<>> \in Seq(Users) /\ 1 \in Nat
    OBVIOUS
  <2>. QED  BY <2>1 DEF Init, StoreTyped
<1>2. ProcsTyped
  BY BlankOK DEF Init, ProcsTyped, Labels, JoinAt, LeaveAt
<1>3. TypeOK
  BY <1>1, <1>2 DEF Init, TypeOK
<1>4. MembersCame
  BY DEF Init, MembersCame, Members, ToSet
<1>5. Alone /\ RoomThere /\ GoneIsEmpty
  BY DEF Init, Alone, RoomThere, GoneIsEmpty, JoinAt, LeaveAt
<1>6. Pointed /\ Led
  BY DEF Init, Pointed, Led, LedRoom
<1>. QED  BY <1>3, <1>4, <1>5, <1>6 DEF Inv, SerialInv

\* The inductive invariant of the room handlers, whatever is created, requested, expires,
\* fails or crashes.
THEOREM RoomInvariant == Spec => []Inv
<1>. QED  BY InitGood, StepKeeps, PTL DEF Spec

\* With one request at a time, and no lost DEL or ZRANGE, every active_room pointer names
\* a room its user is a member of, and a room that is gone has no members.
THEOREM PointersAreSound == Spec => []PointersSound
<1>1. Inv => PointersSound
  <2>. SUFFICES ASSUME Inv, Quiet, ~ overlapped, Without({"unpoint", "list"})
                PROVE  /\ \A u \in Users : active[u] # NoRoom => u \in Members(active[u])
                       /\ \A r \in Rooms : row[r] # "live" => joined[r] = <<>>
    BY DEF PointersSound, Serial
  <2>1. Pointed /\ GoneIsEmpty
    BY DEF Inv, SerialInv
  <2>. QED  BY <2>1 DEF Pointed, GoneIsEmpty, Quiet, At
<1>. QED  BY <1>1, RoomInvariant, PTL

\* With one request at a time, and no failure after which LeaveRoom gives up, a room with
\* members is led by one of them, once its leader has come.
THEOREM LeaderIsPresent == Spec => []LeaderPresent
<1>1. Inv => LeaderPresent
  <2>. SUFFICES ASSUME Inv, Quiet, ~ overlapped, Without(GivesUp \cup {"pick", "update"}),
                       NEW r \in Rooms, row[r] = "live", joined[r] # <<>>, admin[r] \in everIn[r]
                PROVE  admin[r] \in Members(r)
    BY DEF LeaderPresent, Serial
  <2>1. Led
    BY DEF Inv, SerialInv, LeaderFaults
  <2>2. LedRoom(r)
    BY <2>1, Resting DEF Led, Quiet, At
  <2>. QED  BY <2>2 DEF LedRoom
<1>. QED  BY <1>1, RoomInvariant, PTL

====
