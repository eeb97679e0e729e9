----------------------- MODULE SubmissionPipelineProofs -----------------------
(***************************************************************************)
(* Type correctness and durability of the submission pipeline, the bound   *)
(* and the order of its payments, for every number of handlers, users,     *)
(* problems, rounds, crashes and faults; and that it implements the points *)
(* ledger when no message is delivered twice.                              *)
(***************************************************************************)
EXTENDS SubmissionPipeline, WellFoundedInduction, FiniteSetTheorems, TLAPS

-----------------------------------------------------------------------------
(* What the commands on a Redis list do to the set of its members.          *)

\* Appending adds exactly the new element (RPUSH).
LEMMA AppendToSet ==
  ASSUME NEW M, NEW s \in Seq(M), NEW m \in M
  PROVE  /\ Append(s, m) \in Seq(M)
         /\ ToSet(Append(s, m)) = ToSet(s) \cup {m}
<1> DEFINE t == Append(s, m)
           n == Len(s)
<1>1. /\ t \in Seq(M) /\ Len(t) = n + 1 /\ n \in Nat
      /\ DOMAIN t = 1 .. n + 1 /\ DOMAIN s = 1 .. n
      /\ t[n + 1] = m /\ \A i \in 1 .. n : t[i] = s[i]
  OBVIOUS
<1>2. ASSUME NEW x \in ToSet(t) PROVE x \in ToSet(s) \cup {m}
  <2>1. PICK i \in 1 .. n + 1 : x = t[i]
    BY <1>1 DEF ToSet
  <2>2. i \in 1 .. n \/ i = n + 1
    BY <1>1
  <2> QED BY <1>1, <2>1, <2>2 DEF ToSet
<1>3. ASSUME NEW x \in ToSet(s) PROVE x \in ToSet(t)
  <2>1. PICK i \in 1 .. n : x = s[i]
    BY <1>1 DEF ToSet
  <2>2. i \in 1 .. n + 1 /\ x = t[i]
    BY <1>1, <2>1
  <2> QED BY <1>1, <2>2 DEF ToSet
<1>4. m \in ToSet(t)
  BY <1>1 DEF ToSet
<1> QED BY <1>1, <1>2, <1>3, <1>4

\* Splitting off the head loses nothing else (LMOVE and BLMOVE).
LEMMA HeadTailToSet ==
  ASSUME NEW M, NEW s \in Seq(M), s # <<>>
  PROVE  /\ Head(s) \in M
         /\ Tail(s) \in Seq(M)
         /\ ToSet(s) = ToSet(Tail(s)) \cup {Head(s)}
<1>1. Head(s) \in M /\ Tail(s) \in Seq(M) /\ Len(s) >= 1 /\ Len(Tail(s)) = Len(s) - 1
  OBVIOUS
<1>2. \A i \in 1 .. Len(s) - 1 : Tail(s)[i] = s[i + 1]
  OBVIOUS
<1>3. ASSUME NEW x \in ToSet(s) PROVE x \in ToSet(Tail(s)) \cup {Head(s)}
  <2>1. PICK i \in 1 .. Len(s) : x = s[i]
    BY DEF ToSet
  <2>2. CASE i = 1
    BY <2>1, <2>2
  <2>3. CASE i # 1
    <3>1. i - 1 \in 1 .. Len(s) - 1 /\ Tail(s)[i - 1] = s[i]
      BY <2>3, <1>2
    <3>2. i - 1 \in DOMAIN Tail(s)
      BY <1>1, <3>1
    <3> QED BY <2>1, <3>1, <3>2 DEF ToSet
  <2> QED BY <2>2, <2>3
<1>4. ASSUME NEW x \in ToSet(Tail(s)) PROVE x \in ToSet(s)
  <2>1. PICK i \in 1 .. Len(s) - 1 : x = Tail(s)[i]
    BY <1>1 DEF ToSet
  <2> QED BY <2>1, <1>2, <1>1 DEF ToSet
<1>5. Head(s) \in ToSet(s)
  BY <1>1 DEF ToSet
<1> QED BY <1>1, <1>3, <1>4, <1>5

\* A non-empty set of numbers has the minimum Min chooses.
LEMMA MinExists ==
  ASSUME NEW I, I \subseteq Nat, I # {}
  PROVE  Min(I) \in I
<1>1. \E x \in I : \A y \in I : ~ (<<y, x>> \in OpToRel(<, Nat))
  BY NatLessThanWellFounded, WFMin
<1>2. PICK x \in I : \A y \in I : ~ (<<y, x>> \in OpToRel(<, Nat))
  BY <1>1
<1>3. \A y \in I : ~ (y < x)
  <2>1. \A a, b \in Nat : a < b => <<a, b>> \in {ss \in Nat \X Nat : ss[1] < ss[2]}
    OBVIOUS
  <2>2. OpToRel(<, Nat) = {ss \in Nat \X Nat : ss[1] < ss[2]}
    BY Zenon DEF OpToRel
  <2> QED BY <1>2, <2>1, <2>2, Zenon
<1>4. \A y \in I : x =< y
  BY <1>3
<1> QED BY <1>2, <1>4 DEF Min

\* The list r is s without its k-th element.
Without(s, r, k) ==
    /\ Len(r) = Len(s) - 1
    /\ \A j \in 1 .. k - 1 : r[j] = s[j]
    /\ \A j \in k .. Len(s) - 1 : r[j] = s[j + 1]

\* LREM 1 takes out one occurrence of its argument.
LEMMA RemoveFirstShape ==
  ASSUME NEW M, NEW s \in Seq(M), NEW m \in ToSet(s)
  PROVE  /\ RemoveFirst(s, m) \in Seq(M)
         /\ \E k \in 1 .. Len(s) : s[k] = m /\ Without(s, RemoveFirst(s, m), k)
<1> DEFINE n == Len(s)
           I == {i \in 1 .. n : s[i] = m}
           k == Min(I)
           r == RemoveAt(s, k)
<1>0. \E i \in 1 .. n : s[i] = m
  BY DEF ToSet
<1>1. RemoveFirst(s, m) = r
  BY <1>0 DEF RemoveFirst, SelectInSeq
<1>2. k \in 1 .. n /\ s[k] = m /\ n \in Nat
  <2>1. I # {} /\ I \subseteq Nat
    BY <1>0
  <2>2. k \in I
    BY <2>1, MinExists
  <2> QED BY <2>2
<1> HIDE DEF k, I
<1>3. /\ r \in Seq(M) /\ Len(r) = n - 1
      /\ \A i \in 1 .. k - 1 : r[i] = s[i]
      /\ \A i \in k .. n - 1 : r[i] = s[i + 1]
  <2> DEFINE a == SubSeq(s, 1, k - 1)
             b == SubSeq(s, k + 1, n)
  <2>1. /\ a \in Seq(M) /\ Len(a) = k - 1
        /\ \A i \in 1 .. k - 1 : a[i] = s[i]
    BY <1>2
  <2>2. /\ b \in Seq(M) /\ Len(b) = n - k
        /\ \A i \in 1 .. n - k : b[i] = s[k + i]
    BY <1>2
  <2>3. r = a \o b
    BY DEF RemoveAt
  <2> HIDE DEF a, b, r
  <2>4. /\ r \in Seq(M) /\ Len(r) = n - 1
        /\ \A i \in 1 .. k - 1 : r[i] = a[i]
    <3>1. r \in Seq(M)
      BY <2>1, <2>2, <2>3
    <3>2. Len(r) = (k - 1) + (n - k)
      BY <2>1, <2>2, <2>3
    <3>3. (k - 1) + (n - k) = n - 1
      BY <1>2
    <3>4. \A i \in 1 .. Len(a) : r[i] = a[i]
      BY <2>1, <2>2, <2>3
    <3> QED BY <3>1, <3>2, <3>3, <3>4, <2>1
  <2>5. ASSUME NEW i \in k .. n - 1 PROVE r[i] = s[i + 1]
    <3>1. r[i] = b[i - (k - 1)]
      BY <2>1, <2>2, <2>3, <1>2
    <3>2. i - (k - 1) \in 1 .. n - k /\ k + (i - (k - 1)) = i + 1
      BY <1>2
    <3> QED BY <3>1, <3>2, <2>2
  <2> QED BY <2>1, <2>4, <2>5
<1> QED BY <1>1, <1>2, <1>3 DEF Without

\* LREM 1 removes nothing but (one occurrence of) its argument.
LEMMA RemoveFirstToSet ==
  ASSUME NEW M, NEW s \in Seq(M), NEW m
  PROVE  /\ RemoveFirst(s, m) \in Seq(M)
         /\ ToSet(s) \subseteq ToSet(RemoveFirst(s, m)) \cup {m}
         /\ ToSet(RemoveFirst(s, m)) \subseteq ToSet(s)
<1>1. CASE ~ m \in ToSet(s)
  <2>1. ~ \E i \in 1 .. Len(s) : s[i] = m
    BY <1>1 DEF ToSet
  <2> QED BY <2>1 DEF RemoveFirst
<1>2. CASE m \in ToSet(s)
  <2> DEFINE n == Len(s)
             r == RemoveFirst(s, m)
  <2>1. r \in Seq(M) /\ \E k \in 1 .. n : s[k] = m /\ Without(s, r, k)
    BY <1>2, RemoveFirstShape
  <2>2. PICK k \in 1 .. n : s[k] = m /\ Without(s, r, k)
    BY <2>1
  <2>3. /\ n \in Nat /\ Len(r) = n - 1
        /\ \A i \in 1 .. k - 1 : r[i] = s[i]
        /\ \A i \in k .. n - 1 : r[i] = s[i + 1]
    BY <2>2 DEF Without
  <2>4. DOMAIN r = 1 .. n - 1 /\ DOMAIN s = 1 .. n
    BY <2>1, <2>3
  <2> HIDE DEF r
  <2>5. ASSUME NEW x \in ToSet(s), x # m PROVE x \in ToSet(r)
    <3>1. PICK i \in 1 .. n : x = s[i]
      BY <2>4 DEF ToSet
    <3>2. i # k
      BY <3>1, <2>5, <2>2
    <3>3. CASE i < k
      <4>1. i \in 1 .. n - 1 /\ r[i] = s[i]
        BY <3>3, <2>2, <2>3
      <4> QED BY <4>1, <3>1, <2>4 DEF ToSet
    <3>4. CASE i > k
      <4>1. i - 1 \in k .. n - 1 /\ r[i - 1] = s[i]
        BY <3>4, <2>2, <2>3
      <4> QED BY <4>1, <3>1, <2>2, <2>4 DEF ToSet
    <3> QED BY <3>2, <3>3, <3>4, <2>2
  <2>6. ASSUME NEW x \in ToSet(r) PROVE x \in ToSet(s)
    <3>1. PICK i \in 1 .. n - 1 : x = r[i]
      BY <2>4 DEF ToSet
    <3>2. i \in 1 .. k - 1 \/ i \in k .. n - 1
      BY <2>2, <2>3
    <3>3. x = s[i] \/ x = s[i + 1]
      BY <3>1, <3>2, <2>3
    <3>4. i \in 1 .. n /\ i + 1 \in 1 .. n
      BY <2>3
    <3> QED BY <3>3, <3>4, <2>4 DEF ToSet
  <2> QED BY <2>1, <2>5, <2>6 DEF r
<1> QED BY <1>1, <1>2

-----------------------------------------------------------------------------
(* What each operation of the reliable queue keeps, adds and removes.       *)

\* Publish adds the message and nothing else.
LEMMA PublishHeld ==
  ASSUME NEW M, NEW q \in QueueOf(M), NEW m \in M
  PROVE  /\ Publish(q, m) \in QueueOf(M)
         /\ Held(Publish(q, m)) = Held(q) \cup {m}
         /\ Publish(q, m).processing = q.processing
<1>1. q.main \in Seq(M) /\ q.processing \in Seq(M)
  BY DEF QueueOf
<1>2. Append(q.main, m) \in Seq(M) /\ ToSet(Append(q.main, m)) = ToSet(q.main) \cup {m}
  BY <1>1, AppendToSet
<1> QED BY <1>1, <1>2 DEF QueueOf, Publish, Held

\* Consume parks the message it hands out; the queue holds what it held.
LEMMA ConsumeHeld ==
  ASSUME NEW M, NEW q \in QueueOf(M), q.main # <<>>
  PROVE  /\ NextOut(q) \in M
         /\ Consume(q) \in QueueOf(M)
         /\ Held(Consume(q)) = Held(q)
         /\ ToSet(Consume(q).processing) = ToSet(q.processing) \cup {NextOut(q)}
<1>1. q.main \in Seq(M) /\ q.processing \in Seq(M)
  BY DEF QueueOf
<1>2. /\ Head(q.main) \in M /\ Tail(q.main) \in Seq(M)
      /\ ToSet(q.main) = ToSet(Tail(q.main)) \cup {Head(q.main)}
  BY <1>1, HeadTailToSet
<1>3. /\ Append(q.processing, Head(q.main)) \in Seq(M)
      /\ ToSet(Append(q.processing, Head(q.main))) = ToSet(q.processing) \cup {Head(q.main)}
  BY <1>1, <1>2, AppendToSet
<1> QED BY <1>2, <1>3 DEF QueueOf, Consume, NextOut, Held

\* Ack takes nothing away but the message it is given.
LEMMA AckHeld ==
  ASSUME NEW M, NEW q \in QueueOf(M), NEW m
  PROVE  /\ Ack(q, m) \in QueueOf(M)
         /\ Held(q) \subseteq Held(Ack(q, m)) \cup {m}
         /\ Held(Ack(q, m)) \subseteq Held(q)
<1>1. q.main \in Seq(M) /\ q.processing \in Seq(M)
  BY DEF QueueOf
<1>2. /\ RemoveFirst(q.processing, m) \in Seq(M)
      /\ ToSet(q.processing) \subseteq ToSet(RemoveFirst(q.processing, m)) \cup {m}
      /\ ToSet(RemoveFirst(q.processing, m)) \subseteq ToSet(q.processing)
  BY <1>1, RemoveFirstToSet
<1> QED BY <1>1, <1>2 DEF QueueOf, Ack, Held

\* Requeue keeps everything, the message it is given included.
LEMMA RequeueHeld ==
  ASSUME NEW M, NEW q \in QueueOf(M), NEW m \in M
  PROVE  /\ Requeue(q, m) \in QueueOf(M)
         /\ Held(Requeue(q, m)) = Held(q) \cup {m}
<1>1. q.main \in Seq(M) /\ q.processing \in Seq(M)
  BY DEF QueueOf
<1>2. /\ RemoveFirst(q.processing, m) \in Seq(M)
      /\ ToSet(q.processing) \subseteq ToSet(RemoveFirst(q.processing, m)) \cup {m}
      /\ ToSet(RemoveFirst(q.processing, m)) \subseteq ToSet(q.processing)
  BY <1>1, RemoveFirstToSet
<1>3. Append(q.main, m) \in Seq(M) /\ ToSet(Append(q.main, m)) = ToSet(q.main) \cup {m}
  BY <1>1, AppendToSet
<1> QED BY <1>2, <1>3 DEF QueueOf, Requeue, Held

\* A turn of the Recover loop keeps everything.
LEMMA RecoverOneHeld ==
  ASSUME NEW M, NEW q \in QueueOf(M), q.processing # <<>>
  PROVE  /\ RecoverOne(q) \in QueueOf(M)
         /\ Held(RecoverOne(q)) = Held(q)
<1>1. q.main \in Seq(M) /\ q.processing \in Seq(M)
  BY DEF QueueOf
<1>2. /\ Head(q.processing) \in M /\ Tail(q.processing) \in Seq(M)
      /\ ToSet(q.processing) = ToSet(Tail(q.processing)) \cup {Head(q.processing)}
  BY <1>1, HeadTailToSet
<1>3. /\ Append(q.main, Head(q.processing)) \in Seq(M)
      /\ ToSet(Append(q.main, Head(q.processing))) = ToSet(q.main) \cup {Head(q.processing)}
  BY <1>1, <1>2, AppendToSet
<1> QED BY <1>2, <1>3 DEF QueueOf, RecoverOne, Held

-----------------------------------------------------------------------------
(* How many copies of a message the queue operations add or take away.      *)

One(c) == IF c THEN 1 ELSE 0

\* How often the id i is in the list s, and in the queue q.
Copies(i, s) == Cardinality({k \in DOMAIN s : s[k].id = i})
QCopies(i, q) == Copies(i, q.main) + Copies(i, q.processing)

LEMMA CopiesType ==
  ASSUME NEW M, NEW s \in Seq(M), NEW i
  PROVE  /\ IsFiniteSet({k \in DOMAIN s : s[k].id = i})
         /\ Copies(i, s) \in Nat
<1>1. IsFiniteSet(1 .. Len(s))
  BY FS_Interval
<1>2. {k \in DOMAIN s : s[k].id = i} \in SUBSET (1 .. Len(s))
  OBVIOUS
<1>3. IsFiniteSet({k \in DOMAIN s : s[k].id = i})
  BY <1>1, <1>2, FS_Subset
<1> QED BY <1>3, FS_CardinalityType DEF Copies

\* Taking one element out of a list takes one copy away, of the id of that element.
LEMMA CopiesWithout ==
  ASSUME NEW M, NEW s \in Seq(M), NEW r \in Seq(M), NEW k \in 1 .. Len(s), Without(s, r, k), NEW i
  PROVE  Copies(i, s) = Copies(i, r) + One(s[k].id = i)
<1> DEFINE S == {j \in DOMAIN s : s[j].id = i}
           R == {j \in DOMAIN r : r[j].id = i}
           f == [j \in R |-> IF j < k THEN j ELSE j + 1]
<1>1. /\ Len(s) \in Nat /\ k \in Nat /\ Len(r) = Len(s) - 1
      /\ DOMAIN s = 1 .. Len(s) /\ DOMAIN r = 1 .. Len(r)
      /\ \A j \in DOMAIN r : j < k => r[j] = s[j]
      /\ \A j \in DOMAIN r : j >= k => r[j] = s[j + 1]
  BY DEF Without
<1>2. \A j \in R : j \in Nat /\ f[j] \in S \ {k}
  BY <1>1
<1>3. \A a, b \in R : f[a] = f[b] => a = b
  BY <1>1
<1>4. ASSUME NEW t \in S \ {k} PROVE \E j \in R : f[j] = t
  <2>1. t \in 1 .. Len(s) /\ s[t].id = i /\ t # k
    BY <1>1
  <2>2. CASE t < k
    <3>1. t \in R
      BY <1>1, <2>1, <2>2
    <3> QED BY <3>1, <2>2
  <2>3. CASE t > k
    <3>1. t - 1 \in DOMAIN r /\ t - 1 >= k /\ (t - 1) + 1 = t
      BY <1>1, <2>1, <2>3
    <3>2. t - 1 \in R
      BY <1>1, <2>1, <3>1
    <3>3. f[t - 1] = t
      BY <3>1, <3>2, <1>1
    <3> QED BY <3>2, <3>3
  <2>4. t \in Nat /\ k \in Nat
    BY <1>1, <2>1
  <2>5. t < k \/ t > k
    BY <2>1, <2>4
  <2> QED BY <2>2, <2>3, <2>5
<1>5. f \in Bijection(R, S \ {k})
  <2>1. f \in [R -> S \ {k}]
    BY <1>2
  <2> HIDE DEF f
  <2>2. f \in Injection(R, S \ {k}) /\ f \in Surjection(R, S \ {k})
    BY <2>1, <1>3, <1>4, Zenon DEF Injection, Surjection, IsInjective
  <2> QED BY <2>2 DEF Bijection
<1>6. ExistsBijection(R, S \ {k})
  BY <1>5 DEF ExistsBijection
<1>7. IsFiniteSet(S) /\ IsFiniteSet(R)
  BY CopiesType
<1> HIDE DEF S, R
<1>8. Cardinality(S \ {k}) = Cardinality(R)
  BY <1>6, <1>7, FS_Bijection
<1>9. Cardinality(S \ {k}) = IF k \in S THEN Cardinality(S) - 1 ELSE Cardinality(S)
  BY <1>7, FS_RemoveElement
<1>10. k \in S <=> s[k].id = i
  BY <1>1 DEF S
<1>11. Cardinality(S) \in Nat /\ Cardinality(R) \in Nat
  BY <1>7, FS_CardinalityType
<1>12. Copies(i, s) = Cardinality(S) /\ Copies(i, r) = Cardinality(R)
  BY DEF Copies, S, R
<1> QED BY <1>8, <1>9, <1>10, <1>11, <1>12 DEF One

\* RPUSH adds one copy, LMOVE and BLMOVE take one from the head, LREM takes one out.
LEMMA CopiesAppend ==
  ASSUME NEW M, NEW s \in Seq(M), NEW m \in M, NEW i
  PROVE  Copies(i, Append(s, m)) = Copies(i, s) + One(m.id = i)
<1> DEFINE t == Append(s, m)
           n == Len(s)
<1>1. /\ t \in Seq(M) /\ n \in Nat /\ Len(t) = n + 1 /\ t[n + 1] = m
      /\ \A j \in 1 .. n : t[j] = s[j]
  OBVIOUS
<1>2. n + 1 \in 1 .. Len(t) /\ Without(t, s, n + 1)
  BY <1>1 DEF Without
<1> HIDE DEF t
<1>3. Copies(i, t) = Copies(i, s) + One(t[n + 1].id = i)
  BY <1>1, <1>2, CopiesWithout
<1> QED BY <1>1, <1>3 DEF t

LEMMA CopiesTail ==
  ASSUME NEW M, NEW s \in Seq(M), s # <<>>, NEW i
  PROVE  Copies(i, s) = Copies(i, Tail(s)) + One(Head(s).id = i)
<1>1. /\ Tail(s) \in Seq(M) /\ Len(s) \in Nat /\ Len(s) >= 1 /\ Len(Tail(s)) = Len(s) - 1 /\ Head(s) = s[1]
      /\ \A j \in 1 .. Len(s) - 1 : Tail(s)[j] = s[j + 1]
  OBVIOUS
<1> DEFINE r == Tail(s)
<1>2. 1 \in 1 .. Len(s) /\ Without(s, r, 1) /\ r \in Seq(M)
  BY <1>1 DEF Without
<1> HIDE DEF r
<1>3. Copies(i, s) = Copies(i, r) + One(s[1].id = i)
  BY <1>2, CopiesWithout
<1> QED BY <1>1, <1>3 DEF r

LEMMA CopiesRemoveFirst ==
  ASSUME NEW M, NEW s \in Seq(M), NEW m \in ToSet(s), NEW i
  PROVE  Copies(i, s) = Copies(i, RemoveFirst(s, m)) + One(m.id = i)
<1>1. PICK k \in 1 .. Len(s) : s[k] = m /\ Without(s, RemoveFirst(s, m), k)
  BY RemoveFirstShape
<1>2. RemoveFirst(s, m) \in Seq(M)
  BY RemoveFirstToSet
<1>3. Copies(i, s) = Copies(i, RemoveFirst(s, m)) + One(s[k].id = i)
  BY <1>1, <1>2, CopiesWithout
<1> QED BY <1>1, <1>3

LEMMA QCopiesType ==
  ASSUME NEW M, NEW q \in QueueOf(M), NEW i
  PROVE  QCopies(i, q) \in Nat
<1>1. q.main \in Seq(M) /\ q.processing \in Seq(M)
  BY DEF QueueOf
<1>2. Copies(i, q.main) \in Nat /\ Copies(i, q.processing) \in Nat
  BY <1>1, CopiesType
<1> QED BY <1>2 DEF QCopies

\* Publish adds a copy; moving a message between the two lists adds and loses none.
LEMMA PublishCopies ==
  ASSUME NEW M, NEW q \in QueueOf(M), NEW m \in M, NEW i
  PROVE  QCopies(i, Publish(q, m)) = QCopies(i, q) + One(m.id = i)
<1>1. q.main \in Seq(M) /\ q.processing \in Seq(M)
  BY DEF QueueOf
<1>2. Copies(i, Append(q.main, m)) = Copies(i, q.main) + One(m.id = i)
  BY <1>1, CopiesAppend
<1>3. Copies(i, q.main) \in Nat /\ Copies(i, q.processing) \in Nat /\ One(m.id = i) \in Nat
  BY <1>1, CopiesType DEF One
<1>4. Publish(q, m).main = Append(q.main, m) /\ Publish(q, m).processing = q.processing
  BY DEF Publish
<1> QED BY <1>2, <1>3, <1>4 DEF QCopies

LEMMA ConsumeCopies ==
  ASSUME NEW M, NEW q \in QueueOf(M), q.main # <<>>, NEW i
  PROVE  QCopies(i, Consume(q)) = QCopies(i, q)
<1> DEFINE m == Head(q.main)
<1>1. q.main \in Seq(M) /\ q.processing \in Seq(M) /\ m \in M /\ Tail(q.main) \in Seq(M)
  BY HeadTailToSet DEF QueueOf
<1>2. Copies(i, q.main) = Copies(i, Tail(q.main)) + One(m.id = i)
  BY <1>1, CopiesTail
<1>3. Copies(i, Append(q.processing, m)) = Copies(i, q.processing) + One(m.id = i)
  BY <1>1, CopiesAppend
<1>4. Copies(i, Tail(q.main)) \in Nat /\ Copies(i, q.processing) \in Nat /\ One(m.id = i) \in Nat
  BY <1>1, CopiesType DEF One
<1>5. Consume(q).main = Tail(q.main) /\ Consume(q).processing = Append(q.processing, m)
  BY DEF Consume
<1> QED BY <1>2, <1>3, <1>4, <1>5 DEF QCopies

LEMMA RecoverOneCopies ==
  ASSUME NEW M, NEW q \in QueueOf(M), q.processing # <<>>, NEW i
  PROVE  QCopies(i, RecoverOne(q)) = QCopies(i, q)
<1> DEFINE m == Head(q.processing)
<1>1. q.main \in Seq(M) /\ q.processing \in Seq(M) /\ m \in M /\ Tail(q.processing) \in Seq(M)
  BY HeadTailToSet DEF QueueOf
<1>2. Copies(i, q.processing) = Copies(i, Tail(q.processing)) + One(m.id = i)
  BY <1>1, CopiesTail
<1>3. Copies(i, Append(q.main, m)) = Copies(i, q.main) + One(m.id = i)
  BY <1>1, CopiesAppend
<1>4. Copies(i, Tail(q.processing)) \in Nat /\ Copies(i, q.main) \in Nat /\ One(m.id = i) \in Nat
  BY <1>1, CopiesType DEF One
<1>5. RecoverOne(q).main = Append(q.main, m) /\ RecoverOne(q).processing = Tail(q.processing)
  BY DEF RecoverOne
<1> QED BY <1>2, <1>3, <1>4, <1>5 DEF QCopies

\* Of a message the consumer holds there is a copy; an ack takes one away, a requeue none.
LEMMA ParkedCopies ==
  ASSUME NEW M, NEW q \in QueueOf(M), NEW m \in ToSet(q.processing), NEW i
  PROVE  /\ QCopies(i, q) >= One(m.id = i)
         /\ QCopies(i, Ack(q, m)) = QCopies(i, q) - One(m.id = i)
         /\ QCopies(i, Requeue(q, m)) = QCopies(i, q)
<1> DEFINE r == RemoveFirst(q.processing, m)
<1>1. q.main \in Seq(M) /\ q.processing \in Seq(M)
  BY DEF QueueOf
<1>2. r \in Seq(M) /\ m \in M
  BY <1>1, RemoveFirstToSet DEF ToSet
<1>3. Copies(i, q.processing) = Copies(i, r) + One(m.id = i)
  BY <1>1, CopiesRemoveFirst
<1>4. Copies(i, Append(q.main, m)) = Copies(i, q.main) + One(m.id = i)
  BY <1>1, <1>2, CopiesAppend
<1>5. Copies(i, r) \in Nat /\ Copies(i, q.main) \in Nat /\ One(m.id = i) \in Nat
  BY <1>1, <1>2, CopiesType DEF One
<1>6. Ack(q, m).main = q.main /\ Ack(q, m).processing = r
  BY DEF Ack
<1>7. Requeue(q, m).main = Append(q.main, m) /\ Requeue(q, m).processing = r
  BY DEF Requeue
<1> HIDE DEF r
<1> QED BY <1>3, <1>4, <1>5, <1>6, <1>7 DEF QCopies

-----------------------------------------------------------------------------
(* Types.                                                                   *)

USE IdsAssumption, ScoreAssumption, InputAssumption, NoUserAssumption

LEMMA TypeInit == Init => TypeOK
<1> SUFFICES ASSUME Init PROVE TypeOK
  OBVIOUS
<1>1. TablesOK
  BY DEF Init, TablesOK
<1>2. HandlersOK
  BY DEF Init, HandlersOK
<1>3. ConsumersOK
  BY DEF Init, ConsumersOK, EmptyQueue, QueueOf
<1>4. LedgersOK
  BY DEF Init, LedgersOK
<1> QED BY <1>1, <1>2, <1>3, <1>4 DEF TypeOK

LEMMA RoundStepTypes == TypeOK /\ RoundStep => TypeOK'
<1> SUFFICES ASSUME TypeOK, NEW d \in Rounds,
                    EndRound(d) \/ DeleteLeaderboard(d) \/ DeleteRows(d)
             PROVE  TypeOK'
  BY DEF RoundStep
<1> USE DEF TypeOK
<1>1. CASE EndRound(d)
  <2> USE <1>1 DEF EndRound, tables, handlerVars, workerVars, listenerVars, ledgers
  <2>1. TablesOK'
    BY DEF TablesOK
  <2>2. HandlersOK' /\ ConsumersOK' /\ LedgersOK'
    BY DEF HandlersOK, ConsumersOK, LedgersOK
  <2> QED BY <2>1, <2>2
<1>2. CASE DeleteLeaderboard(d)
  <2> USE <1>2 DEF DeleteLeaderboard, tables, handlerVars, workerVars, listenerVars
  <2>1. TablesOK'
    BY DEF TablesOK
  <2>2. HandlersOK' /\ ConsumersOK'
    BY DEF HandlersOK, ConsumersOK
  <2>3. LedgersOK'
    BY DEF LedgersOK
  <2> QED BY <2>1, <2>2, <2>3
<1>3. CASE DeleteRows(d)
  <2> USE <1>3 DEF DeleteRows, tables, handlerVars, workerVars, listenerVars, ledgers
  <2>1. TablesOK'
    BY DEF TablesOK
  <2>2. HandlersOK' /\ ConsumersOK' /\ LedgersOK'
    BY DEF HandlersOK, ConsumersOK, LedgersOK
  <2> QED BY <2>1, <2>2
<1> QED BY <1>1, <1>2, <1>3

\* A row keeps its type when its verdict changes.
LEMMA WithVerdictType ==
  ASSUME NEW s \in Row, NEW v \in Verdicts
  PROVE  WithVerdict(s, v) \in Row
BY DEF Row, WithVerdict

\* A failing round trip is of a kind the code handles.
LEMMA FailsType ==
  ASSUME LedgersOK, NEW k, Fails(k)
  PROVE  faults' \subseteq FaultKinds
BY InputAssumption DEF LedgersOK, Fails

LEMMA HandlerStepTypes ==
  ASSUME TypeOK, NEW h \in Handlers, HandlerStep(h)
  PROVE  TypeOK'
<1> USE DEF TypeOK, HandlerFrame, roundVars, tables, workerVars, listenerVars, ledgers
<1>1. ASSUME NEW d \in Rounds, NEW u \in Users, NEW p \in Problems,
             NEW v \in Verdicts, NEW k \in Payloads, Admit(h, d, u, p, v, k)
      PROVE  TypeOK'
  <2> USE <1>1 DEF Admit
  <2>1. TablesOK' /\ ConsumersOK' /\ LedgersOK'
    BY DEF TablesOK, ConsumersOK, LedgersOK
  <2>2. HandlersOK'
    BY DEF HandlersOK, Request
  <2> QED BY <2>1, <2>2
<1>2. CASE ScoreRequest(h)
  <2> USE <1>2 DEF ScoreRequest
  <2>1. TablesOK' /\ ConsumersOK' /\ LedgersOK'
    BY DEF TablesOK, ConsumersOK, LedgersOK
  <2>2. HandlersOK'
    BY DEF HandlersOK, Request, DetermineScoreDelta
  <2> QED BY <2>1, <2>2
<1>3. CASE InsertRoundSubmission(h)
  <2> USE <1>3 DEF InsertRoundSubmission
  <2>1. TablesOK' /\ ConsumersOK' /\ LedgersOK'
    BY DEF TablesOK, ConsumersOK, LedgersOK
  <2>2. HandlersOK'
    BY DEF HandlersOK, TablesOK, Request, Ids
  <2> QED BY <2>1, <2>2
<1>4. CASE CommitSubmission(h)
  <2> USE <1>4 DEF CommitSubmission
  <2>1. rows' \subseteq Row
    BY DEF TablesOK, HandlersOK, Request, Row, Ids
  <2>2. TablesOK'
    BY <2>1 DEF TablesOK
  <2>3. ConsumersOK' /\ LedgersOK'
    BY DEF ConsumersOK, LedgersOK
  <2>4. HandlersOK'
    BY DEF HandlersOK
  <2> QED BY <2>2, <2>3, <2>4
<1>5. CASE RollbackSubmission(h)
  <2> USE <1>5 DEF RollbackSubmission, HandlerDone
  <2>1. TablesOK'
    BY DEF TablesOK
  <2>2. ConsumersOK' /\ LedgersOK'
    BY FailsType DEF ConsumersOK, LedgersOK
  <2>3. HandlersOK'
    BY DEF HandlersOK
  <2> QED BY <2>1, <2>2, <2>3
<1>6. CASE LinkFails(h)
  <2> USE <1>6 DEF LinkFails, HandlerDone
  <2>1. TablesOK' /\ ConsumersOK' /\ LedgersOK'
    BY FailsType DEF TablesOK, ConsumersOK, LedgersOK
  <2>2. HandlersOK'
    BY DEF HandlersOK
  <2> QED BY <2>1, <2>2
<1>7. CASE Enqueue(h)
  <2> USE <1>7 DEF Enqueue
  <2>1. ToIngress(h) \in IngressMsg /\ hreq[h].rsID \in Ids
    BY DEF HandlersOK, Request, ToIngress, IngressMsg
  <2>2. Publish(ingress, ToIngress(h)) \in QueueOf(IngressMsg)
    BY <2>1, PublishHeld DEF ConsumersOK
  <2>3. TablesOK' /\ ConsumersOK'
    BY <2>2 DEF TablesOK, ConsumersOK
  <2>4. LedgersOK'
    BY <2>1, FailsType DEF LedgersOK
  <2>5. HandlersOK'
    BY DEF HandlersOK
  <2> QED BY <2>3, <2>4, <2>5
<1>8. CASE CountSolved(h)
  <2> USE <1>8 DEF CountSolved, HandlerDone
  <2>1. TablesOK'
    BY DEF TablesOK, HandlersOK, Request
  <2>2. ConsumersOK' /\ LedgersOK'
    BY DEF ConsumersOK, LedgersOK
  <2>3. HandlersOK'
    BY DEF HandlersOK
  <2> QED BY <2>1, <2>2, <2>3
<1> QED BY <1>1, <1>2, <1>3, <1>4, <1>5, <1>6, <1>7, <1>8 DEF HandlerStep

LEMMA WorkerStepTypes == TypeOK /\ (WorkerStep \/ WorkerRestart) => TypeOK'
<1> SUFFICES ASSUME TypeOK, WorkerStep \/ WorkerRestart PROVE TypeOK'
  OBVIOUS
<1> USE DEF TypeOK, WorkerFrame, WorkerIdle, roundVars, tables, handlerVars, listenerVars,
            ledgers, workerVars
<1>1. CASE WorkerRecover
  <2> USE <1>1 DEF WorkerRecover
  <2>1. TablesOK' /\ HandlersOK' /\ LedgersOK'
    BY FailsType DEF TablesOK, HandlersOK, LedgersOK
  <2>2. ConsumersOK'
    BY RecoverOneHeld DEF ConsumersOK
  <2> QED BY <2>1, <2>2
<1>2. CASE WorkerConsume
  <2> USE <1>2 DEF WorkerConsume
  <2>1. NextOut(ingress) \in IngressMsg /\ Consume(ingress) \in QueueOf(IngressMsg)
    BY ConsumeHeld DEF ConsumersOK
  <2>2. TablesOK' /\ HandlersOK'
    BY DEF TablesOK, HandlersOK
  <2>3. LedgersOK'
    BY <2>1, FailsType DEF LedgersOK, IngressMsg
  <2>4. ConsumersOK'
    BY <2>1 DEF ConsumersOK
  <2> QED BY <2>2, <2>3, <2>4
<1>3. CASE WorkerPublish
  <2> USE <1>3 DEF WorkerPublish
  <2>1. ToEgress(wmsg) \in EgressMsg
    BY DEF ConsumersOK, ToEgress, IngressMsg, EgressMsg
  <2>2. Publish(egress, ToEgress(wmsg)) \in QueueOf(EgressMsg)
    BY <2>1, PublishHeld DEF ConsumersOK
  <2>3. TablesOK' /\ HandlersOK' /\ LedgersOK'
    BY FailsType DEF TablesOK, HandlersOK, LedgersOK
  <2>4. ConsumersOK'
    BY <2>2 DEF ConsumersOK
  <2> QED BY <2>3, <2>4
<1>4. CASE WorkerRequeue
  <2> USE <1>4 DEF WorkerRequeue
  <2>1. TablesOK' /\ HandlersOK' /\ LedgersOK'
    BY FailsType DEF TablesOK, HandlersOK, LedgersOK
  <2>2. ConsumersOK'
    BY RequeueHeld DEF ConsumersOK
  <2> QED BY <2>1, <2>2
<1>5. CASE WorkerAck
  <2> USE <1>5 DEF WorkerAck
  <2>1. TablesOK' /\ HandlersOK' /\ LedgersOK'
    BY FailsType DEF TablesOK, HandlersOK, LedgersOK
  <2>2. ConsumersOK'
    BY AckHeld DEF ConsumersOK
  <2> QED BY <2>1, <2>2
<1>6. CASE WorkerRestart
  BY <1>6 DEF WorkerRestart, TablesOK, HandlersOK, LedgersOK, ConsumersOK
<1> QED BY <1>1, <1>2, <1>3, <1>4, <1>5, <1>6 DEF WorkerStep

LEMMA ListenerStepTypes == TypeOK /\ ListenerStep => TypeOK'
<1> SUFFICES ASSUME TypeOK, ListenerStep PROVE TypeOK'
  OBVIOUS
<1> USE DEF TypeOK, ListenerFrame, ListenerIdle, Settle, GoOn, roundVars, tables,
            handlerVars, workerVars, listenerVars, ledgers
<1>1. CASE ListenerRecover
  <2> USE <1>1 DEF ListenerRecover
  <2>1. TablesOK' /\ HandlersOK' /\ LedgersOK'
    BY FailsType DEF TablesOK, HandlersOK, LedgersOK
  <2>2. ConsumersOK'
    BY RecoverOneHeld DEF ConsumersOK
  <2> QED BY <2>1, <2>2
<1>2. CASE ListenerConsume
  <2> USE <1>2 DEF ListenerConsume
  <2>1. NextOut(egress) \in EgressMsg /\ Consume(egress) \in QueueOf(EgressMsg)
    BY ConsumeHeld DEF ConsumersOK
  <2>2. TablesOK' /\ HandlersOK' /\ LedgersOK'
    BY FailsType DEF TablesOK, HandlersOK, LedgersOK
  <2>3. ConsumersOK'
    BY <2>1 DEF ConsumersOK
  <2> QED BY <2>2, <2>3
<1>3. CASE FindSubmission
  <2> USE <1>3 DEF FindSubmission
  <2>1. TablesOK' /\ HandlersOK'
    BY DEF TablesOK, HandlersOK
  <2>2. lmsg.id \in Ids /\ \A s \in FoundRows(lmsg.id) : s.score \in Nat /\ s.user \in Users
    BY DEF TablesOK, ConsumersOK, EgressMsg, FoundRows, Row
  <2>3. LedgersOK'
    BY <2>2, FailsType DEF LedgersOK
  <2>4. ConsumersOK'
    BY <2>2 DEF ConsumersOK
  <2> QED BY <2>1, <2>3, <2>4
<1>4. CASE CheckExisting
  <2> USE <1>4 DEF CheckExisting
  <2>1. TablesOK' /\ HandlersOK' /\ LedgersOK'
    BY FailsType DEF TablesOK, HandlersOK, LedgersOK
  <2>2. ConsumersOK'
    BY DEF ConsumersOK
  <2> QED BY <2>1, <2>2
<1>5. CASE UpdateVerdict
  <2> USE <1>5 DEF UpdateVerdict
  <2>1. lmsg.id \in Ids /\ lmsg.verdict \in Verdicts
    BY DEF ConsumersOK, EgressMsg
  <2>2. rows' \subseteq Row
    BY <2>1, WithVerdictType DEF TablesOK
  <2>3. TablesOK' /\ HandlersOK'
    BY <2>2 DEF TablesOK, HandlersOK
  <2>4. LedgersOK'
    BY <2>1, FailsType DEF LedgersOK
  <2>5. ConsumersOK'
    BY DEF ConsumersOK
  <2> QED BY <2>3, <2>4, <2>5
<1>6. CASE UpdateLeaderboardScore
  <2> USE <1>6 DEF UpdateLeaderboardScore
  <2>1. TablesOK' /\ HandlersOK'
    BY DEF TablesOK, HandlersOK
  <2>2. \/ UNCHANGED <<redisPts, redisPaid>>
        \/ \E x \in Rounds \X Users :
             /\ redisPts' = [redisPts EXCEPT ![x] = @ + lscore]
             /\ redisPaid' = [redisPaid EXCEPT ![lmsg.id] = @ + 1]
    BY DEF TablesOK, FoundRows, Row
  <2>3. redisPts' \in [Rounds \X Users -> Nat] /\ redisPaid' \in [Ids -> Nat]
    <3> HIDE <1>6 DEF UpdateLeaderboardScore
    <3> QED BY <2>2 DEF LedgersOK, ConsumersOK
  <2>4. LedgersOK'
    BY <2>3, FailsType DEF LedgersOK
  <2>5. ConsumersOK'
    BY DEF ConsumersOK
  <2> QED BY <2>1, <2>4, <2>5
<1>7. CASE SaveLeaderboard
  <2> USE <1>7 DEF SaveLeaderboard
  <2>1. TablesOK' /\ HandlersOK'
    BY DEF TablesOK, HandlersOK
  <2>2. CreditedRow(luser) \in Users \cup {NoUser} /\ lmsg.id \in Ids
    BY DEF ConsumersOK, LedgersOK, CreditedRow, EgressMsg
  <2>3. sqlPts' \in [Users -> Nat] /\ firstLb' \in Users \cup {NoUser}
    BY <2>2 DEF LedgersOK, ConsumersOK
  <2>4. sqlPaid' \in [Ids -> Nat]
    BY DEF LedgersOK
  <2>5. LedgersOK'
    BY <2>2, <2>3, <2>4, FailsType DEF LedgersOK
  <2>6. ConsumersOK'
    BY DEF ConsumersOK
  <2> QED BY <2>1, <2>5, <2>6
<1>8. CASE ListenerRequeue
  <2> USE <1>8 DEF ListenerRequeue
  <2>1. TablesOK' /\ HandlersOK' /\ LedgersOK'
    BY FailsType DEF TablesOK, HandlersOK, LedgersOK
  <2>2. ConsumersOK'
    BY RequeueHeld DEF ConsumersOK
  <2> QED BY <2>1, <2>2
<1>9. CASE ListenerAck
  <2> USE <1>9 DEF ListenerAck
  <2>1. TablesOK' /\ HandlersOK' /\ LedgersOK'
    BY FailsType DEF TablesOK, HandlersOK, LedgersOK
  <2>2. ConsumersOK'
    BY AckHeld DEF ConsumersOK
  <2> QED BY <2>1, <2>2
<1>10. CASE CentralRestart
  BY <1>10 DEF CentralRestart, TablesOK, HandlersOK, LedgersOK, ConsumersOK
<1> QED BY <1>1, <1>2, <1>3, <1>4, <1>5, <1>6, <1>7, <1>8, <1>9, <1>10 DEF ListenerStep

LEMMA CrashTypes == TypeOK /\ (WorkerCrash \/ CentralCrash) => TypeOK'
<1> SUFFICES ASSUME TypeOK, WorkerCrash \/ CentralCrash PROVE TypeOK'
  OBVIOUS
<1> USE DEF TypeOK, WorkerCrash, CentralCrash, roundVars, tables, handlerVars, workerVars,
            listenerVars, ledgers
<1>1. TablesOK' /\ LedgersOK'
  BY DEF TablesOK, LedgersOK
<1>2. HandlersOK'
  BY DEF HandlersOK
<1>3. ConsumersOK'
  BY DEF ConsumersOK
<1> QED BY <1>1, <1>2, <1>3

LEMMA TypeStep == TypeOK /\ [Next]_vars => TypeOK'
<1> SUFFICES ASSUME TypeOK, [Next]_vars PROVE TypeOK'
  OBVIOUS
<1>1. CASE UNCHANGED vars
  <2> USE <1>1 DEF vars, roundVars, tables, handlerVars, workerVars, listenerVars, ledgers
  <2>1. TablesOK' /\ HandlersOK'
    BY DEF TypeOK, TablesOK, HandlersOK
  <2>2. ConsumersOK' /\ LedgersOK'
    BY DEF TypeOK, ConsumersOK, LedgersOK
  <2> QED BY <2>1, <2>2 DEF TypeOK
<1> QED BY <1>1, RoundStepTypes, HandlerStepTypes, WorkerStepTypes, ListenerStepTypes,
           CrashTypes DEF Next

\* The pipeline is type correct: every variable keeps its type, and a handler,
\* worker or listener that has left its first step holds what it works on.
THEOREM TypeCorrect == Spec => []TypeOK
BY TypeInit, TypeStep, PTL DEF Spec

-----------------------------------------------------------------------------
(* Durability.  NoSubmissionLost is not inductive by itself: an ack removes *)
(* a message from a list, and only AckAfterEffect says that this was not    *)
(* its last trace; a recovery would not find what HeldIsParked does not     *)
(* keep in the processing list.                                             *)

Durable == NoSubmissionLost /\ HeldIsParked /\ AckAfterEffect

\* A step that touches neither the queues nor what the consumers hold.
LEMMA DurableFrame ==
  ASSUME Durable,
         UNCHANGED <<ingress, egress, wpc, wmsg, lpc, lmsg, queued, handled>>
  PROVE  Durable'
BY DEF Durable, NoSubmissionLost, HeldIsParked, AckAfterEffect, InFlight, Held, ToSet

LEMMA DurableInit == Init => Durable
BY DEF Init, Durable, NoSubmissionLost, HeldIsParked, AckAfterEffect

LEMMA RoundStepDurable == Durable /\ RoundStep => Durable'
BY DurableFrame DEF RoundStep, EndRound, DeleteLeaderboard, DeleteRows, workerVars, listenerVars

LEMMA HandlerStepDurable ==
  ASSUME TypeOK, Durable, NEW h \in Handlers, HandlerStep(h)
  PROVE  Durable'
<1> USE DEF HandlerFrame, workerVars, listenerVars
<1>1. CASE Enqueue(h)
  <2> DEFINE m == ToIngress(h)
  <2>1. m \in IngressMsg /\ m.id = hreq[h].rsID
    BY <1>1 DEF Enqueue, TypeOK, HandlersOK, Request, ToIngress, IngressMsg
  <2>2. ingress \in QueueOf(IngressMsg)
    BY DEF TypeOK, ConsumersOK
  <2>3. /\ Held(Publish(ingress, m)) = Held(ingress) \cup {m}
        /\ Publish(ingress, m).processing = ingress.processing
    BY <2>1, <2>2, PublishHeld
  <2> HIDE DEF m
  <2>4. CASE ingress' = ingress /\ queued' = queued
    BY <1>1, <2>4, DurableFrame DEF Enqueue
  <2>5. CASE ingress' = Publish(ingress, m) /\ queued' = queued \cup {m.id}
    <3>1. NoSubmissionLost'
      BY <1>1, <2>3, <2>5 DEF Enqueue, Durable, NoSubmissionLost, InFlight
    <3>2. HeldIsParked' /\ AckAfterEffect'
      BY <1>1, <2>3, <2>5 DEF Enqueue, Durable, HeldIsParked, AckAfterEffect
    <3> QED BY <3>1, <3>2 DEF Durable
  <2> QED BY <1>1, <2>1, <2>4, <2>5 DEF Enqueue, m
<1>2. CASE ~ Enqueue(h)
  BY <1>2, DurableFrame DEF HandlerStep, Admit, ScoreRequest, InsertRoundSubmission,
     CommitSubmission, RollbackSubmission, LinkFails, CountSolved
<1> QED BY <1>1, <1>2

LEMMA WorkerStepDurable == TypeOK /\ Durable /\ (WorkerStep \/ WorkerRestart) => Durable'
<1> SUFFICES ASSUME TypeOK, Durable, WorkerStep \/ WorkerRestart PROVE Durable'
  OBVIOUS
<1> USE DEF WorkerFrame, WorkerIdle, workerVars, listenerVars
<1>0. ingress \in QueueOf(IngressMsg) /\ egress \in QueueOf(EgressMsg)
  BY DEF TypeOK, ConsumersOK
<1>1. CASE WorkerRecover
  <2>1. Held(ingress') = Held(ingress)
    BY <1>0, <1>1, RecoverOneHeld DEF WorkerRecover
  <2>2. NoSubmissionLost'
    BY <1>1, <2>1 DEF WorkerRecover, Durable, NoSubmissionLost, InFlight
  <2>3. HeldIsParked' /\ AckAfterEffect'
    BY <1>1 DEF WorkerRecover, Durable, HeldIsParked, AckAfterEffect
  <2> QED BY <2>2, <2>3 DEF Durable
<1>2. CASE WorkerConsume
  <2>1. /\ Held(ingress') = Held(ingress)
        /\ NextOut(ingress) \in ToSet(ingress'.processing)
    BY <1>0, <1>2, ConsumeHeld DEF WorkerConsume
  <2>2. NoSubmissionLost'
    BY <1>2, <2>1 DEF WorkerConsume, Durable, NoSubmissionLost, InFlight
  <2>3. HeldIsParked'
    BY <1>2, <2>1 DEF WorkerConsume, Durable, HeldIsParked
  <2>4. AckAfterEffect'
    BY <1>2 DEF WorkerConsume, Durable, AckAfterEffect
  <2> QED BY <2>2, <2>3, <2>4 DEF Durable
<1>3. CASE WorkerPublish
  <2> DEFINE m == ToEgress(wmsg)
  <2>1. m \in EgressMsg /\ m.id = wmsg.id
    BY <1>3 DEF WorkerPublish, TypeOK, ConsumersOK, ToEgress, IngressMsg, EgressMsg
  <2>2. /\ Held(Publish(egress, m)) = Held(egress) \cup {m}
        /\ Publish(egress, m).processing = egress.processing
    BY <1>0, <2>1, PublishHeld
  <2> HIDE DEF m
  <2>3. /\ egress' = egress \/ egress' = Publish(egress, m)
        /\ wpc' = "acking" => egress' = Publish(egress, m)
        /\ wpc = "publishing" /\ wpc' \in {"acking", "requeueing"}
        /\ UNCHANGED <<wmsg, ingress, lpc, lmsg, queued, handled>>
    BY <1>3 DEF WorkerPublish, m
  <2>4. Held(egress) \subseteq Held(egress') /\ egress'.processing = egress.processing
    BY <2>2, <2>3
  <2>5. NoSubmissionLost'
    BY <2>3, <2>4 DEF Durable, NoSubmissionLost, InFlight
  <2>6. HeldIsParked'
    BY <2>3, <2>4 DEF Durable, HeldIsParked
  <2>7. AckAfterEffect'
    BY <2>1, <2>2, <2>3 DEF Durable, AckAfterEffect
  <2> QED BY <2>5, <2>6, <2>7 DEF Durable
<1>4. CASE WorkerRequeue
  <2>1. wmsg \in IngressMsg
    BY <1>4 DEF WorkerRequeue, TypeOK, ConsumersOK
  <2>2. Held(ingress) \subseteq Held(ingress')
    BY <1>0, <1>4, <2>1, RequeueHeld DEF WorkerRequeue
  <2>3. NoSubmissionLost'
    BY <1>4, <2>2 DEF WorkerRequeue, Durable, NoSubmissionLost, InFlight
  <2>4. HeldIsParked' /\ AckAfterEffect'
    BY <1>4 DEF WorkerRequeue, Durable, HeldIsParked, AckAfterEffect
  <2> QED BY <2>3, <2>4 DEF Durable
<1>5. CASE WorkerAck
  <2>1. Held(ingress) \subseteq Held(ingress') \cup {wmsg}
    BY <1>0, <1>5, AckHeld DEF WorkerAck
  <2>2. wmsg.id \in handled \cup {m.id : m \in Held(egress)}
    BY <1>5 DEF WorkerAck, Durable, AckAfterEffect
  <2>3. NoSubmissionLost'
    BY <1>5, <2>1, <2>2 DEF WorkerAck, Durable, NoSubmissionLost, InFlight
  <2>4. HeldIsParked' /\ AckAfterEffect'
    BY <1>5 DEF WorkerAck, Durable, HeldIsParked, AckAfterEffect
  <2> QED BY <2>3, <2>4 DEF Durable
<1>6. CASE WorkerRestart
  <2>1. NoSubmissionLost'
    BY <1>6 DEF WorkerRestart, Durable, NoSubmissionLost, InFlight
  <2>2. HeldIsParked' /\ AckAfterEffect'
    BY <1>6 DEF WorkerRestart, Durable, HeldIsParked, AckAfterEffect
  <2> QED BY <2>1, <2>2 DEF Durable
<1> QED BY <1>1, <1>2, <1>3, <1>4, <1>5, <1>6 DEF WorkerStep

\* A listener step that keeps its message, and settles it before acking.
LEMMA ListenerProgress ==
  ASSUME Durable,
         UNCHANGED <<ingress, egress, wpc, wmsg, lmsg, queued>>,
         lpc \notin {"down", "recovering", "idle"}, handled \subseteq handled',
         lpc' = "acking" => lmsg.id \in handled'
  PROVE  Durable'
<1>1. NoSubmissionLost'
  BY DEF Durable, NoSubmissionLost, InFlight
<1>2. HeldIsParked'
  BY DEF Durable, HeldIsParked
<1>3. AckAfterEffect'
  BY DEF Durable, AckAfterEffect
<1> QED BY <1>1, <1>2, <1>3 DEF Durable

LEMMA ListenerStepDurable == TypeOK /\ Durable /\ ListenerStep => Durable'
<1> SUFFICES ASSUME TypeOK, Durable, ListenerStep PROVE Durable'
  OBVIOUS
<1> USE DEF ListenerFrame, ListenerIdle, workerVars, listenerVars
<1>0. ingress \in QueueOf(IngressMsg) /\ egress \in QueueOf(EgressMsg)
  BY DEF TypeOK, ConsumersOK
<1>1. CASE ListenerRecover
  <2>1. Held(egress') = Held(egress)
    BY <1>0, <1>1, RecoverOneHeld DEF ListenerRecover
  <2>2. NoSubmissionLost'
    BY <1>1, <2>1 DEF ListenerRecover, Durable, NoSubmissionLost, InFlight
  <2>3. HeldIsParked' /\ AckAfterEffect'
    BY <1>1, <2>1 DEF ListenerRecover, Durable, HeldIsParked, AckAfterEffect
  <2> QED BY <2>2, <2>3 DEF Durable
<1>2. CASE ListenerConsume
  <2>1. /\ Held(egress') = Held(egress)
        /\ NextOut(egress) \in ToSet(egress'.processing)
    BY <1>0, <1>2, ConsumeHeld DEF ListenerConsume
  <2>2. NoSubmissionLost'
    BY <1>2, <2>1 DEF ListenerConsume, Durable, NoSubmissionLost, InFlight
  <2>3. HeldIsParked' /\ AckAfterEffect'
    BY <1>2, <2>1 DEF ListenerConsume, Durable, HeldIsParked, AckAfterEffect
  <2> QED BY <2>2, <2>3 DEF Durable
<1>3. CASE FindSubmission
  BY <1>3, ListenerProgress DEF FindSubmission, Settle, GoOn
<1>4. CASE CheckExisting
  BY <1>4, ListenerProgress DEF CheckExisting, GoOn
<1>5. CASE UpdateVerdict
  BY <1>5, ListenerProgress DEF UpdateVerdict, Settle, GoOn
<1>6. CASE UpdateLeaderboardScore
  BY <1>6, ListenerProgress DEF UpdateLeaderboardScore, GoOn
<1>7. CASE SaveLeaderboard
  BY <1>7, ListenerProgress DEF SaveLeaderboard, Settle
<1>8. CASE ListenerRequeue
  <2>1. lmsg \in EgressMsg
    BY <1>8 DEF ListenerRequeue, TypeOK, ConsumersOK
  <2>2. Held(egress) \subseteq Held(egress')
    BY <1>0, <1>8, <2>1, RequeueHeld DEF ListenerRequeue
  <2>3. NoSubmissionLost'
    BY <1>8, <2>2 DEF ListenerRequeue, Durable, NoSubmissionLost, InFlight
  <2>4. HeldIsParked' /\ AckAfterEffect'
    BY <1>8, <2>2 DEF ListenerRequeue, Durable, HeldIsParked, AckAfterEffect
  <2> QED BY <2>3, <2>4 DEF Durable
<1>9. CASE ListenerAck
  <2>1. Held(egress) \subseteq Held(egress') \cup {lmsg}
    BY <1>0, <1>9, AckHeld DEF ListenerAck
  <2>2. lmsg.id \in handled
    BY <1>9 DEF ListenerAck, Durable, AckAfterEffect
  <2>3. NoSubmissionLost'
    BY <1>9, <2>1, <2>2 DEF ListenerAck, Durable, NoSubmissionLost, InFlight
  <2>4. HeldIsParked' /\ AckAfterEffect'
    BY <1>9, <2>1, <2>2 DEF ListenerAck, Durable, HeldIsParked, AckAfterEffect
  <2> QED BY <2>3, <2>4 DEF Durable
<1>10. CASE CentralRestart
  <2>1. NoSubmissionLost'
    BY <1>10 DEF CentralRestart, Durable, NoSubmissionLost, InFlight
  <2>2. HeldIsParked' /\ AckAfterEffect'
    BY <1>10 DEF CentralRestart, Durable, HeldIsParked, AckAfterEffect
  <2> QED BY <2>1, <2>2 DEF Durable
<1> QED BY <1>1, <1>2, <1>3, <1>4, <1>5, <1>6, <1>7, <1>8, <1>9, <1>10 DEF ListenerStep

LEMMA CrashDurable == Durable /\ (WorkerCrash \/ CentralCrash) => Durable'
<1> SUFFICES ASSUME Durable, WorkerCrash \/ CentralCrash PROVE Durable'
  OBVIOUS
<1> USE DEF WorkerCrash, CentralCrash, workerVars, listenerVars
<1>1. NoSubmissionLost'
  BY DEF Durable, NoSubmissionLost, InFlight
<1>2. HeldIsParked' /\ AckAfterEffect'
  BY DEF Durable, HeldIsParked, AckAfterEffect
<1> QED BY <1>1, <1>2 DEF Durable

\* The inductive invariant of the pipeline: types, durability, and the two
\* facts about the consumers it rests on, hold in every reachable state.
THEOREM DurabilityInvariant == Spec => []DurabilityInv
<1>1. Init => DurabilityInv
  BY TypeInit, DurableInit DEF DurabilityInv, Durable
<1>2. DurabilityInv /\ [Next]_vars => DurabilityInv'
  <2> SUFFICES ASSUME DurabilityInv, [Next]_vars PROVE DurabilityInv'
    OBVIOUS
  <2>1. TypeOK /\ Durable
    BY DEF DurabilityInv, Durable
  <2>2. TypeOK'
    BY <2>1, TypeStep
  <2>3. Durable'
    <3>1. CASE UNCHANGED vars
      BY <2>1, <3>1, DurableFrame DEF vars, workerVars, listenerVars
    <3> QED BY <2>1, <3>1, RoundStepDurable, HandlerStepDurable, WorkerStepDurable,
               ListenerStepDurable, CrashDurable DEF Next
  <2> QED BY <2>2, <2>3 DEF DurabilityInv, Durable
<1> QED BY <1>1, <1>2, PTL DEF Spec

\* No submission the ingress queue has taken is ever lost, for any number of
\* handlers, crashes and failed round trips of the code's error paths.
THEOREM Durability == Spec => []NoSubmissionLost
<1>1. DurabilityInv => NoSubmissionLost
  BY DEF DurabilityInv
<1> QED BY <1>1, DurabilityInvariant, PTL

-----------------------------------------------------------------------------
(* The order of the two payments.  GlobalNeverAhead is not inductive: when  *)
(* SQL is paid, the payment in Redis lies two steps back.  The listener     *)
(* therefore owes the difference while it is "saving" (OneAhead), which     *)
(* needs that an id names one row (OneRow) and that neither the listener    *)
(* nor the global leaderboard ever deals with an id that has no row yet:    *)
(* a row committed later would start with a payment.                        *)

OneRow ==
    /\ \A s \in rows : s.subID < nextSub
    /\ \A s, t \in rows : s.subID = t.subID => s = t

KnownRows ==
    /\ lpc \in {"checking", "updating", "paying", "saving"} => \E s \in rows : s.subID = lmsg.id
    /\ \A i \in Ids : sqlPaid[i] > 0 => \E s \in rows : s.subID = i

OneAhead ==
    "redis" \notin faults /\ lpc = "saving" =>
        \A s \in rows : s.subID = lmsg.id /\ Live(s) => sqlPaid[lmsg.id] + 1 <= redisPaid[lmsg.id]

PaymentInv == OneRow /\ KnownRows /\ OneAhead /\ GlobalNeverAhead

LEMMA PaymentInit == Init => PaymentInv
BY DEF Init, PaymentInv, OneRow, KnownRows, OneAhead, GlobalNeverAhead

\* A step that neither adds rows nor pays, and brings no message to a payment.
LEMMA PaymentFrame ==
  ASSUME TypeOK, PaymentInv, UNCHANGED <<rows, redisPaid, sqlPaid>>,
         nextSub <= nextSub', nextSub' \in Nat, faults \subseteq faults',
         \A d \in Rounds : roundStatus[d] = "deleted" => roundStatus'[d] = "deleted",
         (lpc' = lpc /\ lmsg' = lmsg) \/ lpc' \notin {"checking", "updating", "paying", "saving"}
  PROVE  PaymentInv'
<1>1. \A s \in rows : Live(s)' => Live(s)
  BY DEF Live, TypeOK, TablesOK, Row
<1>2. OneRow'
  BY DEF TypeOK, TablesOK, PaymentInv, OneRow, Row, Ids
<1>3. KnownRows'
  BY DEF PaymentInv, KnownRows
<1>4. OneAhead' /\ GlobalNeverAhead'
  BY <1>1 DEF PaymentInv, OneAhead, GlobalNeverAhead
<1> QED BY <1>2, <1>3, <1>4 DEF PaymentInv

LEMMA RoundStepPays == TypeOK /\ PaymentInv /\ RoundStep => PaymentInv'
<1> SUFFICES ASSUME TypeOK, PaymentInv, RoundStep PROVE PaymentInv'
  OBVIOUS
<1>1. /\ UNCHANGED <<rows, redisPaid, sqlPaid, nextSub, faults, lpc, lmsg>>
      /\ \A d \in Rounds : roundStatus[d] = "deleted" => roundStatus'[d] = "deleted"
  BY DEF RoundStep, EndRound, DeleteLeaderboard, DeleteRows, tables, listenerVars, ledgers,
         TypeOK, TablesOK
<1>2. nextSub \in Nat
  BY DEF TypeOK, TablesOK
<1> QED BY <1>1, <1>2, PaymentFrame

\* A new row has an id that no row and no payment has.
LEMMA CommitPays ==
  ASSUME TypeOK, PaymentInv, NEW h \in Handlers, CommitSubmission(h)
  PROVE  PaymentInv'
<1> DEFINE new == [rsID |-> hreq[h].rsID, subID |-> nextSub, round |-> hreq[h].round,
                   user |-> hreq[h].user, problem |-> hreq[h].problem, score |-> hreq[h].score,
                   verdict |-> hreq[h].verdict]
<1>1. /\ rows' = rows \cup {new} /\ new.subID = nextSub /\ nextSub' = nextSub + 1 /\ nextSub <= MaxId
      /\ UNCHANGED <<roundStatus, redisPaid, sqlPaid, faults, lpc, lmsg>>
  BY DEF CommitSubmission, HandlerFrame, roundVars, listenerVars, ledgers
<1> HIDE DEF new
<1>2. nextSub \in Ids /\ nextSub \in Nat /\ redisPaid \in [Ids -> Nat] /\ sqlPaid \in [Ids -> Nat]
      /\ \A s \in rows : s.subID \in Nat
  BY <1>1 DEF TypeOK, TablesOK, LedgersOK, Ids, Row
<1>3. \A s \in rows : s.subID # nextSub
  BY <1>2 DEF PaymentInv, OneRow
<1>4. sqlPaid[nextSub] = 0
  BY <1>2, <1>3 DEF PaymentInv, KnownRows
<1>5. \A s \in rows : Live(s)' = Live(s)
  BY <1>1 DEF Live
<1>6. OneRow'
  BY <1>1, <1>2, <1>3 DEF PaymentInv, OneRow
<1>7. KnownRows'
  BY <1>1 DEF PaymentInv, KnownRows
<1>8. GlobalNeverAhead'
  BY <1>1, <1>2, <1>4, <1>5 DEF PaymentInv, GlobalNeverAhead
<1>9. OneAhead'
  <2> SUFFICES ASSUME "redis" \notin faults, lpc = "saving", NEW s \in rows', s.subID = lmsg.id, Live(s)'
               PROVE  sqlPaid[lmsg.id] + 1 <= redisPaid[lmsg.id]
    BY <1>1 DEF OneAhead
  <2>1. s \in rows
    BY <1>1, <1>3 DEF PaymentInv, KnownRows
  <2> QED BY <2>1, <1>5 DEF PaymentInv, OneAhead
<1> QED BY <1>6, <1>7, <1>8, <1>9 DEF PaymentInv

LEMMA HandlerStepPays ==
  ASSUME TypeOK, PaymentInv, NEW h \in Handlers, HandlerStep(h)
  PROVE  PaymentInv'
<1>1. CASE CommitSubmission(h)
  BY <1>1, CommitPays
<1>2. CASE ~ CommitSubmission(h)
  <2>1. /\ UNCHANGED <<rows, redisPaid, sqlPaid, roundStatus, lpc, lmsg>>
        /\ faults \subseteq faults' /\ nextSub' \in {nextSub, nextSub + 1}
    BY <1>2 DEF HandlerStep, Admit, ScoreRequest, InsertRoundSubmission, RollbackSubmission,
                LinkFails, Enqueue, CountSolved, HandlerFrame, Fails, roundVars, tables,
                listenerVars, ledgers
  <2>2. nextSub \in Nat
    BY DEF TypeOK, TablesOK
  <2>3. nextSub <= nextSub' /\ nextSub' \in Nat
    BY <2>1, <2>2
  <2> QED BY <2>1, <2>3, PaymentFrame
<1> QED BY <1>1, <1>2

\* What the worker does, and a crash of either service, pays nothing.
LEMMA WorkerAndCrashPay ==
  TypeOK /\ PaymentInv /\ (WorkerStep \/ WorkerRestart \/ WorkerCrash \/ CentralCrash) => PaymentInv'
<1> SUFFICES ASSUME TypeOK, PaymentInv, WorkerStep \/ WorkerRestart \/ WorkerCrash \/ CentralCrash
             PROVE  PaymentInv'
  OBVIOUS
<1>1. /\ UNCHANGED <<rows, redisPaid, sqlPaid, roundStatus, nextSub>> /\ faults \subseteq faults'
      /\ (lpc' = lpc /\ lmsg' = lmsg) \/ lpc' = "down"
  BY DEF WorkerStep, WorkerRecover, WorkerConsume, WorkerPublish, WorkerRequeue, WorkerAck,
         WorkerRestart, WorkerCrash, CentralCrash, WorkerFrame, Fails, roundVars, tables,
         listenerVars, ledgers
<1>2. nextSub \in Nat
  BY DEF TypeOK, TablesOK
<1> QED BY <1>1, <1>2, PaymentFrame

LEMMA ListenerStepPays == TypeOK /\ PaymentInv /\ ListenerStep => PaymentInv'
<1> SUFFICES ASSUME TypeOK, PaymentInv, ListenerStep PROVE PaymentInv'
  OBVIOUS
<1> USE DEF ListenerFrame, roundVars
<1>0. /\ nextSub \in Nat /\ rows \subseteq Row
      /\ redisPaid \in [Ids -> Nat] /\ sqlPaid \in [Ids -> Nat]
      /\ lpc \notin {"down", "recovering", "idle"} => lmsg.id \in Ids
  BY DEF TypeOK, TablesOK, LedgersOK, ConsumersOK, EgressMsg
<1>1. CASE ListenerRecover \/ ListenerConsume \/ ListenerRequeue \/ ListenerAck \/ CentralRestart
  <2>1. /\ UNCHANGED <<rows, redisPaid, sqlPaid, roundStatus, nextSub>> /\ faults \subseteq faults'
        /\ (lpc' = lpc /\ lmsg' = lmsg) \/ lpc' \in {"idle", "finding", "recovering"}
    BY <1>1 DEF ListenerRecover, ListenerConsume, ListenerRequeue, ListenerAck, CentralRestart,
                ListenerIdle, Fails, ledgers, listenerVars
  <2> QED BY <2>1, <1>0, PaymentFrame
<1>2. CASE FindSubmission \/ CheckExisting
  <2>1. /\ UNCHANGED <<rows, redisPaid, sqlPaid, roundStatus, nextSub, lmsg>> /\ faults \subseteq faults'
        /\ lpc' \notin {"paying", "saving"}
        /\ lpc' \in {"checking", "updating"} => \E s \in rows : s.subID = lmsg.id
    BY <1>2 DEF FindSubmission, CheckExisting, FoundRows, Settle, GoOn, Fails, ledgers
  <2>2. OneRow' /\ KnownRows'
    BY <2>1 DEF PaymentInv, OneRow, KnownRows
  <2>3. OneAhead' /\ GlobalNeverAhead'
    BY <2>1 DEF PaymentInv, OneAhead, GlobalNeverAhead, Live
  <2> QED BY <2>2, <2>3 DEF PaymentInv
<1>3. CASE UpdateVerdict
  <2>1. /\ UNCHANGED <<redisPaid, sqlPaid, roundStatus, nextSub, lmsg>> /\ faults \subseteq faults'
        /\ lpc = "updating" /\ lpc' \in {"paying", "acking", "requeueing"}
        /\ rows' = rows \/ rows' = {IF s.subID = lmsg.id THEN WithVerdict(s, lmsg.verdict) ELSE s : s \in rows}
    BY <1>3 DEF UpdateVerdict, Settle, GoOn, Fails, ledgers
  <2>2. \A s \in rows : LET t == WithVerdict(s, lmsg.verdict) IN t.subID = s.subID /\ t.round = s.round
    BY <1>0 DEF WithVerdict, Row
  <2>3. /\ \A t \in rows' : \E s \in rows : s.subID = t.subID /\ s.round = t.round
        /\ \A s \in rows : \E t \in rows' : t.subID = s.subID
    BY <2>1, <2>2
  <2>4. OneRow'
    <3>1. \A s \in rows' : s.subID < nextSub'
      BY <2>1, <2>3 DEF PaymentInv, OneRow
    <3>2. \A s, t \in rows' : s.subID = t.subID => s = t
      BY <2>1, <2>2 DEF PaymentInv, OneRow
    <3> QED BY <3>1, <3>2 DEF OneRow
  <2>5. KnownRows'
    BY <2>1, <2>3 DEF PaymentInv, KnownRows
  <2>6. OneAhead'
    BY <2>1 DEF OneAhead
  <2>7. GlobalNeverAhead'
    <3> SUFFICES ASSUME "redis" \notin faults, NEW t \in rows', Live(t)'
                 PROVE  sqlPaid[t.subID] <= redisPaid[t.subID]
      BY <2>1 DEF GlobalNeverAhead
    <3>1. PICK s \in rows : s.subID = t.subID /\ s.round = t.round
      BY <2>3
    <3>2. Live(s)
      BY <3>1, <2>1 DEF Live
    <3> QED BY <3>1, <3>2 DEF PaymentInv, GlobalNeverAhead
  <2> QED BY <2>4, <2>5, <2>6, <2>7 DEF PaymentInv
<1>4. CASE UpdateLeaderboardScore
  <2>1. /\ UNCHANGED <<rows, sqlPaid, roundStatus, nextSub, lmsg>> /\ faults \subseteq faults'
        /\ lpc = "paying" /\ lpc' = "saving"
        /\ redisPaid' = redisPaid \/ redisPaid' = [redisPaid EXCEPT ![lmsg.id] = @ + 1]
        /\ redisPaid' = [redisPaid EXCEPT ![lmsg.id] = @ + 1] \/ "redis" \in faults'
           \/ \A s \in FoundRows(lmsg.id) : ~ Live(s)
    BY <1>4 DEF UpdateLeaderboardScore, GoOn, Fails
  <2>2. OneRow' /\ KnownRows'
    BY <2>1 DEF PaymentInv, OneRow, KnownRows
  <2>3. GlobalNeverAhead'
    BY <2>1, <1>0 DEF PaymentInv, GlobalNeverAhead, Live, Row
  <2>4. OneAhead'
    <3> SUFFICES ASSUME "redis" \notin faults', NEW s \in rows, s.subID = lmsg.id, Live(s)
                 PROVE  sqlPaid[lmsg.id] + 1 <= redisPaid'[lmsg.id]
      BY <2>1 DEF OneAhead, Live
    <3>1. redisPaid' = [redisPaid EXCEPT ![lmsg.id] = @ + 1]
      BY <2>1 DEF FoundRows
    <3>2. sqlPaid[lmsg.id] <= redisPaid[lmsg.id]
      BY <2>1 DEF PaymentInv, GlobalNeverAhead
    <3> QED BY <3>1, <3>2, <2>1, <1>0
  <2> QED BY <2>2, <2>3, <2>4 DEF PaymentInv
<1>5. CASE SaveLeaderboard
  <2>1. /\ UNCHANGED <<rows, redisPaid, roundStatus, nextSub, lmsg>> /\ faults \subseteq faults'
        /\ lpc = "saving" /\ lpc' = "acking"
        /\ sqlPaid' = sqlPaid \/ sqlPaid' = [sqlPaid EXCEPT ![lmsg.id] = @ + 1]
    BY <1>5 DEF SaveLeaderboard, Settle, Fails
  <2>2. OneRow' /\ OneAhead'
    BY <2>1 DEF PaymentInv, OneRow, OneAhead
  <2>3. KnownRows'
    BY <2>1, <1>0 DEF PaymentInv, KnownRows
  <2>4. GlobalNeverAhead'
    <3> SUFFICES ASSUME "redis" \notin faults, NEW s \in rows, Live(s)
                 PROVE  sqlPaid'[s.subID] <= redisPaid[s.subID]
      BY <2>1 DEF GlobalNeverAhead, Live
    <3>1. sqlPaid[s.subID] <= redisPaid[s.subID] /\ s.subID \in Ids
      BY <1>0 DEF PaymentInv, GlobalNeverAhead, Row
    <3>2. s.subID = lmsg.id => sqlPaid[s.subID] + 1 <= redisPaid[s.subID]
      BY <2>1 DEF PaymentInv, OneAhead
    <3> QED BY <3>1, <3>2, <2>1, <1>0
  <2> QED BY <2>2, <2>3, <2>4 DEF PaymentInv
<1> QED BY <1>1, <1>2, <1>3, <1>4, <1>5 DEF ListenerStep

LEMMA PaymentInvariant == Spec => []PaymentInv
<1>1. Init => PaymentInv
  BY PaymentInit
<1>2. TypeOK /\ PaymentInv /\ [Next]_vars => PaymentInv'
  <2> SUFFICES ASSUME TypeOK, PaymentInv, [Next]_vars PROVE PaymentInv'
    OBVIOUS
  <2>1. CASE UNCHANGED vars
    <3>1. nextSub \in Nat
      BY DEF TypeOK, TablesOK
    <3> QED BY <2>1, <3>1, PaymentFrame DEF vars, roundVars, tables, listenerVars, ledgers
  <2> QED BY <2>1, RoundStepPays, HandlerStepPays, WorkerAndCrashPay, ListenerStepPays DEF Next
<1> QED BY <1>1, <1>2, TypeCorrect, PTL DEF Spec

\* GlobalNeverAhead: unless a payment in Redis failed, the global leaderboard has never been
\* paid more often for a submission of an existing round than the leaderboard of that round,
\* at whatever point central-service crashes and however often the message comes back.
THEOREM RoundPaidFirst == Spec => []GlobalNeverAhead
<1>1. PaymentInv => GlobalNeverAhead
  BY DEF PaymentInv
<1> QED BY <1>1, PaymentInvariant, PTL

-----------------------------------------------------------------------------
(* How often a submission is paid.  PaidBounded counts payments; what makes *)
(* it inductive is to count with them the copies of a message that may yet  *)
(* lead to one (Due).  A copy whose consumer has had its effect and is      *)
(* about to ack it does not count, so what adds a copy is a crash or a      *)
(* failed ack at that point, or a publish that failed after its effect.     *)

\* The id i has not been handed out, or its handler has yet to publish it.
Unsent(i) == nextRS <= i \/ \E h \in Handlers : hpc[h] \in {"inserting", "stored"} /\ hreq[h].rsID = i

\* The payments that may still come for i, when a listener in one of the states done has paid.
Due(i, done) ==
    QCopies(i, ingress) + QCopies(i, egress) + One(Unsent(i))
        - One(wpc = "acking" /\ wmsg.id = i) - One(lpc \in done /\ lmsg.id = i)

Doubling == {"ack", "egressPublish"}
Doubled == Cardinality(faults \cap Doubling) + crashes

\* Handlers work on different ids, which have been handed out.
OwnIds ==
    \A h \in Handlers : hpc[h] \in {"inserting", "stored"} =>
        /\ hreq[h].rsID < nextRS
        /\ \A g \in Handlers \ {h} : hpc[g] \in {"inserting", "stored"} => hreq[g].rsID # hreq[h].rsID

RedisDue(i) == redisPaid[i] + Due(i, {"saving", "acking"})
SqlDue(i) == sqlPaid[i] + Due(i, {"acking"})

Budget == \A i \in Ids : RedisDue(i) <= 1 + Doubled /\ SqlDue(i) <= 1 + Doubled

BudgetInv == OwnIds /\ Budget

LEMMA KindsFinite == IsFiniteSet(FaultKinds)
<1> DEFINE A == {"create", "link", "publish", "recover", "consume"}
           B == {"egressPublish", "requeue", "ack", "find", "owner"}
           C == {"user", "existing", "verdict", "redis", "save"}
<1>1. ASSUME NEW a, NEW b, NEW c, NEW d, NEW e PROVE IsFiniteSet({a, b, c, d, e})
  <2>1. {a, b, c, d, e} = {a} \cup ({b} \cup ({c} \cup ({d} \cup {e})))
    OBVIOUS
  <2>2. IsFiniteSet({a}) /\ IsFiniteSet({b}) /\ IsFiniteSet({c}) /\ IsFiniteSet({d}) /\ IsFiniteSet({e})
    BY FS_Singleton
  <2>3. IsFiniteSet({d} \cup {e})
    BY <2>2, FS_Union
  <2>4. IsFiniteSet({c} \cup ({d} \cup {e}))
    BY <2>2, <2>3, FS_Union
  <2>5. IsFiniteSet({b} \cup ({c} \cup ({d} \cup {e})))
    BY <2>2, <2>4, FS_Union
  <2>6. IsFiniteSet({a} \cup ({b} \cup ({c} \cup ({d} \cup {e}))))
    BY <2>2, <2>5, FS_Union
  <2> QED BY <2>1, <2>6
<1>2. IsFiniteSet(A) /\ IsFiniteSet(B) /\ IsFiniteSet(C)
  BY <1>1
<1>3. FaultKinds = A \cup (B \cup C)
  BY DEF FaultKinds
<1> HIDE DEF A, B, C
<1> QED BY <1>2, <1>3, FS_Union

LEMMA FaultsFinite ==
  ASSUME NEW F, F \subseteq FaultKinds
  PROVE  /\ IsFiniteSet(F) /\ IsFiniteSet(F \cap Doubling)
         /\ Cardinality(F) \in Nat /\ Cardinality(F \cap Doubling) \in Nat
         /\ Cardinality(F \cap Doubling) <= Cardinality(F)
<1>1. IsFiniteSet(F) /\ F \cap Doubling \in SUBSET F
  BY KindsFinite, FS_Subset
<1> QED BY <1>1, FS_Subset, FS_CardinalityType

\* The failures that may double a delivery are at most all failures.
LEMMA DoubledType ==
  ASSUME TypeOK
  PROVE  /\ Doubled \in Nat /\ Cardinality(faults) \in Nat /\ crashes \in Nat
         /\ Doubled <= Cardinality(faults) + crashes
<1>1. faults \subseteq FaultKinds /\ crashes \in Nat
  BY DEF TypeOK, LedgersOK
<1> QED BY <1>1, FaultsFinite DEF Doubled

LEMMA DoubledTypeNext ==
  ASSUME TypeOK'
  PROVE  Doubled' \in Nat
<1>1. faults' \subseteq FaultKinds /\ crashes' \in Nat
  BY DEF TypeOK, LedgersOK, FaultKinds
<1>2. Cardinality(faults' \cap Doubling) \in Nat
  BY <1>1, FaultsFinite
<1>3. Doubled' = Cardinality(faults' \cap Doubling) + crashes'
  BY Zenon DEF Doubled, Doubling
<1> QED BY <1>1, <1>2, <1>3

\* A failure that can double a delivery raises the count, no other does.
LEMMA FailsDoubled ==
  ASSUME TypeOK, NEW k, Fails(k), crashes' = crashes
  PROVE  Doubled' = Doubled + One(k \in Doubling)
<1>1. k \notin faults /\ faults' = faults \cup {k}
  BY DEF Fails
<1>2. IsFiniteSet(faults \cap Doubling) /\ Cardinality(faults \cap Doubling) \in Nat /\ crashes \in Nat
  <2>1. faults \subseteq FaultKinds /\ crashes \in Nat
    BY DEF TypeOK, LedgersOK
  <2> QED BY <2>1, FaultsFinite
<1>3. /\ Doubled' = Cardinality(faults' \cap Doubling) + crashes'
      /\ Doubled = Cardinality(faults \cap Doubling) + crashes
  BY Zenon DEF Doubled, Doubling
<1>4. CASE k \in Doubling
  <2>1. faults' \cap Doubling = (faults \cap Doubling) \cup {k}
    BY <1>1, <1>4
  <2>2. Cardinality((faults \cap Doubling) \cup {k}) = Cardinality(faults \cap Doubling) + 1
    BY <1>1, <1>2, FS_AddElement
  <2>3. Cardinality(faults' \cap Doubling) = Cardinality(faults \cap Doubling) + 1
    BY <2>1, <2>2, Zenon
  <2> QED BY <1>2, <1>3, <1>4, <2>3 DEF One
<1>5. CASE k \notin Doubling
  <2>1. faults' \cap Doubling = faults \cap Doubling
    BY <1>1, <1>5
  <2>2. Cardinality(faults' \cap Doubling) = Cardinality(faults \cap Doubling)
    BY <2>1, Zenon
  <2> QED BY <1>2, <1>3, <1>5, <2>2 DEF One
<1> QED BY <1>4, <1>5

LEMMA OneType == \A c \in BOOLEAN : One(c) \in {0, 1}
BY DEF One

LEMMA DueTypes ==
  ASSUME TypeOK, NEW i \in Ids
  PROVE  /\ QCopies(i, ingress) \in Nat /\ QCopies(i, egress) \in Nat
         /\ redisPaid[i] \in Nat /\ sqlPaid[i] \in Nat /\ Doubled \in Nat
         /\ RedisDue(i) \in Int /\ SqlDue(i) \in Int
<1>1. ingress \in QueueOf(IngressMsg) /\ egress \in QueueOf(EgressMsg)
  BY DEF TypeOK, ConsumersOK
<1>2. QCopies(i, ingress) \in Nat /\ QCopies(i, egress) \in Nat
  BY <1>1, QCopiesType
<1>3. redisPaid[i] \in Nat /\ sqlPaid[i] \in Nat /\ Doubled \in Nat
  BY DoubledType DEF TypeOK, LedgersOK
<1>4. RedisDue(i) \in Int /\ SqlDue(i) \in Int
  BY <1>2, <1>3 DEF RedisDue, SqlDue, Due, One
<1> QED BY <1>2, <1>3, <1>4

\* What is paid and due of i grows by no more than the failures that may double a delivery.
NoGain(i) ==
    /\ RedisDue(i)' + Doubled <= RedisDue(i) + Doubled'
    /\ SqlDue(i)' + Doubled <= SqlDue(i) + Doubled'

LEMMA BudgetStep ==
  ASSUME TypeOK, TypeOK', BudgetInv, OwnIds', \A i \in Ids : NoGain(i)
  PROVE  BudgetInv'
<1> SUFFICES ASSUME NEW i \in Ids
             PROVE  RedisDue(i)' <= 1 + Doubled' /\ SqlDue(i)' <= 1 + Doubled'
  BY DEF BudgetInv, Budget, Ids
<1>1. RedisDue(i) \in Int /\ SqlDue(i) \in Int /\ Doubled \in Nat
  BY DueTypes
<1>2. RedisDue(i)' \in Int /\ SqlDue(i)' \in Int /\ Doubled' \in Nat
  <2>1. ingress' \in QueueOf(IngressMsg) /\ egress' \in QueueOf(EgressMsg)
    BY DEF TypeOK, ConsumersOK
  <2>2. QCopies(i, ingress') \in Nat /\ QCopies(i, egress') \in Nat
    BY <2>1, QCopiesType
  <2>3. redisPaid'[i] \in Nat /\ sqlPaid'[i] \in Nat
    BY DEF TypeOK, LedgersOK, Ids
  <2>4. Doubled' \in Nat
    BY DoubledTypeNext
  <2> QED BY <2>2, <2>3, <2>4 DEF RedisDue, SqlDue, Due, One
<1>3. RedisDue(i) <= 1 + Doubled /\ SqlDue(i) <= 1 + Doubled
  BY DEF BudgetInv, Budget
<1> QED BY <1>1, <1>2, <1>3 DEF NoGain

\* At the start nothing is paid, and every id is due once.
LEMMA BudgetInit == Init => BudgetInv
<1> SUFFICES ASSUME Init PROVE BudgetInv
  OBVIOUS
<1>1. OwnIds
  BY DEF Init, OwnIds
<1>2. ASSUME NEW i PROVE Copies(i, <<>>) = 0
  <2>1. {k \in DOMAIN <<>> : <<>>[k].id = i} = {}
    OBVIOUS
  <2> QED BY <2>1, FS_EmptySet DEF Copies
<1>3. Doubled = 0
  <2>1. faults \cap Doubling = {}
    BY DEF Init
  <2> QED BY <2>1, FS_EmptySet DEF Doubled, Init
<1>4. ASSUME NEW i \in Ids PROVE RedisDue(i) <= 1 + Doubled /\ SqlDue(i) <= 1 + Doubled
  <2>1. QCopies(i, ingress) = 0 /\ QCopies(i, egress) = 0
    BY <1>2 DEF Init, EmptyQueue, QCopies
  <2>2. redisPaid[i] = 0 /\ sqlPaid[i] = 0 /\ wpc = "recovering" /\ lpc = "recovering"
    BY DEF Init
  <2> QED BY <2>1, <2>2, <1>3 DEF RedisDue, SqlDue, Due, One
<1> QED BY <1>1, <1>4 DEF BudgetInv, Budget

\* The steps that leave the queues, what is paid and the consumers alone.
LEMMA BudgetFrame ==
  ASSUME TypeOK, TypeOK', BudgetInv, OwnIds',
         UNCHANGED <<ingress, egress, wpc, wmsg, lpc, lmsg, redisPaid, sqlPaid>>,
         Doubled <= Doubled', \A i \in Ids : Unsent(i)' => Unsent(i)
  PROVE  BudgetInv'
<1>1. ASSUME NEW i \in Ids PROVE NoGain(i)
  <2>1. /\ QCopies(i, ingress) \in Nat /\ QCopies(i, egress) \in Nat
        /\ redisPaid[i] \in Nat /\ sqlPaid[i] \in Nat /\ Doubled \in Nat
    BY DueTypes
  <2>2. Doubled' \in Nat
    BY DoubledTypeNext
  <2>3. One(Unsent(i)') <= One(Unsent(i)) /\ One(Unsent(i)') \in Nat /\ One(Unsent(i)) \in Nat
    BY DEF One
  <2> QED BY <2>1, <2>2, <2>3 DEF NoGain, RedisDue, SqlDue, Due, One
<1> QED BY <1>1, BudgetStep

\* Handlers: an id is handed out once, and published once by the handler that got it.
LEMMA HandlerStepBudget ==
  ASSUME TypeOK, TypeOK', BudgetInv, NEW h \in Handlers, HandlerStep(h)
  PROVE  BudgetInv'
<1> USE DEF HandlerFrame, workerVars, listenerVars, ledgers, tables
<1>0. /\ hpc \in [Handlers -> {"idle", "admitted", "scored", "inserting", "stored", "queued"}]
      /\ hreq \in [Handlers -> Request \cup {NoMsg}]
      /\ nextRS \in Nat /\ Doubled \in Nat
      /\ \A g \in Handlers : hpc[g] \in {"inserting", "stored"} => hreq[g].rsID \in Nat
      /\ \A g \in Handlers : hpc[g] # "idle" => hreq[g] \in Request
  BY DoubledType DEF TypeOK, HandlersOK, TablesOK, Ids
<1>1. OwnIds
  BY DEF BudgetInv
<1>2. CASE InsertRoundSubmission(h)
  <2>1. /\ hpc' = [hpc EXCEPT ![h] = "inserting"] /\ nextRS' = nextRS + 1
        /\ hreq'[h].rsID = nextRS /\ \A g \in Handlers \ {h} : hreq'[g] = hreq[g]
        /\ Doubled' = Doubled
    <3>1. faults' = faults /\ crashes' = crashes
      BY <1>2 DEF InsertRoundSubmission
    <3>2. Doubled' = Doubled
      BY <3>1, Zenon DEF Doubled, Doubling
    <3>3. hreq[h] \in Request
      BY <1>0, <1>2 DEF InsertRoundSubmission
    <3> QED BY <1>0, <1>2, <3>2, <3>3 DEF InsertRoundSubmission, Request
  <2>2. OwnIds'
    BY <1>0, <1>1, <2>1 DEF OwnIds
  <2>3. ASSUME NEW i \in Ids PROVE Unsent(i)' => Unsent(i)
    BY <1>0, <2>1 DEF Unsent, Ids
  <2> QED BY <1>0, <1>2, <2>1, <2>2, <2>3, BudgetFrame DEF InsertRoundSubmission
<1>3. CASE Enqueue(h)
  <2> DEFINE m == ToIngress(h)
  <2>1. m \in IngressMsg /\ m.id = hreq[h].rsID /\ hpc[h] = "stored"
    BY <1>3 DEF Enqueue, TypeOK, HandlersOK, Request, ToIngress, IngressMsg
  <2>2. ingress \in QueueOf(IngressMsg)
    BY DEF TypeOK, ConsumersOK
  <2>3. ingress' = ingress \/ ingress' = Publish(ingress, m)
    BY <1>3 DEF Enqueue
  <2>4. UNCHANGED <<egress, wpc, wmsg, lpc, lmsg, redisPaid, sqlPaid>>
    BY <1>3 DEF Enqueue
  <2>5. /\ hpc' = [hpc EXCEPT ![h] = "queued"] /\ hreq' = hreq /\ nextRS' = nextRS
        /\ Doubled' = Doubled
    <3>1. CASE faults' = faults
      BY <1>3, <3>1, Zenon DEF Enqueue, Doubled, Doubling
    <3>2. CASE Fails("publish")
      BY <1>3, <3>2, <1>0, FailsDoubled DEF Enqueue, One, Doubling
    <3> QED BY <1>3, <3>1, <3>2 DEF Enqueue
  <2>6. OwnIds'
    BY <1>0, <1>1, <2>5 DEF OwnIds
  <2>7. ASSUME NEW i \in Ids
        PROVE  QCopies(i, ingress') + One(Unsent(i)') <= QCopies(i, ingress) + One(Unsent(i))
               /\ QCopies(i, ingress') \in Nat
    <3>1. QCopies(i, ingress) \in Nat
      BY <2>2, QCopiesType
    <3>2. QCopies(i, Publish(ingress, m)) = QCopies(i, ingress) + One(m.id = i)
      BY <2>1, <2>2, PublishCopies
    <3>3. Unsent(i)' => Unsent(i) /\ m.id # i
      BY <1>0, <1>1, <2>1, <2>5 DEF Unsent, OwnIds
    <3>4. m.id = i => Unsent(i)
      BY <2>1 DEF Unsent
    <3> HIDE DEF m
    <3> QED BY <2>3, <3>1, <3>2, <3>3, <3>4 DEF One
  <2>8. ASSUME NEW i \in Ids PROVE NoGain(i)
    <3>1. /\ QCopies(i, ingress) \in Nat /\ QCopies(i, egress) \in Nat
          /\ redisPaid[i] \in Nat /\ sqlPaid[i] \in Nat /\ One(Unsent(i)) \in Nat /\ One(Unsent(i)') \in Nat
      BY DueTypes DEF One
    <3> QED BY <1>0, <2>4, <2>5, <2>7, <3>1 DEF NoGain, RedisDue, SqlDue, Due, One
  <2> QED BY <2>6, <2>8, BudgetStep
<1>4. CASE ~ InsertRoundSubmission(h) /\ ~ Enqueue(h)
  <2>1. /\ UNCHANGED <<ingress, egress, wpc, wmsg, lpc, lmsg, redisPaid, sqlPaid, nextRS, crashes>>
        /\ hpc' \in [Handlers -> {"idle", "admitted", "scored", "inserting", "stored", "queued"}]
        /\ \A g \in Handlers : hpc'[g] \in {"inserting", "stored"} =>
              hpc[g] \in {"inserting", "stored"} /\ hreq'[g] = hreq[g]
    BY <1>0, <1>4 DEF HandlerStep, Admit, ScoreRequest, CommitSubmission, RollbackSubmission,
                      LinkFails, CountSolved, HandlerDone
  <2>2. Doubled <= Doubled'
    <3>1. faults' = faults \/ Fails("create") \/ Fails("link")
      BY <1>4 DEF HandlerStep, Admit, ScoreRequest, CommitSubmission, RollbackSubmission,
                  LinkFails, CountSolved
    <3>2. CASE faults' = faults
      <4>1. Doubled' = Doubled
        BY <2>1, <3>2, Zenon DEF Doubled, Doubling
      <4> QED BY <4>1, <1>0
    <3>3. ASSUME NEW k, Fails(k) PROVE Doubled <= Doubled'
      BY <2>1, <3>3, <1>0, FailsDoubled DEF One
    <3> QED BY <3>1, <3>2, <3>3
  <2>3. OwnIds'
    BY <1>0, <1>1, <2>1 DEF OwnIds
  <2>4. ASSUME NEW i \in Ids PROVE Unsent(i)' => Unsent(i)
    BY <1>0, <2>1 DEF Unsent
  <2> QED BY <2>1, <2>2, <2>3, <2>4, BudgetFrame
<1> QED BY <1>2, <1>3, <1>4

\* What a failing or a successful round trip does to the count.
LEMMA RoundTripDoubled ==
  ASSUME TypeOK, crashes' = crashes
  PROVE  /\ UNCHANGED faults => Doubled' = Doubled
         /\ \A k : Fails(k) => Doubled' = Doubled + One(k \in Doubling)
<1>1. ASSUME UNCHANGED faults PROVE Doubled' = Doubled
  BY <1>1, Zenon DEF Doubled, Doubling
<1> QED BY <1>1, FailsDoubled

LEMMA RoundStepBudget == TypeOK /\ TypeOK' /\ BudgetInv /\ RoundStep => BudgetInv'
<1> SUFFICES ASSUME TypeOK, TypeOK', BudgetInv, RoundStep PROVE BudgetInv'
  OBVIOUS
<1>1. /\ UNCHANGED <<ingress, egress, wpc, wmsg, lpc, lmsg, redisPaid, sqlPaid>>
      /\ UNCHANGED <<nextRS, hpc, hreq, faults, crashes>>
  BY DEF RoundStep, EndRound, DeleteLeaderboard, DeleteRows, tables, handlerVars, workerVars,
         listenerVars, ledgers
<1>2. Doubled' = Doubled /\ Doubled \in Nat
  BY <1>1, RoundTripDoubled, DoubledType
<1>3. OwnIds' /\ \A i \in Ids : Unsent(i)' => Unsent(i)
  BY <1>1 DEF BudgetInv, OwnIds, Unsent
<1> QED BY <1>1, <1>2, <1>3, BudgetFrame

\* The worker: a message goes from one queue to the other and is then acked; it is in both
\* only while the worker is about to ack, or when the ack, or the reply of the publish, is lost.
LEMMA WorkerStepBudget ==
  TypeOK /\ TypeOK' /\ HeldIsParked /\ BudgetInv /\ (WorkerStep \/ WorkerRestart) => BudgetInv'
<1> SUFFICES ASSUME TypeOK, TypeOK', HeldIsParked, BudgetInv, WorkerStep \/ WorkerRestart PROVE BudgetInv'
  OBVIOUS
<1> USE DEF WorkerFrame, WorkerIdle, workerVars, handlerVars, listenerVars, ledgers, tables
<1>0. ingress \in QueueOf(IngressMsg) /\ egress \in QueueOf(EgressMsg)
  BY DEF TypeOK, ConsumersOK
<1>1. UNCHANGED <<lpc, lmsg, redisPaid, sqlPaid, nextRS, hpc, hreq, crashes>>
  BY DEF WorkerStep, WorkerRecover, WorkerConsume, WorkerPublish, WorkerRequeue, WorkerAck, WorkerRestart
<1>2. OwnIds'
  BY <1>1 DEF BudgetInv, OwnIds
<1>3. /\ UNCHANGED faults => Doubled' = Doubled
      /\ \A k : Fails(k) => Doubled' = Doubled + One(k \in Doubling)
  BY <1>1, RoundTripDoubled
<1> SUFFICES ASSUME NEW i \in Ids PROVE NoGain(i)
  BY <1>2, BudgetStep
<1> DEFINE qi == QCopies(i, ingress)
           qe == QCopies(i, egress)
           qi1 == QCopies(i, ingress')
           qe1 == QCopies(i, egress')
           wa == wpc = "acking" /\ wmsg.id = i
           wa1 == wpc' = "acking" /\ wmsg'.id = i
<1>4. /\ qi \in Nat /\ qe \in Nat /\ redisPaid[i] \in Nat /\ sqlPaid[i] \in Nat /\ Doubled \in Nat
  BY DueTypes
<1>5. Unsent(i)' = Unsent(i)
  BY <1>1 DEF Unsent
<1>6. ASSUME qi1 \in Int, qe1 \in Int, Doubled' \in Nat,
             qi1 + qe1 - One(wa1) + Doubled <= qi + qe - One(wa) + Doubled'
      PROVE  NoGain(i)
  <2> HIDE DEF qi, qe, qi1, qe1, wa, wa1
  <2> DEFINE un == One(Unsent(i))
             l1 == One(lpc \in {"saving", "acking"} /\ lmsg.id = i)
             l2 == One(lpc \in {"acking"} /\ lmsg.id = i)
  <2>1. un \in Int /\ l1 \in Int /\ l2 \in Int /\ One(wa) \in Int /\ One(wa1) \in Int
    BY DEF One
  <2>2. /\ RedisDue(i) = redisPaid[i] + (qi + qe + un - One(wa) - l1)
        /\ SqlDue(i) = sqlPaid[i] + (qi + qe + un - One(wa) - l2)
    BY DEF RedisDue, SqlDue, Due, qi, qe, wa
  <2>3. /\ RedisDue(i)' = redisPaid[i] + (qi1 + qe1 + un - One(wa1) - l1)
        /\ SqlDue(i)' = sqlPaid[i] + (qi1 + qe1 + un - One(wa1) - l2)
    BY <1>1, <1>5 DEF RedisDue, SqlDue, Due, qi1, qe1, wa1
  <2> HIDE DEF un, l1, l2
  <2> QED BY <1>4, <1>6, <2>1, <2>2, <2>3 DEF NoGain
<1>7. CASE WorkerRecover
  <2>1. qi1 = qi /\ qe1 = qe
    BY <1>0, <1>7, RecoverOneCopies DEF WorkerRecover
  <2>2. Doubled' = Doubled
    BY <1>3, <1>4, <1>7 DEF WorkerRecover, One, Doubling
  <2>3. ~ wa /\ ~ wa1
    BY <1>7 DEF WorkerRecover
  <2> HIDE DEF qi, qe, qi1, qe1, wa, wa1
  <2> QED BY <1>4, <1>6, <2>1, <2>2, <2>3 DEF One
<1>8. CASE WorkerConsume
  <2>1. qi1 = qi /\ qe1 = qe
    BY <1>0, <1>8, ConsumeCopies DEF WorkerConsume
  <2>2. Doubled' = Doubled
    BY <1>3, <1>4, <1>8 DEF WorkerConsume, One, Doubling
  <2>3. ~ wa
    BY <1>8 DEF WorkerConsume
  <2> HIDE DEF qi, qe, qi1, qe1, wa, wa1
  <2> QED BY <1>4, <1>6, <2>1, <2>2, <2>3 DEF One
<1>9. CASE WorkerPublish
  <2> DEFINE m == ToEgress(wmsg)
  <2>1. m \in EgressMsg /\ m.id = wmsg.id
    BY <1>9 DEF WorkerPublish, TypeOK, ConsumersOK, ToEgress, IngressMsg, EgressMsg
  <2>2. QCopies(i, Publish(egress, m)) = qe + One(wmsg.id = i)
    BY <1>0, <2>1, PublishCopies
  <2>3. qi1 = qi /\ ~ wa /\ wmsg' = wmsg
    BY <1>9 DEF WorkerPublish
  <2>4. \/ qe1 = qe + One(wmsg.id = i) /\ (wa1 <=> wmsg.id = i) /\ Doubled' = Doubled
        \/ qe1 \in {qe, qe + One(wmsg.id = i)} /\ ~ wa1 /\ Doubled' = Doubled + 1
    <3>1. CASE wpc' = "acking"
      BY <1>3, <1>9, <2>2, <2>3, <3>1 DEF WorkerPublish
    <3>2. CASE wpc' # "acking"
      <4>1. Doubled' = Doubled + 1
        BY <1>3, <1>4, <1>9, <3>2 DEF WorkerPublish, One, Doubling
      <4> QED BY <1>9, <2>2, <3>2, <4>1 DEF WorkerPublish
    <3> QED BY <3>1, <3>2
  <2> HIDE DEF qi, qe, qi1, qe1, wa, wa1, m
  <2> QED BY <1>4, <1>6, <2>3, <2>4 DEF One
<1>10. CASE WorkerRequeue
  <2>1. wmsg \in ToSet(ingress.processing)
    BY <1>10 DEF WorkerRequeue, HeldIsParked
  <2>2. qi1 = qi /\ qe1 = qe
    BY <1>0, <1>10, <2>1, ParkedCopies DEF WorkerRequeue
  <2>3. Doubled' = Doubled
    BY <1>3, <1>4, <1>10 DEF WorkerRequeue, One, Doubling
  <2>4. ~ wa /\ ~ wa1
    BY <1>10 DEF WorkerRequeue
  <2> HIDE DEF qi, qe, qi1, qe1, wa, wa1
  <2> QED BY <1>4, <1>6, <2>2, <2>3, <2>4 DEF One
<1>11. CASE WorkerAck
  <2>1. wmsg \in ToSet(ingress.processing)
    BY <1>11 DEF WorkerAck, HeldIsParked
  <2>2. QCopies(i, Ack(ingress, wmsg)) = qi - One(wmsg.id = i) /\ qe1 = qe
    BY <1>0, <1>11, <2>1, ParkedCopies DEF WorkerAck
  <2>3. (wa <=> wmsg.id = i) /\ ~ wa1
    BY <1>11 DEF WorkerAck
  <2>4. \/ qi1 = qi - One(wmsg.id = i) /\ Doubled' = Doubled
        \/ qi1 = qi /\ Doubled' = Doubled + 1
    <3>1. CASE ingress' = Ack(ingress, wmsg) /\ UNCHANGED faults
      BY <1>3, <2>2, <3>1
    <3>2. CASE Fails("ack") /\ ingress' = ingress
      BY <1>3, <1>4, <3>2 DEF One, Doubling
    <3> QED BY <1>11, <3>1, <3>2 DEF WorkerAck
  <2> HIDE DEF qi, qe, qi1, qe1, wa, wa1
  <2> QED BY <1>4, <1>6, <2>2, <2>3, <2>4 DEF One
<1>12. CASE WorkerRestart
  <2>1. qi1 = qi /\ qe1 = qe /\ ~ wa /\ ~ wa1
    BY <1>12 DEF WorkerRestart
  <2>2. Doubled' = Doubled
    BY <1>3, <1>12 DEF WorkerRestart
  <2> HIDE DEF qi, qe, qi1, qe1, wa, wa1
  <2> QED BY <1>4, <1>6, <2>1, <2>2 DEF One
<1> QED BY <1>7, <1>8, <1>9, <1>10, <1>11, <1>12 DEF WorkerStep

\* The listener and the crashes: a payment is counted when the listener makes it, and its copy
\* in the processing list then no longer counts, unless the ack is lost or the service dies.
LEMMA ListenerStepBudget ==
  TypeOK /\ TypeOK' /\ HeldIsParked /\ BudgetInv /\ ListenerStep => BudgetInv'
<1> SUFFICES ASSUME TypeOK, TypeOK', HeldIsParked, BudgetInv, ListenerStep PROVE BudgetInv'
  OBVIOUS
<1> USE DEF ListenerFrame, ListenerIdle, workerVars, handlerVars, listenerVars, ledgers
<1>0. egress \in QueueOf(EgressMsg) /\ redisPaid \in [Ids -> Nat] /\ sqlPaid \in [Ids -> Nat]
      /\ (lpc \notin {"down", "recovering", "idle"} => lmsg.id \in Ids)
  BY DEF TypeOK, ConsumersOK, LedgersOK, EgressMsg
<1>1. UNCHANGED <<ingress, wpc, wmsg, nextRS, hpc, hreq, crashes>>
  BY DEF ListenerStep, ListenerRecover, ListenerConsume, FindSubmission, CheckExisting, UpdateVerdict,
         UpdateLeaderboardScore, SaveLeaderboard, ListenerRequeue, ListenerAck, CentralRestart
<1>2. OwnIds'
  BY <1>1 DEF BudgetInv, OwnIds
<1>3. /\ UNCHANGED faults => Doubled' = Doubled
      /\ \A k : Fails(k) => Doubled' = Doubled + One(k \in Doubling)
  BY <1>1, RoundTripDoubled
<1> SUFFICES ASSUME NEW i \in Ids PROVE NoGain(i)
  BY <1>2, BudgetStep
<1> DEFINE qe == QCopies(i, egress)
           qe1 == QCopies(i, egress')
           a == lpc \in {"saving", "acking"} /\ lmsg.id = i
           a1 == lpc' \in {"saving", "acking"} /\ lmsg'.id = i
           b == lpc = "acking" /\ lmsg.id = i
           b1 == lpc' = "acking" /\ lmsg'.id = i
<1>4. /\ QCopies(i, ingress) \in Nat /\ qe \in Nat /\ redisPaid[i] \in Nat /\ sqlPaid[i] \in Nat
      /\ Doubled \in Nat
  BY DueTypes
<1>5. Unsent(i)' = Unsent(i)
  BY <1>1 DEF Unsent
<1>6. ASSUME qe1 \in Int, Doubled' \in Nat, redisPaid'[i] \in Nat, sqlPaid'[i] \in Nat,
             redisPaid'[i] + qe1 - One(a1) + Doubled <= redisPaid[i] + qe - One(a) + Doubled',
             sqlPaid'[i] + qe1 - One(b1) + Doubled <= sqlPaid[i] + qe - One(b) + Doubled'
      PROVE  NoGain(i)
  <2> DEFINE qi == QCopies(i, ingress)
             un == One(Unsent(i))
             w == One(wpc = "acking" /\ wmsg.id = i)
  <2>1. /\ RedisDue(i) = redisPaid[i] + (qi + qe + un - w - One(a))
        /\ SqlDue(i) = sqlPaid[i] + (qi + qe + un - w - One(b))
    BY DEF RedisDue, SqlDue, Due
  <2>2. /\ RedisDue(i)' = redisPaid'[i] + (qi + qe1 + un - w - One(a1))
        /\ SqlDue(i)' = sqlPaid'[i] + (qi + qe1 + un - w - One(b1))
    BY <1>1, <1>5 DEF RedisDue, SqlDue, Due
  <2>3. qi \in Int /\ un \in Int /\ w \in Int
    BY <1>4 DEF One
  <2> HIDE DEF qe, qe1, a, a1, b, b1
  <2>4. One(a) \in Int /\ One(a1) \in Int /\ One(b) \in Int /\ One(b1) \in Int
    BY DEF One
  <2> HIDE DEF qi, un, w
  <2> QED BY <1>4, <1>6, <2>1, <2>2, <2>3, <2>4 DEF NoGain
<1>7. CASE ListenerRecover \/ ListenerConsume \/ ListenerRequeue \/ CentralRestart
  <2>1. UNCHANGED <<redisPaid, sqlPaid>> /\ ~ a /\ ~ b /\ ~ a1 /\ ~ b1
    BY <1>7 DEF ListenerRecover, ListenerConsume, ListenerRequeue, CentralRestart
  <2>2. Doubled' = Doubled
    BY <1>3, <1>4, <1>7 DEF ListenerRecover, ListenerConsume, ListenerRequeue, CentralRestart, One, Doubling
  <2>3. lpc = "requeueing" => lmsg \in ToSet(egress.processing)
    BY DEF HeldIsParked
  <2>4. qe1 = qe
    BY <1>0, <1>7, <2>3, RecoverOneCopies, ConsumeCopies, ParkedCopies
       DEF ListenerRecover, ListenerConsume, ListenerRequeue, CentralRestart
  <2> HIDE DEF qe, qe1, a, a1, b, b1
  <2> QED BY <1>4, <1>6, <2>1, <2>2, <2>4 DEF One
<1>8. CASE FindSubmission \/ CheckExisting \/ UpdateVerdict
  <2>1. UNCHANGED <<redisPaid, sqlPaid, lmsg>> /\ ~ a /\ ~ b /\ qe1 = qe
    BY <1>8 DEF FindSubmission, CheckExisting, UpdateVerdict
  <2>2. Doubled' = Doubled
    BY <1>3, <1>4, <1>8 DEF FindSubmission, CheckExisting, UpdateVerdict, One, Doubling
  <2> HIDE DEF qe, qe1, a, a1, b, b1
  <2> QED BY <1>4, <1>6, <2>1, <2>2 DEF One
<1>9. CASE UpdateLeaderboardScore
  <2>1. UNCHANGED <<sqlPaid, lmsg>> /\ ~ a /\ ~ b /\ ~ b1 /\ (a1 <=> lmsg.id = i) /\ qe1 = qe
    BY <1>9 DEF UpdateLeaderboardScore, GoOn
  <2>2. Doubled' = Doubled
    <3>1. UNCHANGED faults \/ Fails("redis")
      BY <1>9 DEF UpdateLeaderboardScore
    <3> QED BY <1>3, <1>4, <3>1 DEF One, Doubling
  <2>3. redisPaid'[i] \in {redisPaid[i], redisPaid[i] + One(lmsg.id = i)}
    BY <1>0, <1>4, <1>9 DEF UpdateLeaderboardScore, One
  <2> HIDE DEF qe, qe1, a, a1, b, b1
  <2> QED BY <1>4, <1>6, <2>1, <2>2, <2>3 DEF One
<1>10. CASE SaveLeaderboard
  <2>1. UNCHANGED <<redisPaid, lmsg>> /\ ~ b /\ (a <=> lmsg.id = i) /\ (a1 <=> a) /\ (b1 <=> a) /\ qe1 = qe
    BY <1>10 DEF SaveLeaderboard, Settle
  <2>2. Doubled' = Doubled
    BY <1>3, <1>4, <1>10 DEF SaveLeaderboard, One, Doubling
  <2>3. sqlPaid'[i] \in {sqlPaid[i], sqlPaid[i] + One(lmsg.id = i)}
    BY <1>0, <1>4, <1>10 DEF SaveLeaderboard, One
  <2> HIDE DEF qe, qe1, a, a1, b, b1
  <2> QED BY <1>4, <1>6, <2>1, <2>2, <2>3 DEF One
<1>11. CASE ListenerAck
  <2>1. lmsg \in ToSet(egress.processing)
    BY <1>11 DEF ListenerAck, HeldIsParked
  <2>2. QCopies(i, Ack(egress, lmsg)) = qe - One(lmsg.id = i)
    BY <1>0, <2>1, ParkedCopies
  <2>3. UNCHANGED <<redisPaid, sqlPaid>> /\ (a <=> lmsg.id = i) /\ (b <=> lmsg.id = i) /\ ~ a1 /\ ~ b1
    BY <1>11 DEF ListenerAck
  <2>4. \/ qe1 = qe - One(lmsg.id = i) /\ Doubled' = Doubled
        \/ qe1 = qe /\ Doubled' = Doubled + 1
    <3>1. CASE egress' = Ack(egress, lmsg) /\ UNCHANGED faults
      BY <1>3, <2>2, <3>1
    <3>2. CASE Fails("ack") /\ egress' = egress
      BY <1>3, <1>4, <3>2 DEF One, Doubling
    <3> QED BY <1>11, <3>1, <3>2 DEF ListenerAck
  <2> HIDE DEF qe, qe1, a, a1, b, b1
  <2> QED BY <1>4, <1>6, <2>3, <2>4 DEF One
<1> QED BY <1>7, <1>8, <1>9, <1>10, <1>11 DEF ListenerStep

\* A crash makes at most the one message in hand due again.
LEMMA CrashBudget ==
  TypeOK /\ TypeOK' /\ BudgetInv /\ (WorkerCrash \/ CentralCrash) => BudgetInv'
<1> SUFFICES ASSUME TypeOK, TypeOK', BudgetInv, WorkerCrash \/ CentralCrash PROVE BudgetInv'
  OBVIOUS
<1> USE DEF workerVars, handlerVars, listenerVars, ledgers, tables
<1>1. /\ UNCHANGED <<ingress, egress, redisPaid, sqlPaid, nextRS, faults>> /\ crashes' = crashes + 1
      /\ (hpc' = hpc /\ hreq' = hreq) \/ \A h \in Handlers : hpc'[h] = "idle"
      /\ (wpc' = wpc /\ wmsg' = wmsg /\ lpc' = "down") \/ (wpc' = "down" /\ lpc' = lpc /\ lmsg' = lmsg)
  BY DEF WorkerCrash, CentralCrash
<1>2. OwnIds'
  BY <1>1 DEF BudgetInv, OwnIds
<1>3. Doubled' = Doubled + 1
  <2>1. Doubled' = Cardinality(faults \cap Doubling) + (crashes + 1)
    BY <1>1, Zenon DEF Doubled, Doubling
  <2>2. Cardinality(faults \cap Doubling) \in Nat /\ crashes \in Nat
    BY FaultsFinite DEF TypeOK, LedgersOK
  <2> QED BY <2>1, <2>2 DEF Doubled
<1> SUFFICES ASSUME NEW i \in Ids PROVE NoGain(i)
  BY <1>2, BudgetStep
<1>4. /\ QCopies(i, ingress) \in Nat /\ QCopies(i, egress) \in Nat
      /\ redisPaid[i] \in Nat /\ sqlPaid[i] \in Nat /\ Doubled \in Nat
  BY DueTypes
<1>5. Unsent(i)' => Unsent(i)
  BY <1>1 DEF Unsent
<1>6. One(Unsent(i)') <= One(Unsent(i)) /\ One(Unsent(i)') \in Nat /\ One(Unsent(i)) \in Nat
  BY <1>5 DEF One
<1> QED BY <1>1, <1>3, <1>4, <1>6 DEF NoGain, RedisDue, SqlDue, Due, One

LEMMA BudgetInvariant == Spec => []BudgetInv
<1>1. BudgetInv /\ DurabilityInv /\ DurabilityInv' /\ [Next]_vars => BudgetInv'
  <2> SUFFICES ASSUME BudgetInv, DurabilityInv, DurabilityInv', [Next]_vars PROVE BudgetInv'
    OBVIOUS
  <2>1. TypeOK /\ TypeOK' /\ HeldIsParked
    BY DEF DurabilityInv
  <2>2. CASE UNCHANGED vars
    <3>1. /\ UNCHANGED <<ingress, egress, wpc, wmsg, lpc, lmsg, redisPaid, sqlPaid>>
          /\ UNCHANGED <<nextRS, hpc, hreq, faults, crashes>>
      BY <2>2 DEF vars, tables, handlerVars, workerVars, listenerVars, ledgers
    <3>2. Doubled' = Doubled /\ Doubled \in Nat
      BY <2>1, <3>1, RoundTripDoubled, DoubledType
    <3>3. OwnIds' /\ \A i \in Ids : Unsent(i)' => Unsent(i)
      BY <3>1 DEF BudgetInv, OwnIds, Unsent
    <3> QED BY <2>1, <3>1, <3>2, <3>3, BudgetFrame
  <2> QED BY <2>1, <2>2, RoundStepBudget, HandlerStepBudget, WorkerStepBudget, ListenerStepBudget,
             CrashBudget DEF Next
<1> QED BY <1>1, BudgetInit, DurabilityInvariant, PTL DEF Spec

\* PaidBounded: a submission is paid in either leaderboard at most once more than there were
\* crashes and failed round trips, for any number of handlers, messages and redeliveries.
THEOREM PaymentsBounded == Spec => []PaidBounded
<1>1. BudgetInv /\ DurabilityInv => PaidBounded
  <2> SUFFICES ASSUME BudgetInv, DurabilityInv, NEW i \in Ids
               PROVE  /\ redisPaid[i] <= 1 + Cardinality(faults) + crashes
                      /\ sqlPaid[i] <= 1 + Cardinality(faults) + crashes
    BY DEF PaidBounded
  <2>1. TypeOK /\ HeldIsParked
    BY DEF DurabilityInv
  <2>2. /\ QCopies(i, ingress) \in Nat /\ QCopies(i, egress) \in Nat
        /\ redisPaid[i] \in Nat /\ sqlPaid[i] \in Nat
    BY <2>1, DueTypes
  <2>3. /\ Doubled \in Nat /\ Cardinality(faults) \in Nat /\ crashes \in Nat
        /\ Doubled <= Cardinality(faults) + crashes
    BY <2>1, DoubledType
  <2>4. ingress \in QueueOf(IngressMsg) /\ egress \in QueueOf(EgressMsg)
    BY <2>1 DEF TypeOK, ConsumersOK
  <2>5. wpc = "acking" => QCopies(i, ingress) >= One(wmsg.id = i)
    BY <2>1, <2>4, ParkedCopies DEF HeldIsParked
  <2>6. lpc \in {"saving", "acking"} => QCopies(i, egress) >= One(lmsg.id = i)
    BY <2>1, <2>4, ParkedCopies DEF HeldIsParked
  <2>7. QCopies(i, ingress) - One(wpc = "acking" /\ wmsg.id = i) >= 0
    BY <2>2, <2>5 DEF One
  <2>8. /\ QCopies(i, egress) - One(lpc \in {"saving", "acking"} /\ lmsg.id = i) >= 0
        /\ QCopies(i, egress) - One(lpc \in {"acking"} /\ lmsg.id = i) >= 0
    BY <2>2, <2>6 DEF One
  <2>9. RedisDue(i) >= redisPaid[i] /\ SqlDue(i) >= sqlPaid[i] /\ RedisDue(i) \in Int /\ SqlDue(i) \in Int
    BY <2>2, <2>7, <2>8 DEF RedisDue, SqlDue, Due, One
  <2>10. RedisDue(i) <= 1 + Doubled /\ SqlDue(i) <= 1 + Doubled
    BY DEF BudgetInv, Budget
  <2> QED BY <2>2, <2>3, <2>9, <2>10
<1> QED BY <1>1, BudgetInvariant, DurabilityInvariant, PTL

-----------------------------------------------------------------------------
(* The pipeline implements the ledger.  A pair is paid twice only if two    *)
(* rows of it are paid or one row is paid twice.  The listener's check for  *)
(* another accepted row happens three steps before it pays, and handlers    *)
(* insert accepted rows in between; what keeps them from being paid is that *)
(* a row is only ever paid when it is accepted (PaidAccepted), so that the  *)
(* check, made by the only listener, has seen every row paid before (Owes), *)
(* and the budget, which says that the row in hand is paid for the first    *)
(* time.                                                                    *)

\* Nothing delivers a message twice, hides an earlier solution or its user.
OnceOnly ==
    /\ Faults \cap (Doubling \cup {"existing", "user"}) = {}
    /\ MaxCrashes = 0 /\ Deletable = {}

NothingGone == faults \subseteq Faults /\ dropped = {} /\ \A d \in Rounds : roundStatus[d] # "deleted"

\* A score is the problem's or 0.
Scored ==
    /\ \A s \in rows : s.score \in {0, Score[s.problem]}
    /\ \A h \in Handlers : hpc[h] \in {"scored", "inserting"} => hreq[h].score \in {0, Score[hreq[h].problem]}

PaidAccepted == \A s \in rows : sqlPaid[s.subID] > 0 => s.verdict = Accepted

NotPaid(s) == \A t \in rows : t.user = s.user /\ t.problem = s.problem => sqlPaid[t.subID] = 0

\* The row s is the one the listener is about to pay.
Pays(s) ==
    /\ s.subID = lmsg.id /\ s.user = luser /\ s.score = lscore
    /\ lpc # "checking" => NotPaid(s)
    /\ lpc \in {"paying", "saving"} => s.verdict = Accepted

Owes ==
    /\ lpc \in {"down", "recovering", "idle", "finding"} => lscore = 0
    /\ lpc \in {"paying", "saving"} => lscore > 0
    /\ lpc \in {"checking", "updating", "paying", "saving"} /\ lscore > 0 =>
         lmsg.verdict = Accepted /\ \E s \in rows : Pays(s)

LedgerInv == NothingGone /\ Scored /\ PaidAccepted /\ Owes

\* While the listener works on a message, its submission has not been paid.
LEMMA UnpaidInHand ==
  ASSUME OnceOnly, TypeOK, HeldIsParked, BudgetInv, NothingGone,
         lpc \in {"checking", "updating", "paying", "saving"}
  PROVE  sqlPaid[lmsg.id] = 0
<1> DEFINE i == lmsg.id
<1>1. i \in Ids /\ lmsg \in ToSet(egress.processing)
  BY DEF TypeOK, ConsumersOK, EgressMsg, HeldIsParked
<1>2. ingress \in QueueOf(IngressMsg) /\ egress \in QueueOf(EgressMsg)
  BY DEF TypeOK, ConsumersOK
<1>3. Doubled = 0
  <2>1. faults \cap Doubling = {} /\ crashes = 0
    BY DEF OnceOnly, NothingGone, TypeOK, LedgersOK
  <2> QED BY <2>1, FS_EmptySet DEF Doubled
<1>4. QCopies(i, egress) >= 1
  BY <1>1, <1>2, ParkedCopies DEF One
<1>5. wpc = "acking" => QCopies(i, ingress) >= One(wmsg.id = i)
  BY <1>2, ParkedCopies DEF HeldIsParked
<1>6. QCopies(i, ingress) \in Nat /\ QCopies(i, egress) \in Nat /\ sqlPaid[i] \in Nat
  BY <1>1, DueTypes
<1>7. SqlDue(i) <= 1 + Doubled
  BY <1>1 DEF BudgetInv, Budget
<1> QED BY <1>3, <1>4, <1>5, <1>6, <1>7 DEF SqlDue, Due, One

\* UpdateVerdict changes nothing of a row but its verdict.
LEMMA VerdictKeepsRows ==
  ASSUME TypeOK, UpdateVerdict
  PROVE  /\ \A t \in rows' : \E s \in rows :
              /\ s.subID = t.subID /\ s.user = t.user /\ s.problem = t.problem /\ s.score = t.score
              /\ s.subID # lmsg.id => s.verdict = t.verdict
         /\ \A s \in rows : \E t \in rows' :
              /\ s.subID = t.subID /\ s.user = t.user /\ s.problem = t.problem /\ s.score = t.score
              /\ s.subID = lmsg.id /\ lpc' = "paying" => t.verdict = lmsg.verdict
<1>1. \A s \in rows : LET t == WithVerdict(s, lmsg.verdict)
                      IN  /\ s.subID = t.subID /\ s.user = t.user /\ s.problem = t.problem
                          /\ s.score = t.score /\ t.verdict = lmsg.verdict
  BY DEF TypeOK, TablesOK, Row, WithVerdict
<1>2. CASE rows' = rows /\ lpc' # "paying"
  BY <1>2
<1>3. CASE rows' = {IF s.subID = lmsg.id THEN WithVerdict(s, lmsg.verdict) ELSE s : s \in rows}
  <2>1. ASSUME NEW s \in rows
        PROVE  (IF s.subID = lmsg.id THEN WithVerdict(s, lmsg.verdict) ELSE s) \in rows'
    BY <1>3
  <2>2. ASSUME NEW t \in rows'
        PROVE  \E s \in rows : t = IF s.subID = lmsg.id THEN WithVerdict(s, lmsg.verdict) ELSE s
    BY <1>3
  <2>3. ASSUME NEW t \in rows'
        PROVE  \E s \in rows :
              /\ s.subID = t.subID /\ s.user = t.user /\ s.problem = t.problem /\ s.score = t.score
              /\ s.subID # lmsg.id => s.verdict = t.verdict
    BY <1>1, <2>2
  <2>4. ASSUME NEW s \in rows
        PROVE  \E t \in rows' :
              /\ s.subID = t.subID /\ s.user = t.user /\ s.problem = t.problem /\ s.score = t.score
              /\ s.subID = lmsg.id /\ lpc' = "paying" => t.verdict = lmsg.verdict
    <3>1. CASE s.subID = lmsg.id
      <4>1. WithVerdict(s, lmsg.verdict) \in rows'
        BY <2>1, <3>1
      <4> QED BY <1>1, <4>1
    <3>2. CASE s.subID # lmsg.id
      <4>1. s \in rows'
        BY <2>1, <3>2
      <4> QED BY <3>2, <4>1
    <3> QED BY <3>1, <3>2
  <2> QED BY <2>3, <2>4
<1> QED BY <1>2, <1>3 DEF UpdateVerdict, GoOn, Settle

\* The id of a new row has not been paid.
LEMMA NewRowUnpaid ==
  ASSUME TypeOK, PaymentInv, NEW h \in Handlers, CommitSubmission(h)
  PROVE  sqlPaid[nextSub] = 0
<1>1. nextSub \in Ids /\ nextSub \in Nat /\ sqlPaid \in [Ids -> Nat] /\ \A s \in rows : s.subID \in Nat
  BY DEF CommitSubmission, TypeOK, TablesOK, LedgersOK, Ids, Row
<1>2. \A s \in rows : s.subID # nextSub
  BY <1>1 DEF PaymentInv, OneRow
<1> QED BY <1>1, <1>2 DEF PaymentInv, KnownRows

LEMMA NothingGoneStep ==
  ASSUME OnceOnly, TypeOK, NothingGone, [Next]_vars
  PROVE  NothingGone'
<1>1. faults' \subseteq Faults
  <2>1. faults' = faults \/ \E k \in Faults : faults' = faults \cup {k}
    BY ZenonT(60) DEF Next, RoundStep, EndRound, DeleteLeaderboard, DeleteRows,
           HandlerStep, Admit, ScoreRequest, InsertRoundSubmission, CommitSubmission, RollbackSubmission,
           LinkFails, Enqueue, CountSolved,
           WorkerStep, WorkerRecover, WorkerConsume, WorkerPublish, WorkerRequeue, WorkerAck, WorkerRestart,
           ListenerStep, ListenerRecover, ListenerConsume, FindSubmission, CheckExisting, UpdateVerdict,
           UpdateLeaderboardScore, SaveLeaderboard, ListenerRequeue, ListenerAck, CentralRestart,
           WorkerCrash, CentralCrash, Fails, vars
  <2> QED BY <2>1 DEF NothingGone
<1>2. /\ dropped' = dropped
      /\ roundStatus' = roundStatus \/ \E d \in Rounds : roundStatus' = [roundStatus EXCEPT ![d] = "ended"]
  BY ZenonT(60) DEF OnceOnly, NothingGone, Next, RoundStep, EndRound, DeleteLeaderboard, DeleteRows,
         HandlerStep, Admit, ScoreRequest, InsertRoundSubmission, CommitSubmission, RollbackSubmission,
         LinkFails, Enqueue, CountSolved, HandlerFrame, WorkerFrame, ListenerFrame,
         WorkerStep, WorkerRecover, WorkerConsume, WorkerPublish, WorkerRequeue, WorkerAck, WorkerRestart,
         ListenerStep, ListenerRecover, ListenerConsume, FindSubmission, CheckExisting, UpdateVerdict,
         UpdateLeaderboardScore, SaveLeaderboard, ListenerRequeue, ListenerAck, CentralRestart,
         WorkerCrash, CentralCrash, roundVars, vars
<1> QED BY <1>1, <1>2 DEF NothingGone, TypeOK, TablesOK

\* A row keeps the score its handler computed from the problem.
LEMMA ScoredStep ==
  ASSUME TypeOK, Scored, [Next]_vars
  PROVE  Scored'
<1>0. /\ hpc \in [Handlers -> {"idle", "admitted", "scored", "inserting", "stored", "queued"}]
      /\ hreq \in [Handlers -> Request \cup {NoMsg}]
      /\ \A h \in Handlers : hpc[h] # "idle" => hreq[h] \in Request
  BY DEF TypeOK, HandlersOK
<1>1. ASSUME NEW h \in Handlers, HandlerStep(h) PROVE Scored'
  <2>1. CASE ScoreRequest(h)
    <3>1. hreq[h] \in Request /\ rows' = rows
      BY <1>0, <2>1 DEF ScoreRequest, tables
    <3>2. /\ hreq'[h].score \in {0, Score[hreq[h].problem]} /\ hreq'[h].problem = hreq[h].problem
          /\ \A g \in Handlers \ {h} : hreq'[g] = hreq[g] /\ hpc'[g] = hpc[g]
      BY <1>0, <2>1, <3>1 DEF ScoreRequest, DetermineScoreDelta, Request
    <3> QED BY <3>1, <3>2 DEF Scored
  <2>2. CASE InsertRoundSubmission(h)
    <3>1. hreq[h] \in Request /\ hpc[h] = "scored" /\ rows' = rows
      BY <1>0, <2>2 DEF InsertRoundSubmission
    <3>2. /\ hreq'[h].score = hreq[h].score /\ hreq'[h].problem = hreq[h].problem
          /\ \A g \in Handlers \ {h} : hreq'[g] = hreq[g] /\ hpc'[g] = hpc[g]
      BY <1>0, <2>2, <3>1 DEF InsertRoundSubmission, Request
    <3> QED BY <3>1, <3>2 DEF Scored
  <2>3. CASE CommitSubmission(h)
    <3>1. /\ hpc[h] = "inserting" /\ hreq' = hreq
          /\ \A g \in Handlers : hpc'[g] \in {"scored", "inserting"} => hpc'[g] = hpc[g]
      BY <1>0, <2>3 DEF CommitSubmission
    <3> DEFINE new == [rsID |-> hreq[h].rsID, subID |-> nextSub, round |-> hreq[h].round,
                       user |-> hreq[h].user, problem |-> hreq[h].problem, score |-> hreq[h].score,
                       verdict |-> hreq[h].verdict]
    <3>2. rows' = rows \cup {new} /\ new.score = hreq[h].score /\ new.problem = hreq[h].problem
      BY <2>3 DEF CommitSubmission
    <3> HIDE DEF new
    <3> QED BY <3>1, <3>2 DEF Scored
  <2>4. CASE ~ ScoreRequest(h) /\ ~ InsertRoundSubmission(h) /\ ~ CommitSubmission(h)
    <3>1. /\ rows' = rows
          /\ \A g \in Handlers : hpc'[g] \in {"scored", "inserting"} => hpc'[g] = hpc[g] /\ hreq'[g] = hreq[g]
      BY <1>0, <1>1, <2>4 DEF HandlerStep, Admit, RollbackSubmission, LinkFails, Enqueue, CountSolved,
                              HandlerDone, tables
    <3> QED BY <3>1 DEF Scored
  <2> QED BY <2>1, <2>2, <2>3, <2>4
<1>2. CASE UpdateVerdict
  <2>1. hpc' = hpc /\ hreq' = hreq
    BY <1>2 DEF UpdateVerdict, ListenerFrame, handlerVars
  <2>2. \A t \in rows' : t.score \in {0, Score[t.problem]}
    BY <1>2, VerdictKeepsRows DEF Scored
  <2> QED BY <2>1, <2>2 DEF Scored
<1>3. CASE (UNCHANGED vars) \/ RoundStep \/ WorkerStep \/ WorkerCrash \/ WorkerRestart \/ CentralCrash
           \/ (ListenerStep /\ ~ UpdateVerdict)
  <2>1. rows' = rows /\ ((hpc' = hpc /\ hreq' = hreq) \/ \A h \in Handlers : hpc'[h] = "idle")
    BY <1>3 DEF RoundStep, EndRound, DeleteLeaderboard, DeleteRows,
           WorkerStep, WorkerRecover, WorkerConsume, WorkerPublish, WorkerRequeue, WorkerAck, WorkerRestart,
           ListenerStep, ListenerRecover, ListenerConsume, FindSubmission, CheckExisting,
           UpdateLeaderboardScore, SaveLeaderboard, ListenerRequeue, ListenerAck, CentralRestart,
           WorkerCrash, CentralCrash, WorkerFrame, ListenerFrame, vars, tables, handlerVars
  <2> QED BY <2>1 DEF Scored
<1> QED BY <1>1, <1>2, <1>3 DEF Next

\* A step that pays nothing, changes no row, and leaves the listener where it is or done.
LEMMA OwesFrame ==
  ASSUME PaidAccepted, Owes, UNCHANGED <<rows, sqlPaid>>,
         \/ UNCHANGED listenerVars
         \/ lpc' \in {"down", "recovering", "idle", "finding"} /\ lscore' = 0
         \/ lpc' \in {"requeueing", "acking"}
  PROVE  PaidAccepted' /\ Owes'
<1>1. PaidAccepted'
  BY DEF PaidAccepted
<1>2. Owes'
  BY DEF Owes, Pays, NotPaid, listenerVars
<1> QED BY <1>1, <1>2

\* A row that is committed while the listener is about to pay has not been paid.
LEMMA CommitOwes ==
  ASSUME TypeOK, PaymentInv, PaidAccepted, Owes, NEW h \in Handlers, CommitSubmission(h)
  PROVE  PaidAccepted' /\ Owes'
<1> DEFINE new == [rsID |-> hreq[h].rsID, subID |-> nextSub, round |-> hreq[h].round,
                   user |-> hreq[h].user, problem |-> hreq[h].problem, score |-> hreq[h].score,
                   verdict |-> hreq[h].verdict]
<1>1. /\ rows' = rows \cup {new} /\ new.subID = nextSub
      /\ UNCHANGED <<sqlPaid, lpc, lmsg, lscore, luser>>
  BY DEF CommitSubmission, HandlerFrame, listenerVars, ledgers
<1>2. sqlPaid[nextSub] = 0
  BY NewRowUnpaid
<1> HIDE DEF new
<1>3. PaidAccepted'
  BY <1>1, <1>2 DEF PaidAccepted
<1>4. ASSUME NEW s \in rows, Pays(s) PROVE Pays(s)'
  BY <1>1, <1>2, <1>4 DEF Pays, NotPaid
<1>5. Owes'
  BY <1>1, <1>4 DEF Owes
<1> QED BY <1>3, <1>5

\* The listener checks, then pays: nobody else pays in between.
LEMMA ListenerOwes ==
  ASSUME OnceOnly, TypeOK, HeldIsParked, PaymentInv, BudgetInv, NothingGone, PaidAccepted, Owes, ListenerStep
  PROVE  PaidAccepted' /\ Owes'
<1> USE DEF ListenerFrame
<1>0. /\ lscore \in Nat /\ rows \subseteq Row /\ sqlPaid \in [Ids -> Nat]
      /\ lpc \notin {"down", "recovering", "idle"} => lmsg.id \in Ids
  BY DEF TypeOK, ConsumersOK, TablesOK, LedgersOK, EgressMsg
<1>1. CASE ListenerRecover \/ ListenerConsume \/ ListenerRequeue \/ ListenerAck \/ CentralRestart
  <2>1. UNCHANGED <<rows, sqlPaid>>
    BY <1>1 DEF ListenerRecover, ListenerConsume, ListenerRequeue, ListenerAck, CentralRestart, ledgers
  <2>2. \/ UNCHANGED listenerVars
        \/ lpc' \in {"down", "recovering", "idle", "finding"} /\ lscore' = 0
    BY <1>1 DEF ListenerRecover, ListenerConsume, ListenerRequeue, ListenerAck, CentralRestart,
                ListenerIdle, listenerVars, Owes
  <2> QED BY <2>1, <2>2, OwesFrame
<1>2. CASE FindSubmission
  <2>1. UNCHANGED <<rows, sqlPaid, lmsg>> /\ lscore = 0 /\ lpc = "finding"
    BY <1>2 DEF FindSubmission, ledgers, Owes
  <2>2. ~ Fails("user")
    BY DEF Fails, OnceOnly
  <2>3. \/ lpc' \in {"requeueing", "acking"}
        \/ lpc' = "updating" /\ lscore' = 0
        \/ lpc' = "checking" /\ lmsg.verdict = Accepted
           /\ \E s \in rows : s.subID = lmsg.id /\ lscore' = s.score /\ luser' = s.user
    BY <1>2, <2>1, <2>2 DEF FindSubmission, GoOn, Settle, FoundRows
  <2>4. PaidAccepted'
    BY <2>1 DEF PaidAccepted
  <2>5. Owes'
    BY <2>1, <2>3 DEF Owes, Pays
  <2> QED BY <2>4, <2>5
<1>3. CASE CheckExisting
  <2>1. UNCHANGED <<rows, sqlPaid, lmsg, luser>> /\ lpc = "checking" /\ lpc' = "updating"
    BY <1>3 DEF CheckExisting, GoOn, ledgers
  <2>2. ~ Fails("existing")
    BY DEF Fails, OnceOnly
  <2>3. PICK r \in FoundRows(lmsg.id) : lscore' = IF ExistingAccepted(luser, r) # {} THEN 0 ELSE lscore
    BY <1>3, <2>2 DEF CheckExisting
  <2>4. PaidAccepted'
    BY <2>1 DEF PaidAccepted
  <2>5. ASSUME lscore' > 0
        PROVE  lmsg.verdict = Accepted /\ \E s \in rows : Pays(s)'
    <3>1. lscore' = lscore /\ lscore > 0 /\ ExistingAccepted(luser, r) = {}
      BY <2>3, <2>5, <1>0
    <3>2. PICK s \in rows : Pays(s)
      BY <2>1, <3>1 DEF Owes
    <3>3. s = r /\ s.subID = lmsg.id /\ s.user = luser /\ s.score = lscore
      BY <2>3, <3>2 DEF Pays, FoundRows, PaymentInv, OneRow
    <3>4. sqlPaid[s.subID] = 0
      BY <2>1, <3>3, UnpaidInHand
    <3>5. ASSUME NEW t \in rows, t.user = s.user, t.problem = s.problem PROVE sqlPaid[t.subID] = 0
      <4>1. CASE t = s
        BY <4>1, <3>4
      <4>2. CASE t # s
        <5>1. Live(t)
          BY <1>0 DEF Live, NothingGone, Row
        <5>2. t.verdict # Accepted
          BY <3>1, <3>3, <3>5, <4>2, <5>1 DEF ExistingAccepted, AcceptedRows
        <5>3. ~ (sqlPaid[t.subID] > 0) /\ t.subID \in Ids
          BY <5>2, <1>0 DEF PaidAccepted, Row
        <5> QED BY <5>3, <1>0
      <4> QED BY <4>1, <4>2
    <3>6. NotPaid(s)
      BY <3>5 DEF NotPaid
    <3>7. Pays(s)'
      BY <2>1, <3>1, <3>3, <3>6 DEF Pays, NotPaid
    <3> QED BY <2>1, <3>1, <3>7 DEF Owes
  <2>6. Owes'
    BY <2>1, <2>5 DEF Owes
  <2> QED BY <2>4, <2>6
<1>4. CASE UpdateVerdict
  <2>1. UNCHANGED <<sqlPaid, lmsg, luser, lscore>> /\ lpc = "updating" /\ lpc' \in {"paying", "acking", "requeueing"}
        /\ (lpc' = "paying" => lmsg.verdict = Accepted /\ lscore > 0)
    BY <1>4 DEF UpdateVerdict, GoOn, Settle, ledgers
  <2>2. sqlPaid[lmsg.id] = 0
    BY <2>1, UnpaidInHand
  <2>3. /\ \A t \in rows' : \E s \in rows :
              /\ s.subID = t.subID /\ s.user = t.user /\ s.problem = t.problem
              /\ s.subID # lmsg.id => s.verdict = t.verdict
        /\ \A s \in rows : \E t \in rows' :
              /\ s.subID = t.subID /\ s.user = t.user /\ s.problem = t.problem /\ s.score = t.score
              /\ s.subID = lmsg.id /\ lpc' = "paying" => t.verdict = lmsg.verdict
    BY <1>4, VerdictKeepsRows
  <2>4. PaidAccepted'
    BY <2>1, <2>2, <2>3 DEF PaidAccepted
  <2>5. ASSUME lpc' = "paying" PROVE \E t \in rows' : Pays(t)'
    <3>1. PICK s \in rows : Pays(s)
      BY <2>1, <2>5 DEF Owes
    <3>2. s.subID = lmsg.id /\ s.user = luser /\ s.score = lscore /\ NotPaid(s)
      BY <2>1, <3>1 DEF Pays
    <3>3. PICK t \in rows' : /\ s.subID = t.subID /\ s.user = t.user /\ s.problem = t.problem /\ s.score = t.score
                             /\ t.verdict = lmsg.verdict
      BY <2>3, <2>5, <3>2
    <3>4. NotPaid(t)'
      BY <2>1, <2>3, <3>2, <3>3 DEF NotPaid
    <3>5. Pays(t)'
      BY <2>1, <2>5, <3>2, <3>3, <3>4 DEF Pays
    <3> QED BY <3>5
  <2>6. Owes'
    BY <2>1, <2>5 DEF Owes
  <2> QED BY <2>4, <2>6
<1>5. CASE UpdateLeaderboardScore
  <2>1. UNCHANGED <<rows, sqlPaid, lmsg, luser, lscore>> /\ lpc = "paying" /\ lpc' = "saving"
    BY <1>5 DEF UpdateLeaderboardScore, GoOn
  <2>2. PaidAccepted'
    BY <2>1 DEF PaidAccepted
  <2>3. Owes'
    BY <2>1 DEF Owes, Pays, NotPaid
  <2> QED BY <2>2, <2>3
<1>6. CASE SaveLeaderboard
  <2>1. UNCHANGED <<rows, lmsg>> /\ lpc = "saving" /\ lpc' = "acking"
        /\ (sqlPaid' = sqlPaid \/ sqlPaid' = [sqlPaid EXCEPT ![lmsg.id] = @ + 1])
    BY <1>6 DEF SaveLeaderboard, Settle
  <2>2. PICK s \in rows : Pays(s)
    BY <2>1 DEF Owes
  <2>3. \A t \in rows : t.subID = lmsg.id => t.verdict = Accepted
    BY <2>1, <2>2 DEF Pays, PaymentInv, OneRow
  <2>4. PaidAccepted'
    BY <1>0, <2>1, <2>3 DEF PaidAccepted, Row
  <2>5. Owes'
    BY <2>1 DEF Owes
  <2> QED BY <2>4, <2>5
<1> QED BY <1>1, <1>2, <1>3, <1>4, <1>5, <1>6 DEF ListenerStep

\* Every step but Save leaves the ledger alone.
LEMMA LedgerStutters ==
  ASSUME TypeOK, PaymentInv, [Next]_vars, ~ SaveLeaderboard
  PROVE  PaidPairs' = PaidPairs /\ sqlPts' = sqlPts
<1>1. sqlPts' = sqlPts /\ sqlPaid' = sqlPaid
  BY ZenonT(60) DEF Next, RoundStep, EndRound, DeleteLeaderboard, DeleteRows,
         HandlerStep, Admit, ScoreRequest, InsertRoundSubmission, CommitSubmission, RollbackSubmission,
         LinkFails, Enqueue, CountSolved, HandlerFrame, WorkerFrame,
         WorkerStep, WorkerRecover, WorkerConsume, WorkerPublish, WorkerRequeue, WorkerAck, WorkerRestart,
         ListenerStep, ListenerRecover, ListenerConsume, FindSubmission, CheckExisting, UpdateVerdict,
         UpdateLeaderboardScore, ListenerRequeue, ListenerAck, CentralRestart,
         WorkerCrash, CentralCrash, vars, ledgers
<1>2. CASE rows' = rows
  BY <1>1, <1>2 DEF PaidPairs
<1>3. ASSUME NEW h \in Handlers, CommitSubmission(h) PROVE PaidPairs' = PaidPairs
  <2> DEFINE new == [rsID |-> hreq[h].rsID, subID |-> nextSub, round |-> hreq[h].round,
                     user |-> hreq[h].user, problem |-> hreq[h].problem, score |-> hreq[h].score,
                     verdict |-> hreq[h].verdict]
  <2>1. rows' = rows \cup {new} /\ new.subID = nextSub
    BY <1>3 DEF CommitSubmission
  <2>2. sqlPaid[new.subID] = 0
    BY <1>3, <2>1, NewRowUnpaid
  <2> HIDE DEF new
  <2>3. {t \in rows' : sqlPaid'[t.subID] > 0} = {t \in rows : sqlPaid[t.subID] > 0}
    BY <1>1, <2>1, <2>2
  <2> QED BY <2>3 DEF PaidPairs
<1>4. CASE UpdateVerdict
  <2>1. \A t \in rows' : \E s \in rows : s.subID = t.subID /\ s.user = t.user /\ s.problem = t.problem
    BY <1>4, VerdictKeepsRows
  <2>2. \A s \in rows : \E t \in rows' : s.subID = t.subID /\ s.user = t.user /\ s.problem = t.problem
    BY <1>4, VerdictKeepsRows
  <2>3. ASSUME NEW x \in PaidPairs PROVE x \in PaidPairs'
    <3>1. PICK s \in rows : sqlPaid[s.subID] > 0 /\ x = <<s.user, s.problem>>
      BY <2>3 DEF PaidPairs
    <3> QED BY <1>1, <2>2, <3>1 DEF PaidPairs
  <2>4. ASSUME NEW x \in PaidPairs' PROVE x \in PaidPairs
    <3>1. PICK t \in rows' : sqlPaid'[t.subID] > 0 /\ x = <<t.user, t.problem>>
      BY <2>4 DEF PaidPairs
    <3> QED BY <1>1, <2>1, <3>1 DEF PaidPairs
  <2> QED BY <1>1, <2>3, <2>4
<1>5. (\E h \in Handlers : CommitSubmission(h)) \/ UpdateVerdict \/ rows' = rows
  BY DEF Next, RoundStep, EndRound, DeleteLeaderboard, DeleteRows,
         HandlerStep, Admit, ScoreRequest, InsertRoundSubmission, RollbackSubmission,
         LinkFails, Enqueue, CountSolved, WorkerFrame,
         WorkerStep, WorkerRecover, WorkerConsume, WorkerPublish, WorkerRequeue, WorkerAck, WorkerRestart,
         ListenerStep, ListenerRecover, ListenerConsume, FindSubmission, CheckExisting,
         UpdateLeaderboardScore, SaveLeaderboard, ListenerRequeue, ListenerAck, CentralRestart,
         WorkerCrash, CentralCrash, vars, tables
<1> QED BY <1>1, <1>2, <1>3, <1>4, <1>5

\* Save pays one pair for the first time, with the score of its problem, or pays nothing.
LEMMA SaveAwards ==
  ASSUME TypeOK, PaymentInv, LedgerInv, SaveLeaderboard
  PROVE  \/ \E u \in Users, p \in Problems : Ledger!Award(u, p)
         \/ PaidPairs' = PaidPairs /\ sqlPts' = sqlPts
<1>0. /\ rows \subseteq Row /\ sqlPaid \in [Ids -> Nat] /\ lmsg.id \in Ids /\ sqlPts \in [Users -> Nat]
      /\ lpc = "saving" /\ rows' = rows
  BY DEF SaveLeaderboard, TypeOK, TablesOK, LedgersOK, ConsumersOK, EgressMsg
<1>1. CASE sqlPts' = sqlPts /\ sqlPaid' = sqlPaid
  BY <1>0, <1>1 DEF PaidPairs
<1>2. CASE /\ CreditedRow(luser) # NoUser
           /\ sqlPts' = [sqlPts EXCEPT ![CreditedRow(luser)] = @ + lscore]
           /\ sqlPaid' = [sqlPaid EXCEPT ![lmsg.id] = @ + 1]
  <2>1. PICK s \in rows : Pays(s)
    BY <1>0 DEF LedgerInv, Owes
  <2>2. lscore > 0 /\ s.subID = lmsg.id /\ s.user = luser /\ s.score = lscore /\ NotPaid(s)
    BY <1>0, <2>1 DEF LedgerInv, Owes, Pays
  <2>3. s.user \in Users /\ s.problem \in Problems /\ s.subID \in Ids
    BY <1>0 DEF Row
  <2>4. CreditedRow(luser) = s.user
    BY <2>2, <2>3 DEF CreditedRow
  <2>5. lscore = Score[s.problem]
    BY <2>2 DEF LedgerInv, Scored
  <2>6. <<s.user, s.problem>> \notin PaidPairs
    <3> SUFFICES ASSUME NEW t \in rows, sqlPaid[t.subID] > 0, <<t.user, t.problem>> = <<s.user, s.problem>>
                 PROVE  FALSE
      BY DEF PaidPairs
    <3>1. sqlPaid[t.subID] = 0
      BY <2>2 DEF NotPaid
    <3> QED BY <3>1
  <2>7. ASSUME NEW t \in rows
        PROVE  sqlPaid'[t.subID] > 0 <=> sqlPaid[t.subID] > 0 \/ t = s
    <3>1. t.subID \in Ids /\ (t.subID = lmsg.id <=> t = s)
      BY <1>0, <2>2 DEF Row, PaymentInv, OneRow
    <3>2. sqlPaid[t.subID] \in Nat
      BY <1>0, <3>1
    <3>3. sqlPaid'[t.subID] = IF t = s THEN sqlPaid[t.subID] + 1 ELSE sqlPaid[t.subID]
      BY <1>0, <1>2, <3>1
    <3> QED BY <3>2, <3>3
  <2>8. PaidPairs' = PaidPairs \cup {<<s.user, s.problem>>}
    <3>1. ASSUME NEW x \in PaidPairs' PROVE x \in PaidPairs \cup {<<s.user, s.problem>>}
      <4>1. PICK t \in rows : sqlPaid'[t.subID] > 0 /\ x = <<t.user, t.problem>>
        BY <1>0, <3>1 DEF PaidPairs
      <4> QED BY <2>7, <4>1 DEF PaidPairs
    <3>2. ASSUME NEW x \in PaidPairs \cup {<<s.user, s.problem>>} PROVE x \in PaidPairs'
      <4>1. PICK t \in rows : (sqlPaid[t.subID] > 0 \/ t = s) /\ x = <<t.user, t.problem>>
        BY <3>2 DEF PaidPairs
      <4> QED BY <1>0, <2>7, <4>1 DEF PaidPairs
    <3> QED BY <3>1, <3>2
  <2>9. sqlPts' = [sqlPts EXCEPT ![s.user] = @ + Score[s.problem]]
    BY <1>2, <2>4, <2>5
  <2>10. Ledger!Award(s.user, s.problem)
    BY <2>6, <2>8, <2>9 DEF Ledger!Award
  <2> QED BY <2>3, <2>10
<1> QED BY <1>1, <1>2 DEF SaveLeaderboard

LEMMA LedgerInvStep ==
  ASSUME OnceOnly, DurabilityInv, PaymentInv, BudgetInv, LedgerInv, [Next]_vars
  PROVE  LedgerInv'
<1>1. TypeOK /\ HeldIsParked /\ NothingGone /\ Scored /\ PaidAccepted /\ Owes
  BY DEF DurabilityInv, LedgerInv
<1>2. NothingGone' /\ Scored'
  BY <1>1, NothingGoneStep, ScoredStep
<1>3. PaidAccepted' /\ Owes'
  <2>1. ASSUME NEW h \in Handlers, HandlerStep(h), ~ CommitSubmission(h) PROVE PaidAccepted' /\ Owes'
    <3>1. UNCHANGED <<rows, sqlPaid>> /\ UNCHANGED listenerVars
      BY <2>1 DEF HandlerStep, Admit, ScoreRequest, InsertRoundSubmission, RollbackSubmission,
                  LinkFails, Enqueue, CountSolved, HandlerFrame, tables, ledgers
    <3> QED BY <1>1, <3>1, OwesFrame
  <2>2. CASE (UNCHANGED vars) \/ RoundStep \/ WorkerStep \/ WorkerRestart \/ WorkerCrash \/ CentralCrash
    <3>1. UNCHANGED <<rows, sqlPaid>> /\ ((UNCHANGED listenerVars) \/ (lpc' = "down" /\ lscore' = 0))
      BY <2>2 DEF RoundStep, EndRound, DeleteLeaderboard, DeleteRows, WorkerStep, WorkerRecover,
                  WorkerConsume, WorkerPublish, WorkerRequeue, WorkerAck, WorkerRestart, WorkerCrash,
                  CentralCrash, WorkerFrame, vars, tables, ledgers
    <3> QED BY <1>1, <3>1, OwesFrame
  <2> QED BY <1>1, <2>1, <2>2, CommitOwes, ListenerOwes DEF Next
<1> QED BY <1>2, <1>3 DEF LedgerInv

LEMMA LedgerInvInit == OnceOnly /\ Init => LedgerInv /\ Ledger!LedgerInit
<1> SUFFICES ASSUME OnceOnly, Init PROVE LedgerInv /\ Ledger!LedgerInit
  OBVIOUS
<1>1. NothingGone /\ Scored /\ PaidAccepted
  BY DEF Init, NothingGone, Scored, PaidAccepted
<1>2. Owes
  BY DEF Init, Owes
<1>3. Ledger!LedgerInit
  BY DEF Init, PaidPairs, Ledger!LedgerInit
<1> QED BY <1>1, <1>2, <1>3 DEF LedgerInv

\* RefinesLedger: when nothing delivers a message twice, hides an earlier solution or deletes a
\* room, every step of the pipeline leaves the global leaderboard alone or pays one problem to
\* one user for the first time, with the score of that problem: for any number of handlers
\* racing with the listener, and with every other round trip failing.
THEOREM ImplementsLedger ==
  ASSUME OnceOnly
  PROVE  Spec => RefinesLedger
<1>1. LedgerInv /\ DurabilityInv /\ PaymentInv /\ BudgetInv /\ [Next]_vars => LedgerInv'
  BY LedgerInvStep
<1>2. LedgerInv /\ DurabilityInv /\ PaymentInv /\ [Next]_vars
         => [\E u \in Users, p \in Problems : Ledger!Award(u, p)]_<<PaidPairs, sqlPts>>
  BY LedgerStutters, SaveAwards DEF DurabilityInv
<1>3. Init => LedgerInv /\ Ledger!LedgerInit
  BY LedgerInvInit
<1> QED BY <1>1, <1>2, <1>3, DurabilityInvariant, PaymentInvariant, BudgetInvariant, PTL
        DEF Spec, RefinesLedger, Ledger!LedgerSpec
=============================================================================
