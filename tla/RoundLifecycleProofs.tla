------------------------ MODULE RoundLifecycleProofs ------------------------
(***************************************************************************)
(* Proofs about RoundLifecycle, for any number of handlers, users, rounds, *)
(* faults and restarts: as long as no two transactions of                  *)
(* InitiateRoundStart overlap, RoundService.db is put back to the pool on  *)
(* every way out of the loop, so that no statement of another request is   *)
(* made in a transaction that has ended.  And if the requests come one at  *)
(* a time, everyone in the room takes part in its round.                   *)
(***************************************************************************)
EXTENDS RoundLifecycle, WellFoundedInduction, TLAPS

\* Between the two calls of SetDBConnection, and around them.
Swapped == {"rows", "restore", "undo"}
Around == {"swap", "commit", "rollback"}
Elsewhere == {"idle", "insert", "fill", "append", "duration", "users", "problems", "update", "rtc",
              "begin", "timer", "end", "endRtc", "joinAdd", "joinPart"}

\* A record with the fields of a request, whatever they hold.
IsRequest(r) == DOMAIN r = {"round", "dur", "todo", "user", "tx", "saved", "mark"}

Shape ==
    /\ pc \in [Handlers -> Swapped \cup Around \cup Elsewhere]
    /\ req = [h \in Handlers |-> req[h]] /\ \A h \in Handlers : IsRequest(req[h])

\* A start works in a transaction of its own, to which RoundService.db is set from its swap to
\* its restore, and which then sets it back to the pool.
Own(h) ==
    /\ pc[h] \in Swapped \cup Around => req[h].tx = h
    /\ pc[h] \in Swapped => handle = h /\ req[h].saved = "pool"
    /\ pc[h] \in Around => handle = "pool"

OneStart == \A g, h \in Handlers : pc[g] \in Swapped \cup Around /\ pc[h] \in Swapped \cup Around => g = h

Away == \E h \in Handlers : pc[h] \in Swapped /\ handle = h

HandleInv ==
    /\ Shape
    /\ ~overlapped => OneStart /\ (handle = "pool" \/ Away) /\ \A h \in Handlers : Own(h)

-----------------------------------------------------------------------------
(* Requests *)

LEMMA BlankRequest == IsRequest(Blank)
BY DEF IsRequest, Blank

\* Setting fields keeps a request, and the other fields.
LEMMA RequestFields ==
  ASSUME NEW r, IsRequest(r), NEW a, NEW b
  PROVE  /\ IsRequest([r EXCEPT !.round = a]) /\ IsRequest([r EXCEPT !.dur = a])
         /\ IsRequest([r EXCEPT !.round = a, !.dur = b]) /\ IsRequest([r EXCEPT !.user = a, !.round = b])
         /\ IsRequest([r EXCEPT !.todo = a])
         /\ [r EXCEPT !.todo = a].tx = r.tx /\ [r EXCEPT !.todo = a].saved = r.saved
         /\ IsRequest([r EXCEPT !.tx = a, !.mark = b]) /\ [r EXCEPT !.tx = a, !.mark = b].tx = a
         /\ IsRequest([r EXCEPT !.tx = a])
         /\ IsRequest([r EXCEPT !.saved = a]) /\ [r EXCEPT !.saved = a].saved = a /\ [r EXCEPT !.saved = a].tx = r.tx
         /\ IsRequest([r EXCEPT !.saved = a, !.todo = b]) /\ [r EXCEPT !.saved = a, !.todo = b].tx = r.tx
         /\ IsRequest([r EXCEPT !.tx = a, !.saved = b])
<1>1. "tx" \in DOMAIN r /\ "saved" \in DOMAIN r
  BY DEF IsRequest
<1>2. IsRequest([r EXCEPT !.round = a]) /\ IsRequest([r EXCEPT !.dur = a])
  BY DEF IsRequest
<1>3. IsRequest([r EXCEPT !.round = a, !.dur = b]) /\ IsRequest([r EXCEPT !.user = a, !.round = b])
  BY DEF IsRequest
<1>4. IsRequest([r EXCEPT !.todo = a]) /\ [r EXCEPT !.todo = a].tx = r.tx /\ [r EXCEPT !.todo = a].saved = r.saved
  BY <1>1 DEF IsRequest
<1>5. IsRequest([r EXCEPT !.tx = a, !.mark = b]) /\ [r EXCEPT !.tx = a, !.mark = b].tx = a
  BY <1>1 DEF IsRequest
<1>6. IsRequest([r EXCEPT !.tx = a])
  BY DEF IsRequest
<1>7. IsRequest([r EXCEPT !.saved = a]) /\ [r EXCEPT !.saved = a].saved = a /\ [r EXCEPT !.saved = a].tx = r.tx
  BY <1>1 DEF IsRequest
<1>8. IsRequest([r EXCEPT !.saved = a, !.todo = b]) /\ [r EXCEPT !.saved = a, !.todo = b].tx = r.tx
  BY <1>1 DEF IsRequest
<1>9. IsRequest([r EXCEPT !.tx = a, !.saved = b])
  BY DEF IsRequest
<1>. QED  BY <1>2, <1>3, <1>4, <1>5, <1>6, <1>7, <1>8, <1>9

\* Handler h goes to l with request r.
Moves(h, l, r) ==
    /\ pc' = [pc EXCEPT ![h] = l] /\ req' = [req EXCEPT ![h] = r]
    /\ l \in Swapped \cup Around \cup Elsewhere /\ IsRequest(r)

LEMMA MovesAt ==
  ASSUME Shape, NEW h \in Handlers, NEW l, NEW r, Moves(h, l, r)
  PROVE  /\ Shape' /\ pc'[h] = l /\ req'[h] = r
         /\ \A g \in Handlers \ {h} : pc'[g] = pc[g] /\ req'[g] = req[g]
BY DEF Shape, Moves

\* The request goes on outside of its transaction.
LEMMA ElsewhereOK ==
  ASSUME HandleInv, NEW h \in Handlers, pc[h] \in Elsewhere, NEW l \in Elsewhere, NEW r, Moves(h, l, r),
         UNCHANGED <<handle, overlapped>>
  PROVE  HandleInv'
<1>1. Shape' /\ pc'[h] = l /\ \A g \in Handlers \ {h} : pc'[g] = pc[g] /\ req'[g] = req[g]
  BY MovesAt DEF HandleInv
<1>2. l \notin Swapped \cup Around /\ pc[h] \notin Swapped \cup Around
  BY DEF Elsewhere, Swapped, Around
<1>. QED  BY <1>1, <1>2 DEF HandleInv, OneStart, Away, Own

LEMMA ReturnOK ==
  ASSUME HandleInv, NEW h \in Handlers, pc[h] \in Elsewhere, Return(h), UNCHANGED <<handle, overlapped>>
  PROVE  HandleInv'
<1>1. Moves(h, "idle", Blank)
  BY BlankRequest DEF Return, Moves, Elsewhere
<1>. QED  BY <1>1, ElsewhereOK DEF Elsewhere

LEMMA GotoOK ==
  ASSUME HandleInv, NEW h \in Handlers, pc[h] \in Elsewhere, NEW l \in Elsewhere, Goto(h, l),
         UNCHANGED <<handle, overlapped>>
  PROVE  HandleInv'
<1>1. Moves(h, l, req[h])
  BY DEF Goto, Moves, HandleInv, Shape
<1>. QED  BY <1>1, ElsewhereOK

LEMMA BeginOK ==
  ASSUME HandleInv, NEW h \in Handlers, NEW k, NEW l \in Elsewhere, NEW r, IsRequest(r), Begin(h, k, l, r),
         UNCHANGED <<handle, overlapped>>
  PROVE  HandleInv'
<1>1. Moves(h, l, r) /\ pc[h] \in Elsewhere
  BY DEF Begin, Moves, Elsewhere
<1>. QED  BY <1>1, ElsewhereOK

\* Nobody moves.
LEMMA StillOK == ASSUME HandleInv, UNCHANGED <<pc, req, handle, overlapped>> PROVE HandleInv'
BY DEF HandleInv, Shape, OneStart, Away, Own

-----------------------------------------------------------------------------
(* Requests that arrive, and their steps outside of the transaction *)

LEMMA ArrivalOK == ASSUME HandleInv, NEW h \in Handlers, Arrival(h) PROVE HandleInv'
<1>1. IsRequest(Blank)
  BY BlankRequest
<1>2. CASE CreateFind(h)
  <2>1. PICK x \in Durations : Begin(h, "create", "insert", [Blank EXCEPT !.dur = x])
    BY <1>2 DEF CreateFind
  <2>2. IsRequest([Blank EXCEPT !.dur = x]) /\ UNCHANGED <<handle, overlapped>>
    BY <1>1, <1>2, RequestFields DEF CreateFind
  <2>. QED  BY <2>1, <2>2, BeginOK DEF Elsewhere
<1>3. CASE DurationFind(h)
  <2>1. PICK d \in RoundIds, x \in Durations : Begin(h, "duration", "duration", [Blank EXCEPT !.round = d, !.dur = x])
    BY <1>3 DEF DurationFind
  <2>2. IsRequest([Blank EXCEPT !.round = d, !.dur = x]) /\ UNCHANGED <<handle, overlapped>>
    BY <1>1, <1>3, RequestFields DEF DurationFind
  <2>. QED  BY <2>1, <2>2, BeginOK DEF Elsewhere
<1>4. CASE StartFind(h)
  <2>1. PICK d \in RoundIds : Begin(h, "start", "users", [Blank EXCEPT !.round = d, !.dur = db.dur[d]])
    BY <1>4 DEF StartFind
  <2>2. IsRequest([Blank EXCEPT !.round = d, !.dur = db.dur[d]]) /\ UNCHANGED <<handle, overlapped>>
    BY <1>1, <1>4, RequestFields DEF StartFind
  <2>. QED  BY <2>1, <2>2, BeginOK DEF Elsewhere
<1>5. CASE EndFind(h)
  <2>1. PICK d \in RoundIds : Begin(h, "end", "end", [Blank EXCEPT !.round = d])
    BY <1>5 DEF EndFind
  <2>2. IsRequest([Blank EXCEPT !.round = d]) /\ UNCHANGED <<handle, overlapped>>
    BY <1>1, <1>5, RequestFields DEF EndFind
  <2>. QED  BY <2>1, <2>2, BeginOK DEF Elsewhere
<1>6. CASE JoinFind(h)
  <2>1. PICK u \in Users : \E n : Begin(h, "join", "joinAdd", [Blank EXCEPT !.user = u, !.round = n])
    BY <1>6 DEF JoinFind
  <2>2. PICK n : Begin(h, "join", "joinAdd", [Blank EXCEPT !.user = u, !.round = n])
    BY <2>1
  <2>3. IsRequest([Blank EXCEPT !.user = u, !.round = n]) /\ UNCHANGED <<handle, overlapped>>
    BY <1>1, <1>6, RequestFields DEF JoinFind
  <2>. QED  BY <2>2, <2>3, BeginOK DEF Elsewhere
<1>. QED  BY <1>2, <1>3, <1>4, <1>5, <1>6 DEF Arrival

LEMMA OutsideOK ==
  ASSUME HandleInv, NEW h \in Handlers,
         \/ CreateInsert(h) \/ CreateFill(h) \/ CreateAppend(h) \/ UpdateRoundDuration(h)
         \/ StartUsers(h) \/ StartProblems(h) \/ StartUpdate(h) \/ StartRtc(h) \/ StartTimer(h)
         \/ EndUpdate(h) \/ EndRtc(h) \/ JoinAdd(h) \/ JoinPart(h)
  PROVE  HandleInv'
<1>1. IsRequest(req[h])
  BY DEF HandleInv, Shape
<1>2. CASE CreateInsert(h)
  <2>1. pc[h] \in Elsewhere /\ UNCHANGED <<handle, overlapped>>
    BY <1>2 DEF CreateInsert, At, Elsewhere
  <2>2. CASE Return(h)
    BY <2>1, <2>2, ReturnOK
  <2>3. CASE pc' = [pc EXCEPT ![h] = "fill"] /\ req' = [req EXCEPT ![h].round = nextRound]
    <3>1. IsRequest([req[h] EXCEPT !.round = nextRound])
      BY <1>1, RequestFields
    <3>2. Moves(h, "fill", [req[h] EXCEPT !.round = nextRound])
      BY <2>3, <3>1 DEF Moves, Elsewhere
    <3>. QED  BY <2>1, <3>2, ElsewhereOK DEF Elsewhere
  <2>. QED  BY <1>2, <2>2, <2>3 DEF CreateInsert
<1>3. CASE StartUsers(h)
  <2>1. pc[h] \in Elsewhere /\ UNCHANGED <<handle, overlapped>>
    BY <1>3 DEF StartUsers, At, Elsewhere
  <2>2. CASE Return(h)
    BY <2>1, <2>2, ReturnOK
  <2>3. CASE pc' = [pc EXCEPT ![h] = "problems"] /\ req' = [req EXCEPT ![h].todo = present]
    <3>1. IsRequest([req[h] EXCEPT !.todo = present])
      BY <1>1, RequestFields
    <3>2. Moves(h, "problems", [req[h] EXCEPT !.todo = present])
      BY <2>3, <3>1 DEF Moves, Elsewhere
    <3>. QED  BY <2>1, <3>2, ElsewhereOK DEF Elsewhere
  <2>. QED  BY <1>3, <2>2, <2>3 DEF StartUsers
<1>4. ASSUME UNCHANGED <<handle, overlapped>>, pc[h] \in Elsewhere,
             Return(h) \/ \E l \in Elsewhere : Goto(h, l)
      PROVE  HandleInv'
  BY <1>4, ReturnOK, GotoOK
<1>5. CASE CreateFill(h)
  <2>1. pc[h] \in Elsewhere /\ UNCHANGED <<handle, overlapped>> /\ (Return(h) \/ Goto(h, "append"))
    BY <1>5 DEF CreateFill, At, Elsewhere
  <2>. QED  BY <2>1, <1>4 DEF Elsewhere
<1>6. CASE CreateAppend(h) \/ UpdateRoundDuration(h)
  <2>1. pc[h] \in Elsewhere /\ UNCHANGED <<handle, overlapped>> /\ Return(h)
    BY <1>6 DEF CreateAppend, UpdateRoundDuration, At, Elsewhere
  <2>. QED  BY <2>1, <1>4
<1>7. CASE StartProblems(h)
  <2>1. pc[h] \in Elsewhere /\ UNCHANGED <<handle, overlapped>> /\ (Return(h) \/ Goto(h, "update"))
    BY <1>7 DEF StartProblems, At, Elsewhere
  <2>. QED  BY <2>1, <1>4 DEF Elsewhere
<1>8. CASE StartUpdate(h)
  <2>1. pc[h] \in Elsewhere /\ UNCHANGED <<handle, overlapped>> /\ (Return(h) \/ Goto(h, "rtc"))
    BY <1>8 DEF StartUpdate, At, Elsewhere
  <2>. QED  BY <2>1, <1>4 DEF Elsewhere
<1>9. CASE StartRtc(h)
  <2>1. pc[h] \in Elsewhere /\ UNCHANGED <<handle, overlapped>> /\ Goto(h, "begin")
    BY <1>9 DEF StartRtc, At, Elsewhere
  <2>. QED  BY <2>1, <1>4 DEF Elsewhere
<1>10. CASE StartTimer(h) \/ EndRtc(h) \/ JoinPart(h)
  <2>1. pc[h] \in Elsewhere /\ UNCHANGED <<handle, overlapped>> /\ Return(h)
    BY <1>10 DEF StartTimer, EndRtc, JoinPart, At, Elsewhere
  <2>. QED  BY <2>1, <1>4
<1>11. CASE EndUpdate(h)
  <2>1. pc[h] \in Elsewhere /\ UNCHANGED <<handle, overlapped>> /\ (Return(h) \/ Goto(h, "endRtc"))
    BY <1>11 DEF EndUpdate, At, Elsewhere
  <2>. QED  BY <2>1, <1>4 DEF Elsewhere
<1>12. CASE JoinAdd(h)
  <2>1. pc[h] \in Elsewhere /\ UNCHANGED <<handle, overlapped>> /\ (Return(h) \/ Goto(h, "joinPart"))
    BY <1>12 DEF JoinAdd, At, Elsewhere
  <2>. QED  BY <2>1, <1>4 DEF Elsewhere
<1>. QED  BY <1>2, <1>3, <1>5, <1>6, <1>7, <1>8, <1>9, <1>10, <1>11, <1>12

-----------------------------------------------------------------------------
(* The transaction of InitiateRoundStart *)

LEMMA StartBeginOK == ASSUME HandleInv, NEW h \in Handlers, StartBegin(h) PROVE HandleInv'
<1>1. pc[h] \in Elsewhere /\ UNCHANGED handle /\ Shape /\ IsRequest(req[h])
  BY DEF StartBegin, At, Elsewhere, HandleInv, Shape
<1>2. CASE Return(h) /\ UNCHANGED overlapped
  BY <1>1, <1>2, ReturnOK
<1>3. CASE /\ handle # "dead" /\ pc' = [pc EXCEPT ![h] = "swap"]
           /\ req' = [req EXCEPT ![h].tx = IF handle = "pool" THEN h ELSE handle,
                                 ![h].mark = IF handle = "pool" THEN 0 ELSE Len(pend[handle])]
           /\ overlapped' = (overlapped \/ \E g \in Handlers \ {h} : InTransaction(g))
  <2>1. PICK t, n : /\ t = (IF handle = "pool" THEN h ELSE handle)
                    /\ n = (IF handle = "pool" THEN 0 ELSE Len(pend[handle]))
    OBVIOUS
  <2>2. PICK r : r = [req[h] EXCEPT !.tx = t, !.mark = n] /\ IsRequest(r) /\ r.tx = t
    <3>1. IsRequest([req[h] EXCEPT !.tx = t, !.mark = n])
      BY <1>1, RequestFields
    <3>2. [req[h] EXCEPT !.tx = t, !.mark = n].tx = t
      BY <1>1 DEF IsRequest
    <3>. QED  BY <3>1, <3>2
  <2>3. Moves(h, "swap", r)
    BY <1>3, <2>1, <2>2 DEF Moves, Around
  <2>4. Shape' /\ pc'[h] = "swap" /\ req'[h] = r /\ \A g \in Handlers \ {h} : pc'[g] = pc[g] /\ req'[g] = req[g]
    BY <1>1, <2>3, MovesAt
  <2>5. ASSUME ~overlapped' PROVE (OneStart /\ (handle = "pool" \/ Away) /\ \A g \in Handlers : Own(g))'
    <3>1. ~overlapped /\ \A g \in Handlers \ {h} : pc[g] \notin Swapped \cup Around
      BY <1>3, <2>5 DEF InTransaction, Swapped, Around
    <3>2. pc[h] \notin Swapped
      BY <1>1 DEF Elsewhere, Swapped
    <3>3. handle = "pool"
      BY <3>1, <3>2 DEF HandleInv, Away
    <3>4. r.tx = h /\ "swap" \in Around /\ "swap" \notin Swapped
      BY <2>1, <2>2, <3>3 DEF Around, Swapped
    <3>. QED  BY <1>1, <2>4, <3>1, <3>3, <3>4 DEF OneStart, Own
  <2>. QED  BY <2>4, <2>5 DEF HandleInv
<1>. QED  BY <1>2, <1>3 DEF StartBegin

\* A step of the start that is in its transaction.
LEMMA InsideOK ==
  ASSUME HandleInv, NEW h \in Handlers, pc[h] \in Swapped \cup Around, NEW l, NEW r, Moves(h, l, r),
         UNCHANGED overlapped,
         ~overlapped =>
             /\ l \in Swapped \cup Around => r.tx = h
             /\ l \in Swapped => handle' = h /\ r.saved = "pool"
             /\ l \notin Swapped => handle' = "pool"
  PROVE  HandleInv'
<1>1. Shape' /\ pc'[h] = l /\ req'[h] = r /\ \A g \in Handlers \ {h} : pc'[g] = pc[g] /\ req'[g] = req[g]
  BY MovesAt DEF HandleInv
<1>2. ASSUME ~overlapped' PROVE (OneStart /\ (handle = "pool" \/ Away) /\ \A g \in Handlers : Own(g))'
  <2>1. \A g \in Handlers \ {h} : pc[g] \notin Swapped \cup Around
    BY <1>2 DEF HandleInv, OneStart
  <2>2. Swapped \cap Around = {}
    BY DEF Swapped, Around
  <2>. QED  BY <1>1, <1>2, <2>1, <2>2 DEF OneStart, Own, Away
<1>. QED  BY <1>1, <1>2 DEF HandleInv

LEMMA StartSwapOK == ASSUME HandleInv, NEW h \in Handlers, StartSwap(h) PROVE HandleInv'
<1>1. pc[h] = "swap" /\ handle' = req[h].tx /\ UNCHANGED overlapped /\ IsRequest(req[h])
  BY DEF StartSwap, At, HandleInv, Shape
<1>2. PICK r : r = [req[h] EXCEPT !.saved = handle] /\ IsRequest(r) /\ r.saved = handle /\ r.tx = req[h].tx
  <2>1. IsRequest([req[h] EXCEPT !.saved = handle])
    BY <1>1, RequestFields
  <2>2. [req[h] EXCEPT !.saved = handle].saved = handle
    BY <1>1 DEF IsRequest
  <2>3. [req[h] EXCEPT !.saved = handle].tx = req[h].tx
    BY <1>1 DEF IsRequest
  <2>. QED  BY <2>1, <2>2, <2>3
<1>3. Moves(h, "rows", r)
  BY <1>2 DEF StartSwap, Moves, Swapped
<1>4. ~overlapped => req[h].tx = h /\ handle = "pool"
  BY <1>1 DEF HandleInv, Own, Around
<1>5. pc[h] \in Swapped \cup Around /\ "rows" \in Swapped
  BY <1>1 DEF Swapped, Around
<1>. QED  BY <1>1, <1>2, <1>3, <1>4, <1>5, InsideOK

LEMMA StartRowOK == ASSUME HandleInv, NEW h \in Handlers, StartRow(h) PROVE HandleInv'
<1>1. pc[h] = "rows" /\ UNCHANGED <<handle, overlapped>> /\ IsRequest(req[h])
  BY DEF StartRow, At, HandleInv, Shape
<1>2. pc[h] \in Swapped \cup Around /\ {"rows", "restore", "undo"} \subseteq Swapped
  BY <1>1 DEF Swapped
<1>3. ~overlapped => req[h].tx = h /\ req[h].saved = "pool" /\ handle = h
  BY <1>1, <1>2 DEF HandleInv, Own, Swapped
<1>4. PICK u \in req[h].todo :
          \/ /\ pc' = [pc EXCEPT ![h] = IF req[h].todo = {u} THEN "restore" ELSE "rows"]
             /\ req' = [req EXCEPT ![h].todo = @ \ {u}]
          \/ Goto(h, "undo")
  BY DEF StartRow
<1>5. \E l \in Swapped : \E r : Moves(h, l, r) /\ r.tx = req[h].tx /\ r.saved = req[h].saved
  <2>1. CASE Goto(h, "undo")
    <3>1. Moves(h, "undo", req[h])
      BY <1>1, <2>1 DEF Goto, Moves, Swapped, HandleInv, Shape
    <3>. QED  BY <1>2, <3>1
  <2>2. CASE /\ pc' = [pc EXCEPT ![h] = IF req[h].todo = {u} THEN "restore" ELSE "rows"]
             /\ req' = [req EXCEPT ![h].todo = @ \ {u}]
    <3>1. PICK s : s = req[h].todo \ {u}
      OBVIOUS
    <3>2. PICK r : r = [req[h] EXCEPT !.todo = s] /\ IsRequest(r) /\ r.tx = req[h].tx /\ r.saved = req[h].saved
      BY <1>1, RequestFields
    <3>3. PICK l \in Swapped : l = IF req[h].todo = {u} THEN "restore" ELSE "rows"
      BY DEF Swapped
    <3>4. Moves(h, l, r)
      BY <2>2, <3>1, <3>2, <3>3 DEF Moves
    <3>. QED  BY <3>2, <3>4
  <2>. QED  BY <1>4, <2>1, <2>2
<1>6. PICK l \in Swapped : \E r : Moves(h, l, r) /\ r.tx = req[h].tx /\ r.saved = req[h].saved
  BY <1>5
<1>7. PICK r : Moves(h, l, r) /\ r.tx = req[h].tx /\ r.saved = req[h].saved
  BY <1>6
<1>. QED  BY <1>1, <1>2, <1>3, <1>6, <1>7, InsideOK

LEMMA StartRestoreOK == ASSUME HandleInv, NEW h \in Handlers, StartRestore(h) PROVE HandleInv'
<1>1. pc[h] \in {"restore", "undo"} /\ handle' = req[h].saved /\ UNCHANGED overlapped /\ IsRequest(req[h])
  BY DEF StartRestore, HandleInv, Shape
<1>2. pc[h] \in Swapped
  BY <1>1 DEF Swapped
<1>3. ~overlapped => req[h].tx = h /\ req[h].saved = "pool"
  BY <1>2 DEF HandleInv, Own
<1>4. PICK r : r = [req[h] EXCEPT !.saved = "pool", !.todo = {}] /\ IsRequest(r) /\ r.tx = req[h].tx
  <2>1. IsRequest([req[h] EXCEPT !.saved = "pool", !.todo = {}])
    BY <1>1, RequestFields
  <2>2. [req[h] EXCEPT !.saved = "pool", !.todo = {}].tx = req[h].tx
    BY <1>1 DEF IsRequest
  <2>. QED  BY <2>1, <2>2
<1>5. PICK l \in Around : pc' = [pc EXCEPT ![h] = l]
  BY DEF StartRestore, Around
<1>6. Moves(h, l, r)
  BY <1>4, <1>5 DEF StartRestore, Moves
<1>7. l \notin Swapped
  BY <1>5 DEF Around, Swapped
<1>. QED  BY <1>1, <1>2, <1>3, <1>4, <1>6, <1>7, InsideOK

\* The end of the transaction of h, whose handle has been put back already.
LEMMA EndTransactionOK ==
  ASSUME HandleInv, NEW h \in Handlers, pc[h] \in Around, NEW l \in Elsewhere, NEW r, IsRequest(r),
         EndTransaction(h, l, r), UNCHANGED overlapped
  PROVE  HandleInv'
<1>1. pc' = [pc EXCEPT ![h] = l] /\ handle' = After(h, handle)
      /\ req' = [g \in Handlers |->
                   IF g = h THEN r ELSE [req[g] EXCEPT !.tx = After(h, req[g].tx), !.saved = After(h, req[g].saved)]]
  BY DEF EndTransaction
<1>2. Shape'
  <2>1. \A g \in Handlers : IsRequest([req[g] EXCEPT !.tx = After(h, req[g].tx), !.saved = After(h, req[g].saved)])
    <3>. SUFFICES ASSUME NEW g \in Handlers
                  PROVE  IsRequest([req[g] EXCEPT !.tx = After(h, req[g].tx), !.saved = After(h, req[g].saved)])
      OBVIOUS
    <3>1. IsRequest(req[g])
      BY DEF HandleInv, Shape
    <3>. QED  BY <3>1, RequestFields
  <2>2. \A g \in Handlers : IsRequest(req'[g])
    BY <1>1, <2>1
  <2>3. req' = [g \in Handlers |-> req'[g]]
    BY <1>1
  <2>4. pc' \in [Handlers -> Swapped \cup Around \cup Elsewhere]
    BY <1>1 DEF HandleInv, Shape
  <2>. QED  BY <2>2, <2>3, <2>4 DEF Shape
<1>3. ASSUME ~overlapped' PROVE (OneStart /\ (handle = "pool" \/ Away) /\ \A g \in Handlers : Own(g))'
  <2>1. \A g \in Handlers \ {h} : pc[g] \notin Swapped \cup Around
    BY <1>3 DEF HandleInv, OneStart
  <2>2. handle = "pool" /\ "pool" # h
    BY <1>3, HandlersAssumption DEF HandleInv, Own
  <2>3. handle' = "pool"
    BY <1>1, <2>2 DEF After
  <2>4. \A g \in Handlers : pc'[g] \notin Swapped \cup Around
    BY <1>1, <2>1 DEF HandleInv, Shape, Elsewhere, Swapped, Around
  <2>. QED  BY <2>3, <2>4 DEF OneStart, Own
<1>. QED  BY <1>2, <1>3 DEF HandleInv

LEMMA StartCommitOK == ASSUME HandleInv, NEW h \in Handlers, StartCommit(h) PROVE HandleInv'
<1>1. pc[h] \in Around /\ UNCHANGED overlapped /\ IsRequest(req[h]) /\ "timer" \in Elsewhere
  BY DEF StartCommit, At, Around, HandleInv, Shape, Elsewhere
<1>2. CASE req[h].tx = h
  <2>1. EndTransaction(h, "timer", [req[h] EXCEPT !.tx = "pool"]) \/ EndTransaction(h, "idle", Blank)
    BY <1>2 DEF StartCommit
  <2>2. IsRequest([req[h] EXCEPT !.tx = "pool"]) /\ IsRequest(Blank) /\ "idle" \in Elsewhere
    BY <1>1, RequestFields, BlankRequest DEF Elsewhere
  <2>. QED  BY <1>1, <2>1, <2>2, EndTransactionOK
<1>3. CASE req[h].tx # h
  <2>1. overlapped
    BY <1>1, <1>3 DEF HandleInv, Own
  <2>2. PICK r : r = [req[h] EXCEPT !.tx = "pool", !.mark = 0] /\ IsRequest(r)
    BY <1>1 DEF IsRequest
  <2>3. Moves(h, "timer", r)
    BY <1>3, <2>2 DEF StartCommit, Moves, Elsewhere
  <2>4. pc[h] \in Swapped \cup Around
    BY <1>1
  <2>. QED  BY <1>1, <2>1, <2>3, <2>4, InsideOK
<1>. QED  BY <1>2, <1>3

LEMMA StartRollbackOK == ASSUME HandleInv, NEW h \in Handlers, StartRollback(h) PROVE HandleInv'
<1>1. pc[h] \in Around /\ UNCHANGED overlapped /\ IsRequest(Blank) /\ "idle" \in Elsewhere
  BY BlankRequest DEF StartRollback, At, Around, Elsewhere
<1>2. CASE req[h].tx = h /\ EndTransaction(h, "idle", Blank)
  BY <1>1, <1>2, EndTransactionOK
<1>3. CASE req[h].tx # h /\ Return(h)
  <2>1. overlapped
    BY <1>1, <1>3 DEF HandleInv, Own
  <2>2. Moves(h, "idle", Blank)
    BY <1>1, <1>3 DEF Return, Moves
  <2>3. pc[h] \in Swapped \cup Around
    BY <1>1
  <2>. QED  BY <1>1, <2>1, <2>2, <2>3, InsideOK
<1>4. req[h].tx = "dead" => req[h].tx # h
  BY HandlersAssumption
<1>. QED  BY <1>2, <1>3, <1>4 DEF StartRollback

-----------------------------------------------------------------------------
(* The theorems *)

LEMMA HandleInit == ASSUME Init PROVE HandleInv
<1>1. pc = [h \in Handlers |-> "idle"] /\ req = [h \in Handlers |-> Blank] /\ handle = "pool"
  BY DEF Init
<1>2. "idle" \in Elsewhere /\ "idle" \notin Swapped \cup Around
  BY DEF Elsewhere, Swapped, Around
<1>. QED  BY <1>1, <1>2, BlankRequest DEF HandleInv, Shape, OneStart, Own

\* After a restart everything is as it was at first.
LEMMA CrashOK == ASSUME HandleInv, Crash PROVE HandleInv'
<1>1. pc' = [h \in Handlers |-> "idle"] /\ req' = [h \in Handlers |-> Blank] /\ handle' = "pool"
  BY DEF Crash
<1>2. "idle" \in Elsewhere /\ "idle" \notin Swapped \cup Around
  BY DEF Elsewhere, Swapped, Around
<1>3. Shape'
  BY <1>1, <1>2, BlankRequest DEF Shape
<1>4. (OneStart /\ \A h \in Handlers : Own(h))'
  BY <1>1, <1>2 DEF OneStart, Own
<1>. QED  BY <1>1, <1>3, <1>4 DEF HandleInv

LEMMA HandleNext == ASSUME HandleInv, [Next]_vars PROVE HandleInv'
<1>1. CASE UNCHANGED vars
  BY <1>1, StillOK DEF vars
<1>2. ASSUME NEW h \in Handlers, Work(h) PROVE HandleInv'
  BY <1>2, OutsideOK, StartBeginOK, StartSwapOK, StartRowOK, StartRestoreOK, StartCommitOK, StartRollbackOK DEF Work
<1>3. ASSUME NEW h \in Handlers, Arrival(h) PROVE HandleInv'
  BY <1>3, ArrivalOK
<1>4. ASSUME NEW d \in RoundIds, Task(d) PROVE HandleInv'
  <2>1. UNCHANGED <<pc, req, handle, overlapped>>
    BY <1>4 DEF Task, TimerEnd, TimerTell
  <2>. QED  BY <2>1, StillOK
<1>5. ASSUME NEW u \in Users, Leave(u) PROVE HandleInv'
  <2>1. UNCHANGED <<pc, req, handle, overlapped>>
    BY <1>5 DEF Leave
  <2>. QED  BY <2>1, StillOK
<1>. QED  BY <1>1, <1>2, <1>3, <1>4, <1>5, CrashOK DEF Next

\* While no two starts overlap, a start works in a transaction of its own and knows that the pool
\* is what it has to put back.
THEOREM HandleInvariant == Spec => []HandleInv
<1>1. Init => HandleInv
  BY HandleInit
<1>2. HandleInv /\ [Next]_vars => HandleInv'
  BY HandleNext
<1>. QED  BY <1>1, <1>2, PTL DEF Spec

\* While no two starts overlap, RoundService.db is away from the pool only between the two calls of
\* SetDBConnection (round.go:232-246), whichever row fails and whatever other requests do meanwhile.
THEOREM HandleComesHome == Spec => []HandleHome
<1>1. HandleInv => HandleHome
  BY DEF HandleInv, HandleHome, Away, Swapped
<1>. QED  BY <1>1, HandleInvariant, PTL

-----------------------------------------------------------------------------
(* Requests that come one at a time: everyone in the room plays              *)

Statuses == {"none", "created", "started", "ended"}

\* What the statements keep of the rows.
RowsOK(t) ==
    /\ t = [status |-> t.status, filled |-> t.filled, dur |-> t.dur, parts |-> t.parts]
    /\ t.status \in [RoundIds -> Statuses]
    /\ t.parts = [d \in RoundIds |-> t.parts[d]]

\* What InitiateRoundStart writes in its transaction, and what a task adds to it.
Writes == [op : {"part"}, round : RoundIds, val : Users] \cup [op : {"status"}, round : RoundIds, val : {"ended"}]

\* The members that the transaction of h makes participants of round d.
Added(h, d) == {pend[h][i].val : i \in To(pend[h], d, {"part"})}

\* Round d is played, and is the only round of the room.
Played(d) == db.status[d] = "started" /\ \A e \in RoundIds \ {d} : db.status[e] = "none"

Settled == \A d \in RoundIds : Played(d) => present \subseteq db.parts[d]

Calm == faults = {} /\ crashes = 0

\* A start before its UPDATE, and after it.
Waiting == {"users", "problems", "update"}
Starting == {"rtc", "begin", "swap", "rows", "restore", "commit"}

\* Before its UPDATE a start has a round that is not played; from then on all members of the room
\* are in the list it has read or in what it has written, until the commit makes them participants.
StartOK(h) ==
    /\ pc[h] \in Waiting \cup Starting => req[h].round \in RoundIds
    /\ pc[h] \in Waiting => db.status[req[h].round] \in {"created", "ended"}
    /\ pc[h] \in Starting => db.status[req[h].round] # "none"
    /\ pc[h] \in {"problems", "update", "rtc", "begin", "swap"} =>
           present \subseteq req[h].todo /\ req[h].todo \subseteq Users
    /\ pc[h] = "rows" =>
           present \subseteq req[h].todo \cup Added(h, req[h].round) /\ req[h].todo \subseteq Users
    /\ pc[h] \in {"restore", "commit"} => present \subseteq Added(h, req[h].round)
    /\ pc[h] \notin {"rows", "restore", "commit"} => pend[h] = <<>>

\* Who joins has found the round that is played.
JoinOK(h) ==
    /\ pc[h] = "joinAdd" =>
           req[h].user \in Users /\ \A d \in RoundIds : Played(d) => present \subseteq db.parts[d] /\ req[h].round = d
    /\ pc[h] = "joinPart" =>
           \A d \in RoundIds : Played(d) => present \subseteq db.parts[d] \cup {req[h].user} /\ req[h].round = d

Quietly(h) ==
    /\ RowsOK(db) /\ present \subseteq Users
    /\ pend = [g \in Handlers |-> pend[g]] /\ pend[h] \in Seq(Writes)
    /\ pc[h] \notin {"undo", "rollback"}
    /\ StartOK(h) /\ JoinOK(h)
    /\ pc[h] \notin Starting \cup {"joinAdd", "joinPart"} => Settled

PlayInv(h) == crashes \in Nat /\ ~overlapped /\ (Calm => Quietly(h))

-----------------------------------------------------------------------------
(* The statements *)

LEMMA PartRow ==
  ASSUME NEW t, RowsOK(t), NEW d, NEW u, NEW s, s = Apply(t, [op |-> "part", round |-> d, val |-> u])
  PROVE  /\ RowsOK(s) /\ s.status = t.status
         /\ d \in RoundIds => s.parts[d] = t.parts[d] \cup {u}
         /\ \A e \in RoundIds : t.parts[e] \subseteq s.parts[e]
<1>1. s = [t EXCEPT !.parts[d] = @ \cup {u}]
  BY DEF Apply
<1>2. s = [status |-> t.status, filled |-> t.filled, dur |-> t.dur, parts |-> [t.parts EXCEPT ![d] = @ \cup {u}]]
  BY <1>1 DEF RowsOK
<1>3. /\ s.status = t.status /\ s.filled = t.filled /\ s.dur = t.dur
      /\ s.parts = [t.parts EXCEPT ![d] = @ \cup {u}]
  BY <1>2
<1>4. s.parts = [e \in RoundIds |-> s.parts[e]]
  BY <1>3 DEF RowsOK
<1>5. \A e \in RoundIds : s.parts[e] = IF e = d THEN t.parts[e] \cup {u} ELSE t.parts[e]
  BY <1>3 DEF RowsOK
<1>. QED  BY <1>2, <1>3, <1>4, <1>5 DEF RowsOK

LEMMA StatusRow ==
  ASSUME NEW t, RowsOK(t), NEW d, NEW v \in Statuses, NEW s, s = Apply(t, [op |-> "status", round |-> d, val |-> v])
  PROVE  /\ RowsOK(s) /\ s.parts = t.parts
         /\ \A e \in RoundIds : s.status[e] = IF e = d /\ t.status[d] # "none" THEN v ELSE t.status[e]
<1>1. CASE t.status[d] = "none"
  BY <1>1 DEF Apply
<1>2. CASE t.status[d] # "none"
  <2>1. s = [t EXCEPT !.status[d] = v]
    BY <1>2 DEF Apply
  <2>2. s = [status |-> [t.status EXCEPT ![d] = v], filled |-> t.filled, dur |-> t.dur, parts |-> t.parts]
    BY <2>1 DEF RowsOK
  <2>3. s.parts = t.parts /\ s.filled = t.filled /\ s.dur = t.dur /\ s.status = [t.status EXCEPT ![d] = v]
    BY <2>2
  <2>4. s.status \in [RoundIds -> Statuses] /\ \A e \in RoundIds : s.status[e] = IF e = d THEN v ELSE t.status[e]
    BY <2>3 DEF RowsOK
  <2>. QED  BY <1>2, <2>2, <2>3, <2>4 DEF RowsOK
<1>. QED  BY <1>1, <1>2

LEMMA InsertRow ==
  ASSUME NEW t, RowsOK(t), NEW d, NEW x, NEW s, s = Apply(t, [op |-> "insert", round |-> d, val |-> x])
  PROVE  /\ RowsOK(s) /\ s.parts = t.parts
         /\ \A e \in RoundIds : s.status[e] = IF e = d THEN "created" ELSE t.status[e]
<1>1. s = [t EXCEPT !.status[d] = "created", !.dur[d] = x]
  BY DEF Apply
<1>2. s = [status |-> [t.status EXCEPT ![d] = "created"], filled |-> t.filled,
           dur |-> [t.dur EXCEPT ![d] = x], parts |-> t.parts]
  BY <1>1 DEF RowsOK
<1>3. /\ s.parts = t.parts /\ s.filled = t.filled /\ s.dur = [t.dur EXCEPT ![d] = x]
      /\ s.status = [t.status EXCEPT ![d] = "created"]
  BY <1>2
<1>4. s.status \in [RoundIds -> Statuses] /\ \A e \in RoundIds : s.status[e] = IF e = d THEN "created" ELSE t.status[e]
  BY <1>3 DEF RowsOK, Statuses
<1>. QED  BY <1>2, <1>3, <1>4 DEF RowsOK

LEMMA FillRow ==
  ASSUME NEW t, RowsOK(t), NEW d, NEW x, NEW s, s = Apply(t, [op |-> "fill", round |-> d, val |-> x])
  PROVE  RowsOK(s) /\ s.parts = t.parts /\ s.status = t.status
<1>1. s = [t EXCEPT !.filled[d] = TRUE]
  BY DEF Apply
<1>2. PICK f : f = [t.filled EXCEPT ![d] = TRUE]
  OBVIOUS
<1>3. s = [status |-> t.status, filled |-> f, dur |-> t.dur, parts |-> t.parts]
  BY <1>1, <1>2 DEF RowsOK
<1>4. s.parts = t.parts /\ s.filled = f /\ s.dur = t.dur /\ s.status = t.status
  BY <1>3
<1>. QED  BY <1>3, <1>4 DEF RowsOK

LEMMA DurRow ==
  ASSUME NEW t, RowsOK(t), NEW d, NEW x, NEW s, s = Apply(t, [op |-> "dur", round |-> d, val |-> x])
  PROVE  RowsOK(s) /\ s.parts = t.parts /\ s.status = t.status
<1>1. CASE t.status[d] = "none"
  BY <1>1 DEF Apply
<1>2. CASE t.status[d] # "none"
  <2>1. s = [t EXCEPT !.dur[d] = x]
    BY <1>2 DEF Apply
  <2>2. s = [status |-> t.status, filled |-> t.filled, dur |-> [t.dur EXCEPT ![d] = x], parts |-> t.parts]
    BY <2>1 DEF RowsOK
  <2>3. s.parts = t.parts /\ s.filled = t.filled /\ s.dur = [t.dur EXCEPT ![d] = x] /\ s.status = t.status
    BY <2>2
  <2>. QED  BY <2>2, <2>3 DEF RowsOK
<1>. QED  BY <1>1, <1>2

\* A set of positions in a sequence has a last one.
LEMMA LastExists ==
  ASSUME NEW n \in Nat, NEW I, I \subseteq 1 .. n, I # {}
  PROVE  Max(I) \in I
<1> DEFINE J == {n - i : i \in I}
<1>1. J \subseteq Nat /\ J # {}
  <2>1. \A i \in I : i \in Int /\ 1 <= i /\ i <= n
    OBVIOUS
  <2>2. \A i \in I : n - i \in Nat
    BY <2>1
  <2>3. PICK k \in I : TRUE
    OBVIOUS
  <2>4. n - k \in J
    OBVIOUS
  <2>. QED  BY <2>2, <2>4
<1>2. \E x \in J : \A y \in J : ~ (<<y, x>> \in OpToRel(<, Nat))
  BY <1>1, NatLessThanWellFounded, WFMin
<1>3. PICK x \in J : \A y \in J : ~ (<<y, x>> \in OpToRel(<, Nat))
  BY <1>2
<1>4. \A y \in J : ~ (y < x)
  <2>1. \A a, b \in Nat : a < b => <<a, b>> \in {ss \in Nat \X Nat : ss[1] < ss[2]}
    OBVIOUS
  <2>2. OpToRel(<, Nat) = {ss \in Nat \X Nat : ss[1] < ss[2]}
    BY Zenon DEF OpToRel
  <2>3. x \in Nat /\ \A y \in J : y \in Nat
    BY <1>1
  <2>. QED  BY <1>3, <2>1, <2>2, <2>3, Zenon
<1>5. PICK m \in I : x = n - m
  BY <1>3
<1>6. \A i \in I : ~ (n - i < n - m)
  BY <1>4, <1>5
<1>7. \A i \in I : m >= i
  BY <1>6
<1>. QED  BY <1>7 DEF Max

\* The commit of what InitiateRoundStart and the tasks have written.
LEMMA CommitRows ==
  ASSUME NEW t, RowsOK(t), NEW ws \in Seq(Writes), NEW s, s = Written(t, ws)
  PROVE  /\ RowsOK(s)
         /\ \A e \in RoundIds :
               /\ s.status[e] \in {t.status[e], "ended"}
               /\ t.status[e] = "none" => s.status[e] = "none"
               /\ t.parts[e] \subseteq s.parts[e]
               /\ {ws[i].val : i \in To(ws, e, {"part"})} \subseteq s.parts[e]
<1>1. s = [status |-> s.status, filled |-> s.filled, dur |-> s.dur, parts |-> s.parts]
  BY DEF Written
<1>2. s.parts = [d \in RoundIds |-> t.parts[d] \cup {ws[i].val : i \in To(ws, d, {"part"})}]
  BY DEF Written
<1>3. s.status = [d \in RoundIds |->
                    IF Found(t, ws, d, "status") = {} THEN t.status[d]
                    ELSE IF ws[Max(Found(t, ws, d, "status"))].op = "insert" THEN "created"
                    ELSE ws[Max(Found(t, ws, d, "status"))].val]
  BY DEF Written
<1>4. ASSUME NEW e \in RoundIds
      PROVE  s.status[e] \in {t.status[e], "ended"} /\ (t.status[e] = "none" => s.status[e] = "none")
  <2>1. \A i \in DOMAIN ws : ws[i].op # "insert" /\ (ws[i].op = "status" => ws[i].val = "ended")
    BY DEF Writes
  <2>2. To(ws, e, {"insert"}) = {}
    BY <2>1 DEF To
  <2>3. t.status[e] = "none" => Found(t, ws, e, "status") = {}
    BY <2>2 DEF Found
  <2>4. Found(t, ws, e, "status") \subseteq To(ws, e, {"insert", "status"})
    BY DEF Found
  <2>5. \A i \in Found(t, ws, e, "status") : i \in DOMAIN ws /\ ws[i].op = "status"
    BY <2>1, <2>4 DEF To
  <2>6. CASE Found(t, ws, e, "status") = {}
    BY <1>3, <2>6
  <2>7. CASE Found(t, ws, e, "status") # {}
    <3>1. Len(ws) \in Nat /\ Found(t, ws, e, "status") \subseteq 1 .. Len(ws)
      BY <2>5
    <3>2. Max(Found(t, ws, e, "status")) \in Found(t, ws, e, "status")
      BY <2>7, <3>1, LastExists
    <3>. QED  BY <1>3, <2>1, <2>3, <2>5, <2>7, <3>2
  <2>. QED  BY <2>6, <2>7
<1>5. s.status \in [RoundIds -> Statuses]
  <2>1. \A e \in RoundIds : s.status[e] \in Statuses
    BY <1>4 DEF RowsOK, Statuses
  <2>2. s.status = [d \in RoundIds |-> s.status[d]]
    BY <1>3
  <2>. QED  BY <2>1, <2>2
<1>6. s.parts = [d \in RoundIds |-> s.parts[d]]
  BY <1>2
<1>7. RowsOK(s)
  BY <1>1, <1>5, <1>6 DEF RowsOK
<1>8. ASSUME NEW e \in RoundIds
      PROVE  t.parts[e] \subseteq s.parts[e] /\ {ws[i].val : i \in To(ws, e, {"part"})} \subseteq s.parts[e]
  BY <1>2
<1>. QED  BY <1>4, <1>7, <1>8

-----------------------------------------------------------------------------
(* Steps of the only handler *)

\* Where a request is neither a start nor a join under way.
Plain == {"idle", "insert", "fill", "append", "duration", "timer", "end", "endRtc"}

LEMMA HandleAt ==
  ASSUME NEW h, Handlers = {h}, HandleInv, ~overlapped
  PROVE  /\ pc[h] \in Swapped => handle = h /\ req[h].saved = "pool"
         /\ pc[h] \in Swapped \cup Around => req[h].tx = h
         /\ pc[h] \notin Swapped => handle = "pool"
         /\ h # "pool" /\ h # "dead"
<1>1. h \in Handlers /\ \A g \in Handlers : g = h
  OBVIOUS
<1>. QED  BY <1>1, HandlersAssumption DEF HandleInv, Own, Away

LEMMA PcAt ==
  ASSUME NEW h, Handlers = {h}, Shape, NEW l, pc' = [pc EXCEPT ![h] = l]
  PROVE  pc'[h] = l
BY DEF Shape

LEMMA ReqAt ==
  ASSUME NEW h, Handlers = {h}, Shape, NEW r, req' = [req EXCEPT ![h] = r]
  PROVE  req'[h] = r
BY DEF Shape

LEMMA ReturnAt ==
  ASSUME NEW h, Handlers = {h}, Shape, Return(h)
  PROVE  pc'[h] = "idle" /\ req'[h] = Blank
BY DEF Shape, Return

LEMMA GotoAt ==
  ASSUME NEW h, Handlers = {h}, Shape, NEW l, Goto(h, l)
  PROVE  pc'[h] = l /\ req'[h] = req[h]
BY DEF Shape, Goto

LEMMA BeginAt ==
  ASSUME NEW h, Handlers = {h}, Shape, NEW k, NEW l, NEW r, Begin(h, k, l, r)
  PROVE  pc[h] = "idle" /\ pc'[h] = l /\ req'[h] = r
BY DEF Shape, Begin

LEMMA NoFailure == ASSUME Calm' PROVE \A k : ~Fails(k) /\ \A w : ~Breaks(k, w)
BY DEF Calm, Fails, Breaks

LEMMA PoolExec ==
  ASSUME handle = "pool", NEW w, Exec(w)
  PROVE  db' = Apply(db, w) /\ pend' = pend
BY DEF Exec, ExecOn

LEMMA PlainOK ==
  ASSUME NEW h, pc'[h] \in Plain, RowsOK(db'), present' \subseteq Users,
         pend' = [g \in Handlers |-> pend'[g]], pend'[h] = <<>>, Settled'
  PROVE  Quietly(h)'
<1>1. pend'[h] \in Seq(Writes)
  OBVIOUS
<1>2. StartOK(h)' /\ JoinOK(h)'
  BY DEF StartOK, JoinOK, Plain, Waiting, Starting
<1>3. pc'[h] \notin {"undo", "rollback"}
  BY DEF Plain
<1>. QED  BY <1>1, <1>2, <1>3 DEF Quietly

\* No round becomes the one that is played.
LEMMA SettledKept ==
  ASSUME Settled, present' \subseteq present,
         \A e \in RoundIds : db'.status[e] = "started" => db.status[e] = "started",
         \A e \in RoundIds : db'.status[e] = "none" => db.status[e] = "none",
         \A e \in RoundIds : db.parts[e] \subseteq db'.parts[e]
  PROVE  Settled'
<1>1. \A d \in RoundIds : Played(d)' => Played(d)
  BY DEF Played
<1>. QED  BY <1>1 DEF Settled

LEMMA PlainStep ==
  ASSUME NEW h, Quietly(h), pc[h] \in Plain, pc'[h] \in Plain, UNCHANGED <<present, pend>>,
         RowsOK(db'),
         \A e \in RoundIds : db'.status[e] = "started" => db.status[e] = "started",
         \A e \in RoundIds : db'.status[e] = "none" => db.status[e] = "none",
         \A e \in RoundIds : db.parts[e] \subseteq db'.parts[e]
  PROVE  Quietly(h)'
<1>1. Settled /\ pend[h] = <<>>
  BY DEF Quietly, StartOK, Plain, Starting
<1>2. Settled'
  BY <1>1, SettledKept
<1>3. present' \subseteq Users /\ pend' = [g \in Handlers |-> pend'[g]] /\ pend'[h] = <<>>
  BY <1>1 DEF Quietly
<1>. QED  BY <1>2, <1>3, PlainOK

\* Requests that arrive.
LEMMA QuietArrival ==
  ASSUME NEW h, Handlers = {h}, HandleInv, Quietly(h), Arrival(h)
  PROVE  Quietly(h)'
<1>1. Shape /\ RowsOK(db) /\ UNCHANGED <<db, present, pend>>
  BY DEF HandleInv, Quietly, Arrival, CreateFind, DurationFind, StartFind, EndFind, JoinFind
<1>2. pc[h] = "idle" /\ Settled /\ pend[h] = <<>>
  <2>1. pc[h] = "idle"
    BY DEF Arrival, CreateFind, DurationFind, StartFind, EndFind, JoinFind, Begin
  <2>. QED  BY <2>1 DEF Quietly, StartOK, Starting
<1>3. CASE CreateFind(h) \/ DurationFind(h) \/ EndFind(h)
  <2>1. \E k, r : \E l \in {"insert", "duration", "end"} : Begin(h, k, l, r)
    BY <1>3 DEF CreateFind, DurationFind, EndFind
  <2>2. pc'[h] \in {"insert", "duration", "end"}
    BY <1>1, <2>1, BeginAt
  <2>3. pc'[h] \in Plain /\ pc[h] \in Plain
    BY <1>2, <2>2 DEF Plain
  <2>. QED  BY <1>1, <2>3, PlainStep
<1>4. CASE StartFind(h)
  <2>1. PICK d \in RoundIds : db.status[d] = "created" /\ Begin(h, "start", "users", [Blank EXCEPT !.round = d, !.dur = db.dur[d]])
    BY <1>4 DEF StartFind
  <2>2. pc'[h] = "users" /\ req'[h] = [Blank EXCEPT !.round = d, !.dur = db.dur[d]]
    BY <1>1, <2>1, BeginAt
  <2>3. req'[h].round = d
    BY <2>2 DEF Blank
  <2>4. StartOK(h)' /\ JoinOK(h)'
    BY <1>1, <1>2, <2>1, <2>2, <2>3 DEF StartOK, JoinOK, Waiting, Starting
  <2>5. Settled'
    BY <1>1, <1>2 DEF Settled, Played
  <2>. QED  BY <1>1, <2>2, <2>4, <2>5 DEF Quietly
<1>5. CASE JoinFind(h)
  <2>1. PICK u \in Users \ present, d \in RoundIds :
            /\ db.status[d] # "none"
            /\ Begin(h, "join", "joinAdd", [Blank EXCEPT !.user = u, !.round = IF db.status[d] = "started" THEN d ELSE 0])
    BY <1>5 DEF JoinFind
  <2>2. /\ pc'[h] = "joinAdd"
        /\ req'[h] = [Blank EXCEPT !.user = u, !.round = IF db.status[d] = "started" THEN d ELSE 0]
    BY <1>1, <2>1, BeginAt
  <2>3. req'[h].user = u /\ req'[h].round = IF db.status[d] = "started" THEN d ELSE 0
    BY <2>2 DEF Blank
  <2>4. \A e \in RoundIds : Played(e) => present \subseteq db.parts[e] /\ req'[h].round = e
    BY <1>2, <2>1, <2>3 DEF Settled, Played
  <2>5. StartOK(h)'
    BY <1>1, <1>2, <2>2 DEF StartOK, Waiting, Starting
  <2>6. JoinOK(h)'
    BY <1>1, <2>2, <2>3, <2>4 DEF JoinOK, Played
  <2>. QED  BY <1>1, <2>2, <2>5, <2>6 DEF Quietly
<1>. QED  BY <1>3, <1>4, <1>5 DEF Arrival

\* The steps of the requests to create, edit and end a round.
LEMMA QuietPlain ==
  ASSUME NEW h, Handlers = {h}, HandleInv, ~overlapped, Quietly(h), Calm',
         \/ CreateInsert(h) \/ CreateFill(h) \/ CreateAppend(h) \/ UpdateRoundDuration(h)
         \/ StartTimer(h) \/ EndUpdate(h) \/ EndRtc(h)
  PROVE  Quietly(h)'
<1>1. Shape /\ RowsOK(db) /\ h \in Handlers
  BY DEF HandleInv, Quietly
<1>2. pc[h] \in Plain /\ pc[h] \notin Swapped
  BY DEF CreateInsert, CreateFill, CreateAppend, UpdateRoundDuration, StartTimer, EndUpdate, EndRtc, At,
         Plain, Swapped
<1>3. handle = "pool"
  BY <1>2, HandleAt
<1>4. ~Dead
  BY <1>3 DEF Dead
<1>5. UNCHANGED present
  BY DEF CreateInsert, CreateFill, CreateAppend, UpdateRoundDuration, StartTimer, EndUpdate, EndRtc
<1>6. pc'[h] \in Plain
  <2>1. pc' = [pc EXCEPT ![h] = "fill"] \/ Goto(h, "append") \/ Goto(h, "endRtc") \/ Return(h)
    BY DEF CreateInsert, CreateFill, CreateAppend, UpdateRoundDuration, StartTimer, EndUpdate, EndRtc
  <2>2. pc'[h] \in {"fill", "append", "endRtc", "idle"}
    BY <1>1, <2>1, PcAt, GotoAt, ReturnAt
  <2>. QED  BY <2>2 DEF Plain
<1>7. /\ UNCHANGED pend
      /\ \/ UNCHANGED db
         \/ \E d, x : db' = Apply(db, [op |-> "insert", round |-> d, val |-> x])
         \/ \E d, x : db' = Apply(db, [op |-> "fill", round |-> d, val |-> x])
         \/ \E d, x : db' = Apply(db, [op |-> "dur", round |-> d, val |-> x])
         \/ \E d : db' = Apply(db, [op |-> "status", round |-> d, val |-> "ended"])
  <2>1. CASE CreateInsert(h)
    <3>1. Exec([op |-> "insert", round |-> nextRound, val |-> req[h].dur])
      BY <1>4, <2>1, NoFailure DEF CreateInsert
    <3>2. db' = Apply(db, [op |-> "insert", round |-> nextRound, val |-> req[h].dur]) /\ pend' = pend
      BY <1>3, <3>1, PoolExec
    <3>. QED  BY <3>2
  <2>2. CASE CreateFill(h)
    <3>1. Exec([op |-> "fill", round |-> req[h].round, val |-> TRUE]) \/ UNCHANGED <<db, pend>>
      BY <1>4, <2>2 DEF CreateFill
    <3>2. ASSUME Exec([op |-> "fill", round |-> req[h].round, val |-> TRUE])
          PROVE  db' = Apply(db, [op |-> "fill", round |-> req[h].round, val |-> TRUE]) /\ pend' = pend
      BY <1>3, <3>2, PoolExec
    <3>. QED  BY <3>1, <3>2
  <2>3. CASE CreateAppend(h)
    <3>1. ExecOn("pool", [op |-> "insert", round |-> req[h].round, val |-> req[h].dur]) \/ UNCHANGED <<db, pend>>
      BY <2>3 DEF CreateAppend
    <3>. QED  BY <3>1 DEF ExecOn
  <2>4. CASE UpdateRoundDuration(h)
    <3>1. Exec([op |-> "dur", round |-> req[h].round, val |-> req[h].dur])
      BY <1>4, <2>4, NoFailure DEF UpdateRoundDuration
    <3>2. db' = Apply(db, [op |-> "dur", round |-> req[h].round, val |-> req[h].dur]) /\ pend' = pend
      BY <1>3, <3>1, PoolExec
    <3>. QED  BY <3>2
  <2>5. CASE StartTimer(h) \/ EndRtc(h)
    BY <2>5 DEF StartTimer, EndRtc
  <2>6. CASE EndUpdate(h)
    <3>1. ExecOn("pool", [op |-> "status", round |-> req[h].round, val |-> "ended"])
      BY <2>6, NoFailure DEF EndUpdate
    <3>. QED  BY <3>1 DEF ExecOn
  <2>. QED  BY <2>1, <2>2, <2>3, <2>4, <2>5, <2>6
<1> DEFINE Kept == /\ RowsOK(db')
                   /\ \A e \in RoundIds : /\ db'.status[e] = "started" => db.status[e] = "started"
                                          /\ db'.status[e] = "none" => db.status[e] = "none"
                                          /\ db.parts[e] \subseteq db'.parts[e]
<1>8. Kept
  <2>1. CASE UNCHANGED db
    BY <1>1, <2>1
  <2>2. ASSUME NEW d, NEW x, db' = Apply(db, [op |-> "insert", round |-> d, val |-> x])
        PROVE  Kept
    BY <1>1, <2>2, InsertRow
  <2>3. ASSUME NEW d, NEW x, db' = Apply(db, [op |-> "fill", round |-> d, val |-> x])
        PROVE  Kept
    BY <1>1, <2>3, FillRow
  <2>4. ASSUME NEW d, NEW x, db' = Apply(db, [op |-> "dur", round |-> d, val |-> x])
        PROVE  Kept
    BY <1>1, <2>4, DurRow
  <2>5. ASSUME NEW d, db' = Apply(db, [op |-> "status", round |-> d, val |-> "ended"])
        PROVE  Kept
    <3>1. "ended" \in Statuses
      BY DEF Statuses
    <3>. QED  BY <1>1, <2>5, <3>1, StatusRow
  <2>. QED  BY <1>7, <2>1, <2>2, <2>3, <2>4, <2>5
<1>. QED  BY <1>2, <1>5, <1>6, <1>7, <1>8, PlainStep

\* JoinRoom finds its round again.
LEMMA QuietJoinAdd ==
  ASSUME NEW h, Handlers = {h}, HandleInv, ~overlapped, Quietly(h), Calm', JoinAdd(h)
  PROVE  Quietly(h)'
<1>1. Shape /\ RowsOK(db) /\ pc[h] = "joinAdd" /\ UNCHANGED <<db, pend>> /\ h \in Handlers
  BY DEF HandleInv, Quietly, JoinAdd, At
<1>2. /\ req[h].user \in Users /\ pend[h] = <<>> /\ present \subseteq Users
      /\ \A d \in RoundIds : Played(d) => present \subseteq db.parts[d] /\ req[h].round = d
  BY <1>1 DEF Quietly, StartOK, JoinOK
<1>3. CASE /\ present' = present \cup {req[h].user} /\ req[h].round = 0 /\ Return(h)
  <2>1. \A d \in RoundIds : ~Played(d)
    BY <1>2, <1>3 DEF RoundIds
  <2>2. Settled'
    BY <1>1, <2>1 DEF Settled, Played
  <2>3. pc'[h] \in Plain
    BY <1>1, <1>3, ReturnAt DEF Plain
  <2>4. present' \subseteq Users /\ pend' = [g \in Handlers |-> pend'[g]]
    BY <1>1, <1>2, <1>3 DEF Quietly
  <2>. QED  BY <1>1, <1>2, <2>2, <2>3, <2>4, PlainOK
<1>4. CASE /\ present' = present \cup {req[h].user} /\ Goto(h, "joinPart")
  <2>1. pc'[h] = "joinPart" /\ req'[h] = req[h]
    BY <1>1, <1>4, GotoAt
  <2>2. StartOK(h)'
    BY <1>1, <1>2, <2>1 DEF StartOK, Waiting, Starting
  <2>3. JoinOK(h)'
    BY <1>1, <1>2, <1>4, <2>1 DEF JoinOK, Played
  <2>4. present' \subseteq Users
    BY <1>2, <1>4
  <2>. QED  BY <1>1, <2>1, <2>2, <2>3, <2>4 DEF Quietly
<1>5. CASE UNCHANGED present /\ Return(h)
  <2>1. Settled
    BY <1>2 DEF Settled
  <2>2. Settled'
    BY <1>1, <1>5, <2>1 DEF Settled, Played
  <2>3. pc'[h] \in Plain
    BY <1>1, <1>5, ReturnAt DEF Plain
  <2>4. present' \subseteq Users /\ pend' = [g \in Handlers |-> pend'[g]]
    BY <1>1, <1>2, <1>5 DEF Quietly
  <2>. QED  BY <1>1, <1>2, <2>2, <2>3, <2>4, PlainOK
<1>. QED  BY <1>3, <1>4, <1>5, NoFailure DEF JoinAdd

\* The row of who joins, in the round that is played.
LEMMA QuietJoinPart ==
  ASSUME NEW h, Handlers = {h}, HandleInv, ~overlapped, Quietly(h), Calm', JoinPart(h)
  PROVE  Quietly(h)'
<1>1. Shape /\ RowsOK(db) /\ pc[h] = "joinPart" /\ UNCHANGED present /\ Return(h) /\ h \in Handlers
  BY DEF HandleInv, Quietly, JoinPart, At
<1>2. handle = "pool"
  BY <1>1, HandleAt DEF Swapped
<1>3. Exec([op |-> "part", round |-> req[h].round, val |-> req[h].user])
  BY <1>2, NoFailure DEF JoinPart, Dead
<1>4. db' = Apply(db, [op |-> "part", round |-> req[h].round, val |-> req[h].user]) /\ pend' = pend
  BY <1>2, <1>3, PoolExec
<1>5. /\ RowsOK(db') /\ db'.status = db.status
      /\ req[h].round \in RoundIds => db'.parts[req[h].round] = db.parts[req[h].round] \cup {req[h].user}
  <2>1. PICK d, u : d = req[h].round /\ u = req[h].user
    OBVIOUS
  <2>2. db' = Apply(db, [op |-> "part", round |-> d, val |-> u])
    BY <1>4, <2>1
  <2>3. RowsOK(db)
    BY <1>1
  <2>4. RowsOK(db') /\ db'.status = db.status /\ (d \in RoundIds => db'.parts[d] = db.parts[d] \cup {u})
    BY <2>2, <2>3, PartRow
  <2>. QED  BY <2>1, <2>4
<1>6. /\ pend[h] = <<>>
      /\ \A d \in RoundIds : Played(d) => present \subseteq db.parts[d] \cup {req[h].user} /\ req[h].round = d
  BY <1>1 DEF Quietly, StartOK, JoinOK
<1>7. \A d \in RoundIds : Played(d)' => Played(d)
  BY <1>5 DEF Played
<1>8. Settled'
  BY <1>1, <1>5, <1>6, <1>7 DEF Settled
<1>9. pc'[h] \in Plain
  BY <1>1, ReturnAt DEF Plain
<1>10. present' \subseteq Users /\ pend' = [g \in Handlers |-> pend'[g]] /\ pend'[h] = <<>>
  BY <1>1, <1>4, <1>6 DEF Quietly
<1>. QED  BY <1>5, <1>8, <1>9, <1>10, PlainOK

\* Steps of a start before its transaction.
LEMMA QuietBefore ==
  ASSUME NEW h, Handlers = {h}, HandleInv, ~overlapped, Quietly(h), Calm',
         StartUsers(h) \/ StartProblems(h) \/ StartUpdate(h) \/ StartRtc(h) \/ StartBegin(h) \/ StartSwap(h)
  PROVE  Quietly(h)'
<1>1. /\ Shape /\ RowsOK(db) /\ h \in Handlers /\ IsRequest(req[h]) /\ present \subseteq Users
      /\ pend = [g \in Handlers |-> pend[g]]
  BY DEF HandleInv, Quietly, Shape
<1>2. pc[h] \in {"users", "problems", "update", "rtc", "begin", "swap"} /\ UNCHANGED <<present, pend>>
  BY <1>1, HandleAt, NoFailure DEF StartUsers, StartProblems, StartUpdate, StartRtc, StartBegin, StartSwap, At,
                       Exec, ExecOn, Dead, Swapped
<1>3. pend'[h] = <<>> /\ pend' = [g \in Handlers |-> pend'[g]] /\ pend'[h] \in Seq(Writes) /\ present' \subseteq Users
  BY <1>1, <1>2 DEF Quietly, StartOK
<1>4. handle = "pool"
  BY <1>2, HandleAt DEF Swapped
<1>5. /\ req[h].round \in RoundIds
      /\ pc[h] \in Waiting => db.status[req[h].round] \in {"created", "ended"} /\ Settled
      /\ pc[h] \in Starting => db.status[req[h].round] # "none"
      /\ pc[h] # "users" => present \subseteq req[h].todo /\ req[h].todo \subseteq Users
  BY <1>2 DEF Quietly, StartOK, Waiting, Starting
<1>6. CASE StartUsers(h)
  <2>1. pc'[h] = "problems" /\ req'[h] = [req[h] EXCEPT !.todo = present] /\ UNCHANGED db /\ pc[h] = "users"
    BY <1>1, <1>6, NoFailure DEF StartUsers, Shape, At
  <2>2. req'[h].todo = present /\ req'[h].round = req[h].round
    BY <1>1, <2>1 DEF IsRequest
  <2>3. StartOK(h)' /\ JoinOK(h)'
    BY <1>1, <1>2, <1>3, <1>5, <2>1, <2>2 DEF StartOK, JoinOK, Waiting, Starting
  <2>4. Settled'
    BY <1>2, <1>5, <2>1 DEF Settled, Played, Waiting
  <2>. QED  BY <1>1, <1>3, <2>1, <2>3, <2>4 DEF Quietly
<1>7. CASE StartProblems(h)
  <2>1. UNCHANGED db /\ pc[h] = "problems" /\ (Goto(h, "update") \/ Return(h))
    BY <1>7 DEF StartProblems, At
  <2>2. Settled'
    BY <1>2, <1>5, <2>1 DEF Settled, Played, Waiting
  <2>3. CASE Return(h)
    <3>1. pc'[h] \in Plain
      BY <1>1, <2>3, ReturnAt DEF Plain
    <3>. QED  BY <1>1, <1>3, <2>1, <2>2, <3>1, PlainOK
  <2>4. CASE Goto(h, "update")
    <3>1. pc'[h] = "update" /\ req'[h] = req[h]
      BY <1>1, <2>4, GotoAt
    <3>2. StartOK(h)' /\ JoinOK(h)'
      BY <1>1, <1>2, <1>3, <1>5, <2>1, <3>1 DEF StartOK, JoinOK, Waiting, Starting
    <3>. QED  BY <1>1, <1>3, <2>1, <2>2, <3>1, <3>2 DEF Quietly
  <2>. QED  BY <2>1, <2>3, <2>4
<1>8. CASE StartUpdate(h)
  <2>1. Exec([op |-> "status", round |-> req[h].round, val |-> "started"]) /\ Goto(h, "rtc") /\ pc[h] = "update"
    BY <1>4, <1>8, NoFailure DEF StartUpdate, Dead, At
  <2>2. db' = Apply(db, [op |-> "status", round |-> req[h].round, val |-> "started"])
    BY <1>4, <2>1, PoolExec
  <2>3. RowsOK(db') /\ db'.status[req[h].round] = "started"
    <3>1. "started" \in Statuses /\ db.status[req[h].round] # "none"
      BY <1>5, <2>1 DEF Statuses, Waiting
    <3>2. PICK d \in RoundIds : d = req[h].round
      BY <1>5
    <3>3. /\ RowsOK(db')
          /\ \A e \in RoundIds : db'.status[e] = IF e = d /\ db.status[d] # "none" THEN "started" ELSE db.status[e]
      BY <1>1, <2>2, <3>1, <3>2, StatusRow
    <3>. QED  BY <3>1, <3>2, <3>3
  <2>4. pc'[h] = "rtc" /\ req'[h] = req[h]
    BY <1>1, <2>1, GotoAt
  <2>5. StartOK(h)' /\ JoinOK(h)'
    BY <1>2, <1>3, <1>5, <2>1, <2>3, <2>4 DEF StartOK, JoinOK, Waiting, Starting
  <2>. QED  BY <1>3, <2>3, <2>4, <2>5 DEF Quietly, Starting
<1>9. ASSUME UNCHANGED db, pc[h] \in {"rtc", "begin"}, pc'[h] \in {"begin", "swap"},
             req'[h].round = req[h].round, req'[h].todo = req[h].todo
      PROVE  Quietly(h)'
  <2>1. StartOK(h)' /\ JoinOK(h)'
    BY <1>2, <1>3, <1>5, <1>9 DEF StartOK, JoinOK, Waiting, Starting
  <2>. QED  BY <1>1, <1>3, <1>9, <2>1 DEF Quietly, Starting
<1>10. CASE StartRtc(h)
  <2>1. UNCHANGED db /\ pc[h] = "rtc" /\ Goto(h, "begin")
    BY <1>10 DEF StartRtc, At
  <2>2. pc'[h] = "begin" /\ req'[h] = req[h]
    BY <1>1, <2>1, GotoAt
  <2>. QED  BY <1>9, <2>1, <2>2
<1>11. CASE StartBegin(h)
  <2>1. /\ UNCHANGED db /\ pc[h] = "begin" /\ pc' = [pc EXCEPT ![h] = "swap"]
        /\ req' = [req EXCEPT ![h].tx = IF handle = "pool" THEN h ELSE handle,
                              ![h].mark = IF handle = "pool" THEN 0 ELSE Len(pend[handle])]
    BY <1>4, <1>11, NoFailure DEF StartBegin, At
  <2>2. pc'[h] = "swap" /\ req'[h] = [req[h] EXCEPT !.tx = h, !.mark = 0]
    BY <1>1, <1>4, <2>1 DEF Shape
  <2>3. req'[h].round = req[h].round /\ req'[h].todo = req[h].todo
    BY <1>1, <2>2 DEF IsRequest
  <2>. QED  BY <1>9, <2>1, <2>2, <2>3
<1>12. CASE StartSwap(h)
  <2>1. UNCHANGED db /\ pc[h] = "swap" /\ pc'[h] = "rows" /\ req'[h] = [req[h] EXCEPT !.saved = handle]
    BY <1>1, <1>12 DEF StartSwap, At, Shape
  <2>2. req'[h].round = req[h].round /\ req'[h].todo = req[h].todo
    BY <1>1, <2>1 DEF IsRequest
  <2>3. StartOK(h)' /\ JoinOK(h)'
    BY <1>2, <1>3, <1>5, <2>1, <2>2 DEF StartOK, JoinOK, Waiting, Starting
  <2>. QED  BY <1>1, <1>3, <2>1, <2>3 DEF Quietly, Starting
<1>. QED  BY <1>6, <1>7, <1>8, <1>10, <1>11, <1>12

-----------------------------------------------------------------------------
(* In the transaction *)

\* A write in the transaction: what it had added stays, and a participant is added.
LEMMA TxExec ==
  ASSUME NEW h, Handlers = {h}, handle = h, h # "pool", pend = [g \in Handlers |-> pend[g]],
         pend[h] \in Seq(Writes), NEW w \in Writes, Exec(w)
  PROVE  /\ db' = db /\ pend' = [g \in Handlers |-> pend'[g]] /\ pend'[h] \in Seq(Writes)
         /\ \A d : Added(h, d) \subseteq Added(h, d)'
         /\ w.op = "part" => w.val \in Added(h, w.round)'
<1>1. /\ db' = db
      /\ \/ pend' = pend /\ Contains(pend[h], w)
         \/ pend' = [pend EXCEPT ![h] = Append(@, w)]
  BY DEF Exec, ExecOn
<1>2. CASE pend' = pend /\ Contains(pend[h], w)
  <2>1. PICK i \in 1 .. Len(pend[h]) : pend[h][i] = w
    BY <1>2 DEF Contains
  <2>2. w.op = "part" => i \in To(pend[h], w.round, {"part"})
    BY <2>1 DEF To
  <2>3. w.op = "part" => w.val \in Added(h, w.round)
    BY <2>1, <2>2 DEF Added
  <2>. QED  BY <1>1, <1>2, <2>3 DEF Added
<1>3. CASE pend' = [pend EXCEPT ![h] = Append(@, w)]
  <2>1. PICK s \in Seq(Writes) : s = pend[h]
    OBVIOUS
  <2>2. pend'[h] = Append(s, w) /\ pend' = [g \in Handlers |-> pend'[g]]
    BY <1>3, <2>1
  <2>3. /\ Append(s, w) \in Seq(Writes) /\ DOMAIN Append(s, w) = 1 .. Len(s) + 1 /\ DOMAIN s = 1 .. Len(s)
        /\ Len(s) \in Nat /\ Append(s, w)[Len(s) + 1] = w /\ \A i \in 1 .. Len(s) : Append(s, w)[i] = s[i]
    OBVIOUS
  <2>4. ASSUME NEW d PROVE Added(h, d) \subseteq Added(h, d)'
    <3>1. \A i \in To(s, d, {"part"}) : i \in To(Append(s, w), d, {"part"}) /\ Append(s, w)[i] = s[i]
      BY <2>3 DEF To
    <3>2. Added(h, d) = {s[i].val : i \in To(s, d, {"part"})}
      BY <2>1, Zenon DEF Added
    <3>3. Added(h, d)' = {Append(s, w)[i].val : i \in To(Append(s, w), d, {"part"})}
      BY <2>2 DEF Added
    <3>4. \A i \in To(s, d, {"part"}) : s[i].val \in {Append(s, w)[j].val : j \in To(Append(s, w), d, {"part"})}
      BY <3>1
    <3>. QED  BY <3>2, <3>3, <3>4
  <2>5. ASSUME w.op = "part" PROVE w.val \in Added(h, w.round)'
    <3>1. Len(s) + 1 \in To(Append(s, w), w.round, {"part"})
      BY <2>3, <2>5 DEF To
    <3>. QED  BY <2>2, <2>3, <3>1 DEF Added
  <2>. QED  BY <1>1, <2>2, <2>3, <2>4, <2>5
<1>. QED  BY <1>1, <1>2, <1>3

\* One row of the loop: the member moves from the list to what is written.
LEMMA QuietRow ==
  ASSUME NEW h, Handlers = {h}, HandleInv, ~overlapped, Quietly(h), Calm', StartRow(h)
  PROVE  Quietly(h)'
<1>1. /\ Shape /\ RowsOK(db) /\ h \in Handlers /\ IsRequest(req[h]) /\ present \subseteq Users
      /\ pend = [g \in Handlers |-> pend[g]] /\ pend[h] \in Seq(Writes)
  BY DEF HandleInv, Quietly, Shape
<1>2. pc[h] = "rows" /\ UNCHANGED present
  BY DEF StartRow, At
<1>3. handle = h /\ h # "pool" /\ h # "dead"
  BY <1>2, HandleAt DEF Swapped
<1>4. /\ req[h].round \in RoundIds /\ db.status[req[h].round] # "none" /\ req[h].todo \subseteq Users
      /\ present \subseteq req[h].todo \cup Added(h, req[h].round)
  BY <1>2 DEF Quietly, StartOK, Starting
<1>5. PICK u \in req[h].todo :
          /\ Exec([op |-> "part", round |-> req[h].round, val |-> u])
          /\ pc' = [pc EXCEPT ![h] = IF req[h].todo = {u} THEN "restore" ELSE "rows"]
          /\ req' = [req EXCEPT ![h].todo = @ \ {u}]
  BY <1>3, NoFailure DEF StartRow, Dead
<1>6. PICK w \in Writes : w = [op |-> "part", round |-> req[h].round, val |-> u]
  BY <1>4, <1>5 DEF Writes
<1>7. w.op = "part" /\ w.round = req[h].round /\ w.val = u /\ Exec(w)
  BY <1>5, <1>6
<1>8. /\ db' = db /\ pend' = [g \in Handlers |-> pend'[g]] /\ pend'[h] \in Seq(Writes)
      /\ \A d : Added(h, d) \subseteq Added(h, d)'
      /\ w.val \in Added(h, w.round)'
  BY <1>1, <1>3, <1>7, TxExec
<1>9. /\ req'[h] = [req[h] EXCEPT !.todo = @ \ {u}]
      /\ pc'[h] = IF req[h].todo = {u} THEN "restore" ELSE "rows"
  BY <1>1, <1>5 DEF Shape
<1>10. req'[h].todo = req[h].todo \ {u} /\ req'[h].round = req[h].round
  BY <1>1, <1>9 DEF IsRequest
<1> DEFINE r == req[h].round
<1>11. Added(h, r) \subseteq Added(h, r)' /\ u \in Added(h, r)' /\ r' = r
  BY <1>7, <1>8, <1>10
<1>12. present' \subseteq req'[h].todo \cup Added(h, req[h].round)'
  BY <1>2, <1>4, <1>10, <1>11
<1>13. req[h].todo = {u} => req'[h].todo = {}
  BY <1>10
<1>14. pc'[h] = "restore" => present' \subseteq Added(h, req[h].round)'
  BY <1>9, <1>12, <1>13
<1>15. StartOK(h)' /\ JoinOK(h)'
  BY <1>4, <1>8, <1>9, <1>10, <1>12, <1>14 DEF StartOK, JoinOK, Waiting, Starting
<1>. QED  BY <1>1, <1>2, <1>8, <1>9, <1>15 DEF Quietly, Starting

LEMMA QuietRestore ==
  ASSUME NEW h, Handlers = {h}, HandleInv, ~overlapped, Quietly(h), StartRestore(h)
  PROVE  Quietly(h)'
<1>1. Shape /\ h \in Handlers /\ IsRequest(req[h]) /\ UNCHANGED <<db, present, pend>>
  BY DEF HandleInv, Shape, StartRestore
<1>2. pc[h] = "restore"
  BY DEF StartRestore, Quietly
<1>3. pc'[h] = "commit" /\ req'[h] = [req[h] EXCEPT !.saved = "pool", !.todo = {}]
  BY <1>1, <1>2 DEF StartRestore, Shape
<1>4. req'[h].round = req[h].round
  BY <1>1, <1>3 DEF IsRequest
<1>5. /\ req[h].round \in RoundIds /\ db.status[req[h].round] # "none"
      /\ present \subseteq Added(h, req[h].round)
  BY <1>2 DEF Quietly, StartOK, Starting
<1>6. StartOK(h)' /\ JoinOK(h)'
  BY <1>1, <1>3, <1>4, <1>5 DEF StartOK, JoinOK, Waiting, Starting, Added
<1>. QED  BY <1>1, <1>3, <1>6 DEF Quietly, Starting

\* The commit makes everyone in the room a participant of the round, which is there.
LEMMA QuietCommit ==
  ASSUME NEW h, Handlers = {h}, HandleInv, ~overlapped, Quietly(h), Calm', StartCommit(h)
  PROVE  Quietly(h)'
<1>1. /\ Shape /\ RowsOK(db) /\ h \in Handlers /\ present \subseteq Users
      /\ pend = [g \in Handlers |-> pend[g]] /\ pend[h] \in Seq(Writes)
  BY DEF HandleInv, Quietly
<1>2. pc[h] = "commit" /\ UNCHANGED present
  BY DEF StartCommit, At
<1>3. req[h].tx = h /\ h # "pool"
  BY <1>2, HandleAt DEF Around
<1>4. db' = View(h) /\ EndTransaction(h, "timer", [req[h] EXCEPT !.tx = "pool"])
  BY <1>3, NoFailure DEF StartCommit
<1>5. pc'[h] = "timer" /\ pend'[h] = <<>> /\ pend' = [g \in Handlers |-> pend'[g]]
  BY <1>1, <1>4 DEF EndTransaction, Shape
<1>6. db' = Written(db, pend[h])
  BY <1>3, <1>4 DEF View
<1>7. /\ RowsOK(db')
      /\ \A e \in RoundIds :
            /\ db'.status[e] \in {db.status[e], "ended"}
            /\ {pend[h][i].val : i \in To(pend[h], e, {"part"})} \subseteq db'.parts[e]
  BY <1>1, <1>6, CommitRows
<1>8. /\ req[h].round \in RoundIds /\ db.status[req[h].round] # "none"
      /\ present \subseteq Added(h, req[h].round)
  BY <1>2 DEF Quietly, StartOK, Starting
<1>9. \A d \in RoundIds : Played(d)' => d = req[h].round
  <2>1. db'.status[req[h].round] # "none"
    BY <1>7, <1>8
  <2>. QED  BY <1>8, <2>1 DEF Played
<1>10. present' \subseteq db'.parts[req[h].round]
  BY <1>2, <1>7, <1>8 DEF Added
<1>11. Settled'
  BY <1>9, <1>10 DEF Settled
<1>. QED  BY <1>1, <1>2, <1>5, <1>7, <1>11, PlainOK DEF Plain

-----------------------------------------------------------------------------
(* The tasks, and the members who leave *)

\* Somebody else's step: rounds end, members leave, and the transaction grows.
LEMMA QuietOthers ==
  ASSUME NEW h, Quietly(h), RowsOK(db'), UNCHANGED <<pc, req>>, present' \subseteq present,
         pend' = [g \in Handlers |-> pend'[g]], pend'[h] \in Seq(Writes),
         pc[h] \notin {"rows", "restore"} => UNCHANGED pend,
         \A d : Added(h, d) \subseteq Added(h, d)',
         \A e \in RoundIds : /\ db'.status[e] \in {db.status[e], "ended"}
                             /\ db.status[e] = "none" => db'.status[e] = "none"
                             /\ db.parts[e] \subseteq db'.parts[e]
  PROVE  Quietly(h)'
<1>1. \A d \in RoundIds : Played(d)' => Played(d)
  BY DEF Played
<1>2. pc[h] \in Waiting \cup Starting => req[h].round \in RoundIds
  BY DEF Quietly, StartOK
<1>3. /\ pc[h] \in Waiting => db'.status[req[h].round] \in {"created", "ended"}
      /\ pc[h] \in Starting => db'.status[req[h].round] # "none"
  BY <1>2 DEF Quietly, StartOK, Waiting, Starting
<1>4. present \subseteq req[h].todo => present' \subseteq req[h].todo
  OBVIOUS
<1>5. ASSUME pc[h] = "rows"
      PROVE  present' \subseteq req[h].todo \cup Added(h, req[h].round)' /\ req[h].todo \subseteq Users
  <2>1. present \subseteq req[h].todo \cup Added(h, req[h].round) /\ req[h].todo \subseteq Users
    BY <1>5 DEF Quietly, StartOK
  <2>2. Added(h, req[h].round) \subseteq Added(h, req[h].round)'
    BY Zenon
  <2>. QED  BY <2>1, <2>2
<1>6. ASSUME pc[h] \in {"restore", "commit"}
      PROVE  present' \subseteq Added(h, req[h].round)'
  <2>1. present \subseteq Added(h, req[h].round)
    BY <1>6 DEF Quietly, StartOK
  <2>2. Added(h, req[h].round) \subseteq Added(h, req[h].round)'
    BY Zenon
  <2>. QED  BY <2>1, <2>2
<1>7. StartOK(h)'
  BY <1>2, <1>3, <1>4, <1>5, <1>6 DEF Quietly, StartOK
<1>8. JoinOK(h)'
  BY <1>1 DEF Quietly, JoinOK
<1>9. Settled => Settled'
  BY <1>1 DEF Settled
<1>10. present' \subseteq Users /\ pc'[h] \notin {"undo", "rollback"}
  BY DEF Quietly
<1>. QED  BY <1>7, <1>8, <1>9, <1>10 DEF Quietly

LEMMA QuietTask ==
  ASSUME NEW h, Handlers = {h}, HandleInv, ~overlapped, Quietly(h), Calm', NEW d \in RoundIds, Task(d)
  PROVE  Quietly(h)'
<1>1. /\ RowsOK(db) /\ pend = [g \in Handlers |-> pend[g]] /\ pend[h] \in Seq(Writes) /\ UNCHANGED <<pc, req, present>>
  BY DEF Quietly, Task, TimerEnd, TimerTell
<1>2. CASE UNCHANGED <<db, pend>>
  <2>1. RowsOK(db') /\ pend' = [g \in Handlers |-> pend'[g]] /\ pend'[h] \in Seq(Writes) /\ UNCHANGED pend
    BY <1>1, <1>2
  <2>2. \A e : Added(h, e) \subseteq Added(h, e)'
    BY <1>2 DEF Added
  <2>3. db' = db
    BY <1>2
  <2>4. \A e \in RoundIds : /\ db'.status[e] \in {db.status[e], "ended"}
                            /\ db.status[e] = "none" => db'.status[e] = "none"
                            /\ db.parts[e] \subseteq db'.parts[e]
    BY <2>3
  <2>. QED  BY <1>1, <2>1, <2>2, <2>4, QuietOthers
<1>3. CASE Exec([op |-> "status", round |-> d, val |-> "ended"])
  <2>1. PICK w \in Writes : w = [op |-> "status", round |-> d, val |-> "ended"]
    BY DEF Writes
  <2>2. CASE pc[h] \in Swapped
    <3>1. handle = h /\ h # "pool"
      BY <2>2, HandleAt
    <3>2. /\ db' = db /\ pend' = [g \in Handlers |-> pend'[g]] /\ pend'[h] \in Seq(Writes)
          /\ \A e : Added(h, e) \subseteq Added(h, e)'
      BY <1>1, <1>3, <2>1, <3>1, TxExec
    <3>3. pc[h] \in {"rows", "restore"}
      BY <2>2 DEF Quietly, Swapped
    <3>4. \A e \in RoundIds : /\ db'.status[e] \in {db.status[e], "ended"}
                              /\ db.status[e] = "none" => db'.status[e] = "none"
                              /\ db.parts[e] \subseteq db'.parts[e]
      BY <3>2
    <3>5. RowsOK(db')
      BY <1>1, <3>2
    <3>. QED  BY <1>1, <3>2, <3>3, <3>4, <3>5, QuietOthers
  <2>3. CASE pc[h] \notin Swapped
    <3>1. handle = "pool"
      BY <2>3, HandleAt
    <3>2. db' = Apply(db, [op |-> "status", round |-> d, val |-> "ended"]) /\ pend' = pend
      BY <1>3, <3>1, PoolExec
    <3>3. "ended" \in Statuses
      BY DEF Statuses
    <3>4. /\ RowsOK(db') /\ db'.parts = db.parts
          /\ \A e \in RoundIds : db'.status[e] = IF e = d /\ db.status[d] # "none" THEN "ended" ELSE db.status[e]
      BY <1>1, <3>2, <3>3, StatusRow
    <3>5. \A e \in RoundIds : /\ db'.status[e] \in {db.status[e], "ended"}
                              /\ db.status[e] = "none" => db'.status[e] = "none"
                              /\ db.parts[e] \subseteq db'.parts[e]
      BY <3>4
    <3>6. \A e : Added(h, e) \subseteq Added(h, e)'
      BY <3>2 DEF Added
    <3>7. RowsOK(db') /\ pend' = [g \in Handlers |-> pend'[g]] /\ pend'[h] \in Seq(Writes) /\ UNCHANGED pend
      BY <1>1, <3>2, <3>4
    <3>. QED  BY <1>1, <3>5, <3>6, <3>7, QuietOthers
  <2>. QED  BY <2>2, <2>3
<1>. QED  BY <1>2, <1>3, NoFailure DEF Task, TimerEnd, TimerTell, Dead

LEMMA QuietLeave ==
  ASSUME NEW h, Quietly(h), NEW u \in Users, Leave(u)
  PROVE  Quietly(h)'
<1>1. UNCHANGED <<pc, req, db, pend>> /\ present' \subseteq present
  BY DEF Leave
<1>2. RowsOK(db') /\ pend' = [g \in Handlers |-> pend'[g]] /\ pend'[h] \in Seq(Writes)
  BY <1>1 DEF Quietly
<1>3. \A e : Added(h, e) \subseteq Added(h, e)'
  BY <1>1 DEF Added
<1>4. \A e \in RoundIds : /\ db'.status[e] \in {db.status[e], "ended"}
                          /\ db.status[e] = "none" => db'.status[e] = "none"
                          /\ db.parts[e] \subseteq db'.parts[e]
  BY <1>1
<1>. QED  BY <1>1, <1>2, <1>3, <1>4, QuietOthers

-----------------------------------------------------------------------------
(* Everyone plays *)

\* What has failed stays recorded.
LEMMA CalmBefore ==
  ASSUME crashes \in Nat, Next, Calm'
  PROVE  Calm /\ ~Crash
<1>1. Crash \/ (crashes' = crashes /\ (faults' = faults \/ \E k : faults' = faults \cup {k}))
  BY ZenonT(60) DEF Next, Arrival, CreateFind, DurationFind, StartFind, EndFind, JoinFind, Work, CreateInsert, CreateFill,
         CreateAppend, UpdateRoundDuration, StartUsers, StartProblems, StartUpdate, StartRtc, StartBegin, StartSwap,
         StartRow, StartRestore, StartCommit, StartRollback, StartTimer, EndUpdate, EndRtc, RtcEnd, JoinAdd, JoinPart,
         Task, TimerEnd, Due, TimerTell, Leave, Fails, Breaks
<1>2. ~Crash
  BY DEF Crash, Calm
<1>. QED  BY <1>1, <1>2 DEF Calm

LEMMA QuietNext ==
  ASSUME NEW h, Handlers = {h}, HandleInv, ~overlapped, Quietly(h), Next, ~Crash, Calm'
  PROVE  Quietly(h)'
<1>1. CASE Arrival(h)
  BY <1>1, QuietArrival
<1>2. CASE Work(h)
  <2>1. ~StartRollback(h)
    BY DEF StartRollback, At, Quietly
  <2>. QED  BY <1>2, <2>1, QuietPlain, QuietBefore, QuietRow, QuietRestore, QuietCommit, QuietJoinAdd, QuietJoinPart DEF Work
<1>3. CASE \E d \in RoundIds : Task(d)
  BY <1>3, QuietTask
<1>4. CASE \E u \in Users : Leave(u)
  BY <1>4, QuietLeave
<1>. QED  BY <1>1, <1>2, <1>3, <1>4 DEF Next

\* One request is in no transaction but its own.
LEMMA NeverOverlapped ==
  ASSUME NEW h, Handlers = {h}, crashes \in Nat, ~overlapped, Next
  PROVE  ~overlapped' /\ crashes' \in Nat
<1>1. UNCHANGED overlapped \/ overlapped' = (overlapped \/ \E g \in Handlers \ {h} : InTransaction(g))
  BY ZenonT(60) DEF Next, Arrival, CreateFind, DurationFind, StartFind, EndFind, JoinFind, Work, CreateInsert, CreateFill,
         CreateAppend, UpdateRoundDuration, StartUsers, StartProblems, StartUpdate, StartRtc, StartBegin, StartSwap,
         StartRow, StartRestore, StartCommit, StartRollback, StartTimer, EndUpdate, EndRtc, JoinAdd, JoinPart,
         Task, TimerEnd, TimerTell, Leave, Crash
<1>2. crashes' = crashes \/ crashes' = crashes + 1
  BY ZenonT(60) DEF Next, Arrival, CreateFind, DurationFind, StartFind, EndFind, JoinFind, Work, CreateInsert, CreateFill,
         CreateAppend, UpdateRoundDuration, StartUsers, StartProblems, StartUpdate, StartRtc, StartBegin, StartSwap,
         StartRow, StartRestore, StartCommit, StartRollback, StartTimer, EndUpdate, EndRtc, JoinAdd, JoinPart,
         Task, TimerEnd, TimerTell, Leave, Crash
<1>3. ~\E g \in Handlers \ {h} : InTransaction(g)
  OBVIOUS
<1>4. ~overlapped'
  BY <1>1, <1>3, Zenon
<1>. QED  BY <1>2, <1>4

LEMMA PlayNext ==
  ASSUME NEW h, Handlers = {h}, HandleInv, PlayInv(h), [Next]_vars
  PROVE  PlayInv(h)'
<1>1. CASE UNCHANGED vars
  BY <1>1 DEF vars, PlayInv, Calm, Quietly, StartOK, JoinOK, Settled, Played, Added
<1>2. CASE Next
  <2>1. ~overlapped' /\ crashes' \in Nat
    BY <1>2, NeverOverlapped DEF PlayInv
  <2>2. ASSUME Calm' PROVE Quietly(h)'
    <3>1. Calm /\ ~Crash
      BY <1>2, <2>2, CalmBefore DEF PlayInv
    <3>2. ~overlapped /\ Quietly(h)
      BY <3>1 DEF PlayInv
    <3>. QED  BY <1>2, <2>2, <3>1, <3>2, QuietNext
  <2>. QED  BY <2>1, <2>2 DEF PlayInv
<1>. QED  BY <1>1, <1>2

LEMMA PlayInit == ASSUME NEW h, Handlers = {h}, Init PROVE PlayInv(h)
<1>1. /\ db = [status |-> [d \in RoundIds |-> IF d = 1 THEN "created" ELSE "none"],
               filled |-> [d \in RoundIds |-> d = 1],
               dur |-> [d \in RoundIds |-> AnyDur],
               parts |-> [d \in RoundIds |-> {}]]
      /\ present \subseteq Users /\ pend = [g \in Handlers |-> <<>>] /\ pc = [g \in Handlers |-> "idle"]
      /\ crashes = 0 /\ overlapped = FALSE
  BY DEF Init
<1>2. /\ db.status = [d \in RoundIds |-> IF d = 1 THEN "created" ELSE "none"]
      /\ db.parts = [d \in RoundIds |-> {}]
  BY <1>1
<1>3. RowsOK(db)
  BY <1>1, <1>2 DEF RowsOK, Statuses
<1>4. Settled
  BY <1>2 DEF Settled, Played
<1>5. pend = [g \in Handlers |-> pend[g]] /\ pend[h] = <<>> /\ pend[h] \in Seq(Writes) /\ pc[h] = "idle"
  BY <1>1
<1>6. StartOK(h) /\ JoinOK(h)
  BY <1>5 DEF StartOK, JoinOK, Waiting, Starting
<1>7. Quietly(h)
  BY <1>1, <1>3, <1>4, <1>5, <1>6 DEF Quietly
<1>. QED  BY <1>1, <1>7 DEF PlayInv

\* When the requests of a room come one at a time, whatever the tasks of its rounds and the members
\* who leave do meanwhile, all members of the room are participants of the only round that is played
\* once nothing is under way (room.go:568-569), if nothing has failed: who joins in the middle of a
\* start is missed, so that with requests that overlap this is not so.
THEOREM EveryoneGetsToPlay ==
  ASSUME NEW h, Handlers = {h}
  PROVE  Spec => []EveryonePlays
<1>1. Init => PlayInv(h)
  BY PlayInit
<1>2. HandleInv /\ PlayInv(h) /\ [Next]_vars => PlayInv(h)'
  BY PlayNext
<1>3. PlayInv(h) => EveryonePlays
  <2>1. ASSUME PlayInv(h), NEW d \in RoundIds, Played(d), \A g \in Handlers : pc[g] = "idle",
               Undisturbed /\ faults = {}
        PROVE  present \subseteq db.parts[d]
    <3>1. Calm /\ pc[h] = "idle"
      BY <2>1 DEF Calm, Undisturbed
    <3>2. Settled
      BY <2>1, <3>1 DEF PlayInv, Quietly, Starting
    <3>. QED  BY <2>1, <3>2 DEF Settled
  <2>. QED  BY <2>1 DEF EveryonePlays, Played
<1>. QED  BY <1>1, <1>2, <1>3, HandleInvariant, PTL DEF Spec

=============================================================================
