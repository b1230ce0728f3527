--------------------------- MODULE Sessions_proofs ---------------------------
(***************************************************************************)
(* Proofs about Sessions, for any number of tabs and calls, any lives of   *)
(* the tokens, any rate limit and any lag: one refresh per tab, and rights *)
(* that end.                                                               *)
(***************************************************************************)
EXTENDS Sessions, TLAPS

\* A token was signed for a row that was active, but for the time between reading the
\* row and signing; an access token tells the role the row had.
Backed(tok) ==
    /\ tok \in Token
    /\ \E r \in Roles : /\ lastHeld[r] \in Time /\ tok.iat <= lastHeld[r] + Lag
                        /\ tok.role = IF tok.type = "access" THEN r ELSE None

PairBacked(p) ==
    /\ p.access # None => Backed(p.access)
    /\ p.refresh # None => Backed(p.refresh)

\* What is about to be signed was read when the row had it.
ReadBacked(k) ==
    /\ k.row \in Row
    /\ lastHeld[k.row.role] \in Time
    /\ k.since <= lastHeld[k.row.role]

\* What the middleware found: a token that had not expired then.
Admissible(k) ==
    /\ k.token # None
    /\ k.since < k.token.iat + Life(k.token)
    /\ k.want = "admin" => k.token.role = "admin"

\* What holds of each call.  No leg of it is longer than Lag.
Sound(k) ==
    /\ k.pc \in Pending => k.since <= now /\ now <= k.since + Lag
    /\ PairBacked(k.pair)
    /\ k.pc \in {"issue", "reissue"} => ReadBacked(k)
    /\ k.pc \in {"kept", "sent", "admitted"} /\ k.token # None => Backed(k.token)
    /\ k.pc = "admitted" => Admissible(k)

\* An active row has its role now, and no right was held in the future.
RowHeld ==
    /\ row # None /\ row.active => lastHeld[row.role] = now
    /\ \A r \in Roles : lastHeld[r] \in Time => lastHeld[r] <= now

RightsInv ==
    /\ RowHeld
    /\ PairBacked(storage)
    /\ \A c \in Calls : Sound(call[c])

\* RefreshIsOwned, call by call.
OneOwner ==
    \A t \in Tabs :
        /\ refreshing[t] <=> \E c \in Calls : TabOf[c] = t /\ call[c].pc \in Renewal
        /\ \A c, d \in Calls : /\ TabOf[c] = t /\ call[c].pc \in Renewal
                               /\ TabOf[d] = t /\ call[d].pc \in Renewal
                               => c = d

IInv == TypeOK /\ RefreshIsOwned /\ RightsInv

-----------------------------------------------------------------------------
(* A call moves to k, and nothing happens to the row and the clock.        *)

\* Types and rights are kept if k is typed and sound and what is stored is backed.
LEMMA CallMoves ==
    ASSUME IInv, NEW c \in Calls, NEW k \in Call, Sound(k),
           call' = [call EXCEPT ![c] = k],
           UNCHANGED <<now, row, edits, lastHeld>>,
           budget' \in 0..LoginLimit,
           storage' \in Pair, PairBacked(storage'),
           refreshing' \in [Tabs -> BOOLEAN]
    PROVE  TypeOK' /\ RightsInv'
<1>1. /\ call'[c] = k
      /\ \A d \in Calls : d # c => call'[d] = call[d]
  BY DEF IInv, TypeOK
<1>2. TypeOK'
  BY DEF IInv, TypeOK
<1>3. RowHeld' /\ PairBacked(storage)'
  BY DEF IInv, RightsInv, RowHeld, PairBacked, Backed
<1>4. ASSUME NEW d \in Calls PROVE Sound(call[d])'
  <2>1. Sound(call'[d])
    BY <1>1 DEF IInv, RightsInv
  <2> QED BY <2>1 DEF Sound, ReadBacked, Admissible, PairBacked, Backed
<1> QED BY <1>2, <1>3, <1>4 DEF RightsInv

\* The renewals of a tab stay what they are if c stays in or out of them.
LEMMA RenewalStays ==
    ASSUME TypeOK, RefreshIsOwned, NEW c \in Calls, NEW k \in Call,
           call' = [call EXCEPT ![c] = k],
           call[c].pc \in Renewal <=> k.pc \in Renewal,
           UNCHANGED refreshing
    PROVE  RefreshIsOwned'
<1>1. \A d \in Calls : call'[d].pc \in Renewal <=> call[d].pc \in Renewal
  BY DEF TypeOK
<1> QED BY <1>1 DEF RefreshIsOwned

\* The two lemmas together, for the actions that store nothing.
LEMMA QuietMove ==
    ASSUME IInv, NEW c \in Calls, NEW k \in Call, Sound(k),
           call' = [call EXCEPT ![c] = k],
           call[c].pc \in Renewal <=> k.pc \in Renewal,
           UNCHANGED <<now, row, edits, lastHeld, storage, refreshing>>,
           budget' \in 0..LoginLimit
    PROVE  IInv'
<1>1. TypeOK' /\ RightsInv'
  BY CallMoves DEF IInv, TypeOK, RightsInv
<1>2. RefreshIsOwned'
  BY RenewalStays DEF IInv
<1> QED BY <1>1, <1>2 DEF IInv

\* A call that is over, or not begun, promises nothing.
LEMMA IdleIsSound ==
    ASSUME NEW s \in {"idle", "over"}
    PROVE  /\ [Idle EXCEPT !.pc = s] \in Call
           /\ Sound([Idle EXCEPT !.pc = s])
           /\ s \notin Renewal
           /\ [Idle EXCEPT !.pc = s].pc = s
BY SessionParameters DEF Idle, Call, Sound, NoPair, Pair, PairBacked, Want, Pending, Renewal,
                         Time

\* Settle ends a call that renews nothing.
LEMMA SettleMove ==
    ASSUME IInv, NEW c \in Calls, Settle(c),
           call[c].pc \notin Renewal,
           UNCHANGED <<now, row, edits, lastHeld, storage, refreshing>>,
           budget' \in 0..LoginLimit
    PROVE  IInv'
<1> DEFINE k == Over
<1>1. call' = [call EXCEPT ![c] = k]
  BY DEF Settle
<1>2. k \in Call /\ Sound(k) /\ k.pc \notin Renewal
  BY IdleIsSound DEF Over
<1> HIDE DEF k
<1> QED BY <1>1, <1>2, QuietMove

\* Return ends what there was to say of the request.
LEMMA ReturnMove ==
    ASSUME IInv, NEW c \in Calls, NEW s \in {"unauthorized", "failed"}, Return(c, s),
           call[c].pc \in Renewal <=> s \in Renewal,
           UNCHANGED <<now, row, edits, lastHeld, storage, refreshing>>,
           budget' \in 0..LoginLimit
    PROVE  IInv'
<1> DEFINE k == [call[c] EXCEPT !.pc = s, !.since = now, !.token = None,
                                !.secret = 0, !.row = None, !.pair = NoPair]
<1>1. call' = [call EXCEPT ![c] = k]
  BY DEF Return
<1>2. /\ k \in Call /\ k.pc = s /\ k.since = now /\ k.pair = NoPair
      /\ PairBacked(k.pair)
  <2>1. call[c] \in Call /\ now \in Time
    BY DEF IInv, TypeOK
  <2>2. NoPair \in Pair /\ PairBacked(NoPair)
    BY DEF NoPair, Pair, PairBacked
  <2>3. 0 \in 0..MaxEdits /\ s \in Pending
    BY SessionParameters DEF Pending, Renewal
  <2> QED BY <2>1, <2>2, <2>3 DEF Call
<1>3. Sound(k)
  BY <1>2, SessionParameters DEF IInv, TypeOK, Sound, Time
<1> HIDE DEF k
<1> QED BY <1>1, <1>2, <1>3, QuietMove

-----------------------------------------------------------------------------
(* The actions of a call.                                                  *)

\* A call begins with what its tab holds, and nothing of it is signed yet.
LEMMA StartStep ==
    ASSUME IInv, NEW c \in Calls, NEW w \in Want, NEW n \in 0..MaxEdits, Start(c, w, n)
    PROVE  IInv'
<1> DEFINE tok == IF w \in {"read", "admin"} THEN storage.access ELSE None
           k == [call[c] EXCEPT !.pc = "sent", !.want = w, !.secret = n, !.since = now,
                                !.token = tok]
<1>1. call' = [call EXCEPT ![c] = k]
  BY DEF Start
<1>2. tok \in {storage.access, None} /\ tok \in Token \cup {None}
  BY DEF IInv, TypeOK, Pair
<1>3. call[c] \in Call /\ now \in Time
  BY DEF IInv, TypeOK
<1> HIDE DEF tok
<1>4. k \in Call /\ k.pc = "sent" /\ k.since = now /\ k.pair = call[c].pair /\ k.token = tok
  BY <1>2, <1>3 DEF Call, Pending
<1>5. Sound(k)
  BY <1>2, <1>3, <1>4, SessionParameters DEF IInv, RightsInv, Sound, PairBacked, Time
<1>6. call[c].pc \notin Renewal /\ k.pc \notin Renewal
  BY <1>4 DEF Start, At, Renewal
<1>7. UNCHANGED <<now, row, edits, lastHeld, storage, refreshing>> /\ budget' \in 0..LoginLimit
  BY DEF Start, IInv, TypeOK, dbVars, clientVars
<1> HIDE DEF k
<1> QED BY <1>1, <1>4, <1>5, <1>6, <1>7, QuietMove

\* What another client copies is backed, and stays so.
LEMMA StartOtherStep ==
    ASSUME IInv, NEW c \in Calls, NEW w \in Want, NEW tok, StartOther(c, w, tok)
    PROVE  IInv'
<1> DEFINE k == [call[c] EXCEPT !.pc = "kept", !.want = w, !.token = tok]
<1>1. call' = [call EXCEPT ![c] = k]
  BY DEF StartOther
<1>2. tok \in {storage.access, storage.refresh} /\ tok # None
  BY DEF StartOther
<1>3. tok \in Token /\ Backed(tok)
  BY <1>2 DEF IInv, TypeOK, Pair, RightsInv, PairBacked
<1>4. call[c] \in Call /\ call[c].pc = "idle" /\ PairBacked(call[c].pair)
  BY DEF StartOther, At, IInv, TypeOK, RightsInv, Sound
<1>5. k \in Call /\ k.pc = "kept" /\ k.pair = call[c].pair /\ k.token = tok
  BY <1>3, <1>4 DEF Call, Pending, Renewal
<1>6. "kept" \notin Pending /\ "kept" \notin Renewal /\ "idle" \notin Renewal
  BY DEF Pending, Renewal
<1>7. UNCHANGED <<now, row, edits, lastHeld, storage, refreshing>> /\ budget' \in 0..LoginLimit
  BY DEF StartOther, IInv, TypeOK, dbVars, clientVars
<1> HIDE DEF k
<1>8. Sound(k)
  BY <1>3, <1>4, <1>5, <1>6 DEF Sound
<1> QED BY <1>1, <1>4, <1>5, <1>6, <1>7, <1>8, QuietMove

\* What is admitted had a token that was valid at this moment.
LEMMA AuthMiddlewareStep ==
    ASSUME IInv, NEW c \in Calls, AuthMiddleware(c)
    PROVE  IInv'
<1>1. call[c].pc \in {"kept", "sent"} /\ call[c].pc \notin Renewal
  BY DEF AuthMiddleware, At, Renewal
<1>2. UNCHANGED <<now, row, edits, lastHeld, storage, refreshing>> /\ budget' \in 0..LoginLimit
  BY DEF AuthMiddleware, IInv, TypeOK, dbVars, clientVars
<1>3. CASE Return(c, "unauthorized")
  BY <1>1, <1>2, <1>3, ReturnMove DEF Renewal
<1>4. CASE Settle(c)
  BY <1>1, <1>2, <1>4, SettleMove
<1>5. CASE /\ Valid(call[c].token) /\ ~ Forbidden(c)
           /\ call' = [call EXCEPT ![c] = [@ EXCEPT !.pc = "admitted", !.since = now]]
  <2> DEFINE k == [call[c] EXCEPT !.pc = "admitted", !.since = now]
  <2>1. call' = [call EXCEPT ![c] = k]
    BY <1>5
  <2>2. /\ k \in Call /\ k.pc = "admitted" /\ k.since = now /\ k.pair = call[c].pair
        /\ k.token = call[c].token /\ k.want = call[c].want
    BY DEF IInv, TypeOK, Call, Pending, Renewal
  <2>3. Backed(call[c].token)
    BY <1>1, <1>5 DEF IInv, RightsInv, Sound, Valid
  <2>4. Admissible(k)
    BY <1>5, <2>2 DEF Admissible, Valid, Forbidden
  <2>5. Sound(k)
    BY <2>2, <2>3, <2>4, SessionParameters DEF IInv, TypeOK, RightsInv, Sound, Time
  <2>6. k.pc \notin Renewal
    BY <2>2 DEF Renewal
  <2> HIDE DEF k
  <2> QED BY <1>1, <1>2, <2>1, <2>2, <2>5, <2>6, QuietMove
<1> QED BY <1>3, <1>4, <1>5 DEF AuthMiddleware

\* Serving ends a call that was admitted, and renews nothing.
LEMMA ServeStep ==
    ASSUME IInv, NEW c \in Calls, Serve(c)
    PROVE  IInv'
<1>1. call[c].pc \notin Renewal /\ Settle(c)
  BY DEF Serve, At, Renewal
<1>2. UNCHANGED <<now, row, edits, lastHeld, storage, refreshing>> /\ budget' \in 0..LoginLimit
  BY DEF Serve, IInv, TypeOK, dbVars, clientVars
<1> QED BY <1>1, <1>2, SettleMove

\* The row is read at this moment, so its role was held now.
LEMMA ReadMove ==
    ASSUME IInv, NEW c \in Calls, NEW s \in {"issue", "reissue"},
           row # None, row.active,
           Identify(c, s, row),
           call[c].pc \in Renewal <=> s \in Renewal,
           UNCHANGED <<now, row, edits, lastHeld, storage, refreshing>>,
           budget' \in 0..LoginLimit
    PROVE  IInv'
<1> DEFINE k == [call[c] EXCEPT !.pc = s, !.since = now, !.row = row, !.token = None,
                                !.secret = 0]
<1>1. /\ k \in Call /\ k.pc = s /\ k.since = now /\ k.pair = call[c].pair /\ k.row = row
  <2>1. call[c] \in Call /\ now \in Time /\ row \in Row
    BY DEF IInv, TypeOK
  <2>2. 0 \in 0..MaxEdits /\ s \in Pending
    BY SessionParameters DEF Pending, Renewal
  <2> QED BY <2>1, <2>2 DEF Call
<1>2. ReadBacked(k)
  <2>1. row \in Row /\ row.role \in Roles /\ now \in Time /\ lastHeld[row.role] = now
    BY DEF IInv, TypeOK, RightsInv, RowHeld, Row
  <2> QED BY <1>1, <2>1 DEF ReadBacked, Time
<1>3. Sound(k)
  BY <1>1, <1>2, SessionParameters DEF IInv, TypeOK, RightsInv, Sound, Time
<1>4. call' = [call EXCEPT ![c] = k]
  BY DEF Identify
<1> HIDE DEF k
<1> QED BY <1>1, <1>3, <1>4, QuietMove

\* Login's reading of the user, found or not.
LEMMA LoginReadStep ==
    ASSUME IInv, NEW c \in Calls, LoginRead(c)
    PROVE  IInv'
<1>1. call[c].pc \notin Renewal /\ "issue" \notin Renewal /\ "unauthorized" \notin Renewal
  BY DEF LoginRead, At, Renewal
<1>2. UNCHANGED <<now, row, edits, lastHeld, storage, refreshing>> /\ budget' \in 0..LoginLimit
  BY SessionParameters DEF LoginRead, IInv, TypeOK, dbVars, clientVars
<1>3. CASE row # None /\ row.active /\ row.password = call[c].secret
  <2>1. Identify(c, "issue", row)
    BY <1>3 DEF LoginRead
  <2> QED BY <1>1, <1>2, <1>3, <2>1, ReadMove
<1>4. CASE ~ (row # None /\ row.active /\ row.password = call[c].secret)
  <2>1. Return(c, "unauthorized")
    BY <1>4 DEF LoginRead
  <2> QED BY <1>1, <1>2, <2>1, ReturnMove
<1> QED BY <1>3, <1>4

\* RefreshAccessToken's reading of the user, with the refresh token still valid or not.
LEMMA RefreshReadStep ==
    ASSUME IInv, NEW c \in Calls, RefreshRead(c)
    PROVE  IInv'
<1>1. call[c].pc \in Renewal /\ "reissue" \in Renewal /\ "failed" \in Renewal
  BY DEF RefreshRead, At, Renewal
<1>2. UNCHANGED <<now, row, edits, lastHeld, storage, refreshing>> /\ budget' \in 0..LoginLimit
  BY SessionParameters DEF RefreshRead, IInv, TypeOK, dbVars, clientVars
<1>3. CASE Valid(call[c].token) /\ call[c].token.type = "refresh" /\ row # None /\ row.active
  <2>1. Identify(c, "reissue", row)
    BY <1>3 DEF RefreshRead
  <2> QED BY <1>1, <1>2, <1>3, <2>1, ReadMove
<1>4. CASE ~ (Valid(call[c].token) /\ call[c].token.type = "refresh" /\ row # None /\ row.active)
  <2>1. Return(c, "failed")
    BY <1>4 DEF RefreshRead
  <2> QED BY <1>1, <1>2, <2>1, ReturnMove
<1> QED BY <1>3, <1>4

\* What is signed now was read at most Lag ago.
LEMMA SignMove ==
    ASSUME IInv, NEW c \in Calls, NEW s \in {"issued", "renewed"}, Sign(c, s),
           call[c].pc \in {"issue", "reissue"},
           call[c].pc \in Renewal <=> s \in Renewal
    PROVE  IInv'
<1> DEFINE r == call[c].row
           new == Signed(r)
           k == [call[c] EXCEPT !.pc = s, !.row = None, !.pair = new, !.since = now]
<1>1. call' = [call EXCEPT ![c] = k]
  BY DEF Sign
<1>2. call[c] \in Call /\ now \in Time /\ now <= call[c].since + Lag /\ ReadBacked(call[c])
  BY DEF IInv, TypeOK, RightsInv, Sound, Pending, Renewal
<1>3. r \in Row /\ r.role \in Roles
  BY <1>2 DEF ReadBacked, Row
<1>4. new \in Pair /\ PairBacked(new)
  <2>1. new.access \in Token /\ new.refresh \in Token /\ new \in Pair
    BY <1>2, <1>3 DEF Signed, Token, Pair
  <2>2. /\ new.access.type = "access" /\ new.access.role = r.role /\ new.access.iat = now
        /\ new.refresh.type = "refresh" /\ new.refresh.role = None /\ new.refresh.iat = now
    BY DEF Signed
  <2>3. now <= lastHeld[r.role] + Lag /\ lastHeld[r.role] \in Time
    BY <1>2, SessionParameters DEF ReadBacked, Call, Time
  <2> HIDE DEF new
  <2>4. Backed(new.access) /\ Backed(new.refresh)
    BY <1>3, <2>1, <2>2, <2>3 DEF Backed
  <2> QED BY <2>1, <2>4 DEF PairBacked
<1> HIDE DEF new
<1>5. /\ k \in Call /\ k.pc = s /\ k.since = now /\ k.pair = new
  BY <1>2, <1>4 DEF Call, Pending, Renewal
<1>6. Sound(k)
  BY <1>2, <1>4, <1>5, SessionParameters DEF Sound, Time
<1>7. UNCHANGED <<now, row, edits, lastHeld, storage, refreshing>> /\ budget' \in 0..LoginLimit
  BY DEF Sign, IInv, TypeOK, dbVars, clientVars
<1> HIDE DEF k
<1> QED BY <1>1, <1>5, <1>6, <1>7, QuietMove

\* Login and RefreshAccessToken sign for the row they read.
LEMMA IssueSteps ==
    ASSUME IInv, NEW c \in Calls, LoginIssue(c) \/ RefreshIssue(c)
    PROVE  IInv'
<1>1. CASE LoginIssue(c)
  BY <1>1, SignMove DEF LoginIssue, At, Renewal
<1>2. CASE RefreshIssue(c)
  BY <1>2, SignMove DEF RefreshIssue, At, Renewal
<1> QED BY <1>1, <1>2

\* A call whose answer is lost ends, or goes where the client treats it as refused.
LEMMA NoAnswerStep ==
    ASSUME IInv, NEW c \in Calls, NoAnswer(c)
    PROVE  IInv'
<1>1. UNCHANGED <<now, row, edits, lastHeld, storage, refreshing>> /\ budget' \in 0..LoginLimit
  BY DEF NoAnswer, IInv, TypeOK, dbVars, clientVars
<1>2. CASE call[c].pc \in Renewal
  <2>1. Return(c, "failed") /\ "failed" \in Renewal
    BY <1>2 DEF NoAnswer, Renewal
  <2> QED BY <1>1, <1>2, <2>1, ReturnMove
<1>3. CASE call[c].pc \notin Renewal
  BY <1>1, <1>3, SettleMove DEF NoAnswer
<1> QED BY <1>2, <1>3

\* A pair that is stored was backed when it was signed, and still is.
LEMMA LoginStoreStep ==
    ASSUME IInv, NEW c \in Calls, LoginStore(c)
    PROVE  IInv'
<1> DEFINE k == Over
<1>1. call' = [call EXCEPT ![c] = k]
  BY DEF LoginStore, Settle
<1>2. k \in Call /\ Sound(k) /\ k.pc \notin Renewal /\ call[c].pc \notin Renewal
  <2>1. call[c].pc \notin Renewal
    BY DEF LoginStore, At, Renewal
  <2> QED BY <2>1, IdleIsSound DEF Over
<1>3. storage' \in Pair /\ PairBacked(storage')
  BY DEF LoginStore, IInv, TypeOK, RightsInv, Sound, Call
<1>4. /\ UNCHANGED <<now, row, edits, lastHeld, refreshing>> /\ budget' \in 0..LoginLimit
      /\ refreshing' \in [Tabs -> BOOLEAN]
  BY DEF LoginStore, IInv, TypeOK, dbVars
<1> HIDE DEF k
<1>5. TypeOK' /\ RightsInv'
  BY <1>1, <1>2, <1>3, <1>4, CallMoves
<1>6. RefreshIsOwned'
  BY <1>1, <1>2, <1>4, RenewalStays DEF IInv
<1> QED BY <1>5, <1>6 DEF IInv

\* A page that is left takes all renewals of its tab with it.
LEMMA LeaveStep ==
    ASSUME IInv, NEW t \in Tabs, Leave(t), UNCHANGED <<now, row, edits, budget, lastHeld>>
    PROVE  IInv'
<1> DEFINE over == Over
<1>1. over \in Call /\ Sound(over) /\ over.pc = "over"
  BY IdleIsSound DEF Over
<1>2. \A c \in Calls :
         /\ call'[c] \in {over, call[c]}
         /\ TabOf[c] = t => call'[c].pc \notin Renewal
         /\ TabOf[c] # t => call'[c] = call[c]
  BY DEF Leave, Over, Idle, Pending, Renewal
<1>3. storage' = NoPair /\ NoPair \in Pair /\ NoPair.access = None /\ NoPair.refresh = None
  BY DEF Leave, NoPair, Pair
<1>4. TypeOK'
  <2>1. call' \in [Calls -> Call]
    BY <1>1, <1>2 DEF Leave, IInv, TypeOK
  <2>2. refreshing' \in [Tabs -> BOOLEAN]
    BY DEF Leave, IInv, TypeOK
  <2> QED BY <1>3, <2>1, <2>2 DEF IInv, TypeOK
<1>5. RefreshIsOwned'
  <2>1. refreshing'[t] = FALSE /\ \A u \in Tabs \ {t} : refreshing'[u] = refreshing[u]
    BY DEF Leave, IInv, TypeOK
  <2>2. ASSUME NEW u \in Tabs PROVE
          {c \in Calls : TabOf[c] = u /\ call'[c].pc \in Renewal} =
            IF u = t THEN {} ELSE {c \in Calls : TabOf[c] = u /\ call[c].pc \in Renewal}
    BY <1>2
  <2> QED BY <2>1, <2>2 DEF IInv, RefreshIsOwned
<1> HIDE DEF over
<1>6. RightsInv'
  <2>1. \A c \in Calls : Sound(call'[c])
    BY <1>1, <1>2 DEF IInv, RightsInv
  <2>2. ASSUME NEW c \in Calls PROVE Sound(call[c])'
    BY <2>1 DEF Sound, ReadBacked, Admissible, PairBacked, Backed
  <2>3. RowHeld' /\ PairBacked(storage)'
    BY <1>3 DEF IInv, RightsInv, RowHeld, PairBacked
  <2> QED BY <2>2, <2>3 DEF RightsInv
<1> QED BY <1>4, <1>5, <1>6 DEF IInv

\* Only a call that finds the tab not refreshing begins to.
LEMMA OnUnauthorizedStep ==
    ASSUME IInv, NEW c \in Calls, OnUnauthorized(c)
    PROVE  IInv'
<1> DEFINE t == TabOf[c]
<1>1. t \in Tabs /\ call[c].pc = "unauthorized" /\ call[c].pc \notin Renewal
  BY SessionParameters DEF OnUnauthorized, At, Renewal
<1>2. UNCHANGED <<now, row, edits, budget, lastHeld>> /\ budget' \in 0..LoginLimit
  BY DEF OnUnauthorized, IInv, TypeOK, dbVars
<1>3. CASE Settle(c) /\ UNCHANGED clientVars
  BY <1>1, <1>2, <1>3, SettleMove DEF clientVars
<1>4. CASE /\ ~ refreshing[t] /\ storage.refresh # None
           /\ refreshing' = [refreshing EXCEPT ![t] = TRUE]
           /\ call' = [call EXCEPT ![c] = [call[c] EXCEPT !.pc = "refresh", !.since = now,
                                                         !.token = storage.refresh]]
           /\ UNCHANGED storage
  <2> DEFINE k == [call[c] EXCEPT !.pc = "refresh", !.since = now, !.token = storage.refresh]
  <2>1. call' = [call EXCEPT ![c] = k]
    BY <1>4
  <2>2. call[c] \in Call /\ now \in Time /\ storage.refresh \in Token
    BY <1>4 DEF IInv, TypeOK, Pair
  <2>3. k \in Call /\ k.pc = "refresh" /\ k.since = now /\ k.pair = call[c].pair
    BY <2>2 DEF Call, Pending, Renewal
  <2>4. Sound(k)
    BY <2>2, <2>3, SessionParameters DEF IInv, RightsInv, Sound, Time
  <2> HIDE DEF k
  <2>5. refreshing' \in [Tabs -> BOOLEAN]
    BY <1>1, <1>4 DEF IInv, TypeOK
  <2>6. TypeOK' /\ RightsInv'
    BY <1>2, <1>4, <2>1, <2>3, <2>4, <2>5, CallMoves DEF IInv, TypeOK, RightsInv
  <2>7. RefreshIsOwned'
    <3>1. \A d \in Calls : TabOf[d] = t => call[d].pc \notin Renewal
      BY <1>1, <1>4 DEF IInv, RefreshIsOwned
    <3>2. \A d \in Calls : call'[d].pc \in Renewal <=> d = c \/ call[d].pc \in Renewal
      BY <2>1, <2>3 DEF IInv, TypeOK, Renewal
    <3>3. \A u \in Tabs : refreshing'[u] = IF u = t THEN TRUE ELSE refreshing[u]
      BY <1>4 DEF IInv, TypeOK
    <3>4. OneOwner
      BY DEF IInv, RefreshIsOwned, OneOwner
    <3> DEFINE In(u, d) == TabOf[d] = u /\ call'[d].pc \in Renewal
    <3>5. ASSUME NEW u \in Tabs, u = t
          PROVE  /\ refreshing'[u] /\ In(u, c)
                 /\ \A d \in Calls : In(u, d) => d = c
      BY <3>1, <3>2, <3>3, <3>5
    <3>6. ASSUME NEW u \in Tabs, u # t
          PROVE  /\ refreshing'[u] = refreshing[u]
                 /\ \A d \in Calls : In(u, d) <=> TabOf[d] = u /\ call[d].pc \in Renewal
      BY <3>2, <3>3, <3>6
    <3> HIDE DEF In
    <3>7. ASSUME NEW u \in Tabs
          PROVE  /\ refreshing'[u] <=> \E d \in Calls : In(u, d)
                 /\ \A d, e \in Calls : In(u, d) /\ In(u, e) => d = e
      <4>1. CASE u = t
        BY <3>5, <4>1
      <4>2. CASE u # t
        BY <3>4, <3>6, <4>2 DEF OneOwner
      <4> QED BY <4>1, <4>2
    <3> USE DEF In
    <3>8. OneOwner'
      BY <3>7 DEF OneOwner
    <3> QED BY <3>8 DEF OneOwner, RefreshIsOwned
  <2> QED BY <2>6, <2>7 DEF IInv
<1>5. CASE Leave(t)
  BY <1>1, <1>2, <1>5, LeaveStep
<1> QED BY <1>3, <1>4, <1>5 DEF OnUnauthorized

\* The one renewal of the tab ends and gives the lock back.
LEMMA OnRenewedStep ==
    ASSUME IInv, NEW c \in Calls, OnRenewed(c)
    PROVE  IInv'
<1> DEFINE t == TabOf[c]
           new == call[c].pair
           k == [call[c] EXCEPT !.pc = "sent", !.token = new.access, !.pair = NoPair,
                                !.since = now]
<1>1. t \in Tabs /\ call[c].pc \in Renewal
  BY SessionParameters DEF OnRenewed, At, Renewal
<1>2. /\ UNCHANGED <<now, row, edits, budget, lastHeld>> /\ budget' \in 0..LoginLimit
      /\ storage' = new /\ refreshing' = [refreshing EXCEPT ![t] = FALSE]
      /\ call' = [call EXCEPT ![c] = k]
  BY DEF OnRenewed, IInv, TypeOK, dbVars
<1>3. /\ call[c] \in Call /\ now \in Time /\ new \in Pair /\ new.access \in Token \cup {None}
      /\ PairBacked(new)
  BY DEF IInv, TypeOK, RightsInv, Sound, Call, Pair
<1>4. NoPair \in Pair /\ PairBacked(NoPair)
  BY DEF NoPair, Pair, PairBacked
<1> HIDE DEF new
<1>5. /\ k \in Call /\ k.pc = "sent" /\ k.since = now /\ k.pair = NoPair
      /\ k.token = new.access
  BY <1>3, <1>4 DEF Call, Pending
<1>6. Sound(k)
  BY <1>3, <1>4, <1>5, SessionParameters DEF Sound, PairBacked, Time
<1> HIDE DEF k
<1>7. refreshing' \in [Tabs -> BOOLEAN]
  BY <1>1, <1>2 DEF IInv, TypeOK
<1>8. TypeOK' /\ RightsInv'
  BY <1>2, <1>3, <1>5, <1>6, <1>7, CallMoves
<1>9. RefreshIsOwned'
  <2>1. \A d \in Calls : TabOf[d] = t /\ call[d].pc \in Renewal => d = c
    BY <1>1 DEF IInv, RefreshIsOwned
  <2>2. \A d \in Calls : call'[d].pc \in Renewal <=> d # c /\ call[d].pc \in Renewal
    BY <1>2, <1>5 DEF IInv, TypeOK, Renewal
  <2>3. \A u \in Tabs : refreshing'[u] = IF u = t THEN FALSE ELSE refreshing[u]
    BY <1>2 DEF IInv, TypeOK
  <2>4. OneOwner
    BY DEF IInv, RefreshIsOwned, OneOwner
  <2> DEFINE In(u, d) == TabOf[d] = u /\ call'[d].pc \in Renewal
  <2>5. ASSUME NEW u \in Tabs, u = t
        PROVE  ~ refreshing'[u] /\ \A d \in Calls : ~ In(u, d)
    BY <2>1, <2>2, <2>3, <2>5
  <2>6. ASSUME NEW u \in Tabs, u # t
        PROVE  /\ refreshing'[u] = refreshing[u]
               /\ \A d \in Calls : In(u, d) <=> TabOf[d] = u /\ call[d].pc \in Renewal
    BY <2>2, <2>3, <2>6
  <2> HIDE DEF In
  <2>7. ASSUME NEW u \in Tabs
        PROVE  /\ refreshing'[u] <=> \E d \in Calls : In(u, d)
               /\ \A d, e \in Calls : In(u, d) /\ In(u, e) => d = e
    <3>1. CASE u = t
      BY <2>5, <3>1
    <3>2. CASE u # t
      BY <2>4, <2>6, <3>2 DEF OneOwner
    <3> QED BY <3>1, <3>2
  <2> USE DEF In
  <2>8. OneOwner'
    BY <2>7 DEF OneOwner
  <2> QED BY <2>8 DEF OneOwner, RefreshIsOwned
<1> QED BY <1>8, <1>9 DEF IInv

-----------------------------------------------------------------------------
(* The row, the clock and the theorems.                                    *)

\* Rights are remembered as of now', and nothing else about a call changes.
LEMMA RowOrClockMoves ==
    ASSUME IInv, now' \in Time, now <= now', row' \in Row \cup {None}, edits' \in 0..MaxEdits,
           Remember(row'), budget' \in 0..LoginLimit,
           UNCHANGED <<storage, refreshing, call>>,
           \A c \in Calls : call[c].pc \in Pending => now' <= call[c].since + Lag
    PROVE  IInv'
<1>1. now \in Nat /\ now' \in Nat
  BY SessionParameters DEF IInv, TypeOK, Time
<1>2. \A r \in Roles : lastHeld'[r] \in {now', lastHeld[r]}
  BY DEF Remember
<1>3. \A r \in Roles : lastHeld[r] \in Time =>
          lastHeld'[r] \in Time /\ lastHeld[r] <= lastHeld'[r] /\ lastHeld'[r] <= now'
  BY <1>1, <1>2, SessionParameters DEF IInv, TypeOK, RightsInv, RowHeld, Time
<1>4. TypeOK'
  <2>1. lastHeld' \in [Roles -> Time \cup {None}]
    BY DEF Remember, IInv, TypeOK
  <2> QED BY <2>1 DEF IInv, TypeOK
<1>5. RefreshIsOwned'
  BY DEF IInv, RefreshIsOwned
<1>6. RowHeld'
  <2>1. row' # None /\ row'.active => lastHeld'[row'.role] = now'
    BY DEF Remember, Row
  <2>2. \A r \in Roles : lastHeld'[r] \in Time => lastHeld'[r] <= now'
    BY <1>1, <1>2, <1>3
  <2> QED BY <2>1, <2>2 DEF RowHeld
<1>7. ASSUME NEW tok, Backed(tok) PROVE Backed(tok)'
  BY <1>3, <1>7, SessionParameters DEF Backed, Token, Time
<1>8. PairBacked(storage)'
  BY <1>7 DEF IInv, RightsInv, PairBacked
<1>9. ASSUME NEW c \in Calls PROVE Sound(call[c])'
  <2>1. Sound(call[c]) /\ call[c] \in Call
    BY DEF IInv, RightsInv, TypeOK
  <2>2. call[c].pc \in Pending => call[c].since <= now' /\ now' <= call[c].since + Lag
    BY <1>1, <2>1, SessionParameters DEF Sound, Call, Time
  <2>3. ReadBacked(call[c]) => ReadBacked(call[c])'
    BY <1>3, <2>1, SessionParameters DEF ReadBacked, Call, Row, Time
  <2>4. Admissible(call[c]) => Admissible(call[c])'
    BY DEF Admissible, Life
  <2>5. PairBacked(call[c].pair)'
    BY <1>7, <2>1 DEF Sound, PairBacked
  <2>6. call[c].pc \in {"kept", "sent", "admitted"} /\ call[c].token # None => Backed(call[c].token)'
    BY <1>7, <2>1 DEF Sound
  <2> QED BY <2>1, <2>2, <2>3, <2>4, <2>5, <2>6 DEF Sound
<1> QED BY <1>4, <1>5, <1>6, <1>8, <1>9 DEF IInv, RightsInv

\* Logout empties the storage and touches no call.
LEMMA LogoutStep ==
    ASSUME IInv, Logout
    PROVE  IInv'
<1>1. storage' = NoPair /\ NoPair \in Pair /\ PairBacked(storage)'
  BY DEF Logout, NoPair, Pair, PairBacked
<1>2. UNCHANGED <<now, row, edits, budget, refreshing, call, lastHeld>>
  BY DEF Logout, dbVars
<1>3. TypeOK' /\ RefreshIsOwned' /\ RowHeld'
  BY <1>1, <1>2 DEF IInv, TypeOK, RefreshIsOwned, RightsInv, RowHeld
<1>4. ASSUME NEW c \in Calls PROVE Sound(call[c])'
  BY <1>2 DEF IInv, RightsInv, Sound, ReadBacked, Admissible, PairBacked, Backed
<1> QED BY <1>1, <1>3, <1>4 DEF IInv, RightsInv

\* What happens to the user's row, and the ticks of the clock and of the rate limit.
LEMMA RowAndClockSteps ==
    ASSUME IInv, Tick \/ (\E r \in Roles : CreateUser(r)) \/ ResetPassword \/ EditByHand
    PROVE  IInv'
<1>1. now \in Nat
  BY SessionParameters DEF IInv, TypeOK, Time
<1>2. ASSUME UNCHANGED now, NEW c \in Calls, call[c].pc \in Pending
      PROVE  now' <= call[c].since + Lag
  BY <1>2 DEF IInv, RightsInv, Sound
<1>3. CASE Tick
  <2>1. now' \in Time /\ now <= now'
    BY <1>1, <1>3, SessionParameters DEF Tick, Time
  <2>2. UNCHANGED <<row, edits, storage, refreshing, call>> /\ Remember(row')
    BY <1>3 DEF Tick, dbVars, clientVars, Remember
  <2>3. \A c \in Calls : call[c].pc \in Pending => now' <= call[c].since + Lag
    BY <1>1, <1>3, SessionParameters DEF Tick, IInv, TypeOK, Call, Time
  <2>4. budget' \in 0..LoginLimit
    BY <1>3, SessionParameters DEF Tick
  <2> QED BY <2>1, <2>2, <2>3, <2>4, RowOrClockMoves DEF IInv, TypeOK
<1>4. CASE \E r \in Roles : CreateUser(r)
  <2>1. PICK r \in Roles : CreateUser(r)
    BY <1>4
  <2>2. row' \in Row
    BY <2>1, SessionParameters DEF CreateUser, Row
  <2>3. Remember(row') /\ UNCHANGED <<now, edits, budget, storage, refreshing, call>>
    BY <2>1 DEF CreateUser, clientVars
  <2> QED BY <1>1, <1>2, <2>2, <2>3, RowOrClockMoves DEF IInv, TypeOK
<1>5. ASSUME NEW r \in Row, Edit(r) PROVE IInv'
  <2>1. row' \in Row /\ edits' \in 0..MaxEdits
    BY <1>5, SessionParameters DEF Edit, IInv, TypeOK
  <2>2. Remember(row') /\ UNCHANGED <<now, budget, storage, refreshing, call>>
    BY <1>5 DEF Edit, clientVars
  <2> QED BY <1>1, <1>2, <2>1, <2>2, RowOrClockMoves DEF IInv, TypeOK
<1>6. CASE ResetPassword
  <2>1. row \in Row /\ edits \in 0..MaxEdits /\ edits < MaxEdits
    BY <1>6 DEF ResetPassword, Edit, IInv, TypeOK
  <2>2. [row EXCEPT !.password = edits + 1] \in Row
    BY <2>1, SessionParameters DEF Row
  <2> QED BY <1>5, <1>6, <2>2 DEF ResetPassword
<1>7. CASE EditByHand
  <2>1. row \in Row
    BY <1>7 DEF EditByHand, IInv, TypeOK
  <2>2. /\ [row EXCEPT !.active = ~ row.active] \in Row
        /\ \A r \in Roles : [row EXCEPT !.role = r] \in Row
    BY <2>1 DEF Row
  <2> QED BY <1>5, <1>7, <2>2 DEF EditByHand
<1> QED BY <1>3, <1>4, <1>6, <1>7

\* No call is under way and nothing is stored at the start.
LEMMA InitInv == Init => IInv
<1> SUFFICES ASSUME Init PROVE IInv
  OBVIOUS
<1>1. Idle \in Call /\ Sound(Idle) /\ Idle.pc \notin Renewal
  BY SessionParameters DEF Idle, Call, Sound, NoPair, Pair, PairBacked, Want, Pending, Renewal,
                           Time
<1>2. NoPair \in Pair /\ PairBacked(NoPair)
  BY DEF NoPair, Pair, PairBacked
<1>3. TypeOK
  BY <1>1, <1>2, SessionParameters DEF Init, TypeOK, Time
<1>4. RefreshIsOwned
  BY <1>1, SessionParameters DEF Init, RefreshIsOwned
<1>5. RightsInv
  BY <1>1, <1>2, SessionParameters DEF Init, RightsInv, RowHeld
<1> QED BY <1>3, <1>4, <1>5 DEF IInv

\* Every action keeps the invariant, and so does a step of stuttering.
LEMMA StepInv == IInv /\ [Next]_vars => IInv'
<1> SUFFICES ASSUME IInv, [Next]_vars PROVE IInv'
  OBVIOUS
<1>1. ASSUME NEW c \in Calls,
             \/ \E w \in Want, n \in 0..MaxEdits : Start(c, w, n)
             \/ \E w \in Want, tok \in {storage.access, storage.refresh} : StartOther(c, w, tok)
             \/ AuthMiddleware(c) \/ Serve(c)
             \/ LoginRead(c) \/ LoginIssue(c) \/ LoginStore(c)
             \/ RefreshRead(c) \/ RefreshIssue(c) \/ NoAnswer(c)
             \/ OnUnauthorized(c) \/ OnRenewed(c) \/ OnRefreshFailed(c)
      PROVE  IInv'
  <2>1. CASE \E w \in Want, n \in 0..MaxEdits : Start(c, w, n)
    BY <2>1, StartStep
  <2>7. CASE \E w \in Want, tok \in {storage.access, storage.refresh} : StartOther(c, w, tok)
    BY <2>7, StartOtherStep
  <2>2. CASE AuthMiddleware(c) \/ Serve(c)
    BY <2>2, AuthMiddlewareStep, ServeStep
  <2>3. CASE LoginRead(c) \/ LoginIssue(c) \/ LoginStore(c)
    BY <2>3, LoginReadStep, IssueSteps, LoginStoreStep
  <2>4. CASE RefreshRead(c) \/ RefreshIssue(c) \/ NoAnswer(c)
    BY <2>4, RefreshReadStep, IssueSteps, NoAnswerStep
  <2>5. CASE OnUnauthorized(c) \/ OnRenewed(c)
    BY <2>5, OnUnauthorizedStep, OnRenewedStep
  <2>6. CASE OnRefreshFailed(c)
    <3>1. TabOf[c] \in Tabs
      BY SessionParameters
    <3> QED BY <2>6, <3>1, LeaveStep DEF OnRefreshFailed, dbVars
  <2> QED BY <1>1, <2>1, <2>2, <2>3, <2>4, <2>5, <2>6, <2>7
<1>2. CASE Logout
  BY <1>2, LogoutStep
<1>3. CASE Tick \/ (\E r \in Roles : CreateUser(r)) \/ ResetPassword \/ EditByHand
  BY <1>3, RowAndClockSteps
<1>4. CASE UNCHANGED vars
  <2>1. UNCHANGED <<now, row, edits, budget, storage, refreshing, call, lastHeld>>
    BY <1>4 DEF vars, dbVars, clientVars
  <2> QED BY <2>1 DEF IInv, TypeOK, RefreshIsOwned, RightsInv, RowHeld, Sound, ReadBacked,
                      Admissible, PairBacked, Backed
<1> QED BY <1>1, <1>2, <1>3, <1>4 DEF Next

\* The invariant holds throughout.
LEMMA Invariance == Spec => []IInv
BY InitInv, StepInv, PTL DEF Spec

\* Every token, row and call has its type, for any number of tabs and calls.
THEOREM TypeCorrect == Spec => []TypeOK
<1>1. IInv => TypeOK
  BY DEF IInv
<1> QED BY Invariance, <1>1, PTL

\* api.ts: a tab has at most one refresh under way, and isRefreshing says whether.
THEOREM OneRefreshPerTab == Spec => []RefreshIsOwned
<1>1. IInv => RefreshIsOwned
  BY DEF IInv
<1> QED BY Invariance, <1>1, PTL

\* RefreshAccessToken and AuthMiddleware: who loses a right is not served with it
\* longer than the token that is sent lives, and in a role not longer than an access
\* token, and two handlers take.
THEOREM RightsEnd == Spec => RightsAreRecent
<1> DEFINE Right(c) ==
        LET tok == call[c].token IN
        /\ \E r \in Roles : Recent(r, Life(tok))
        /\ tok.role # None => Recent(tok.role, AccessLife)
        /\ call[c].want = "admin" => Recent("admin", AccessLife)
<1>1. ASSUME IInv, NEW c \in Calls, Serve(c) PROVE Right(c)
  <2> DEFINE tok == call[c].token
  <2>1. call[c].pc = "admitted" /\ Sound(call[c]) /\ call[c] \in Call
    BY <1>1 DEF Serve, At, IInv, RightsInv, TypeOK
  <2>2. Admissible(call[c]) /\ Backed(tok) /\ now <= call[c].since + Lag
    BY <2>1 DEF Sound, Admissible, Pending
  <2>3. PICK r \in Roles : /\ lastHeld[r] \in Time /\ tok.iat <= lastHeld[r] + Lag
                           /\ tok.role = IF tok.type = "access" THEN r ELSE None
    BY <2>2 DEF Backed
  <2>4. /\ now \in Nat /\ call[c].since \in Nat /\ tok.iat \in Nat
        /\ lastHeld[r] \in Nat /\ lastHeld[r] # None /\ Life(tok) \in Nat
    BY <1>1, <2>1, <2>2, <2>3, SessionParameters
    DEF IInv, TypeOK, Backed, Token, Call, Time, Life
  <2>5. call[c].since < tok.iat + Life(tok)
    BY <2>2 DEF Admissible
  <2>6. Recent(r, Life(tok))
    BY <2>2, <2>3, <2>4, <2>5, SessionParameters DEF Recent
  <2>7. tok.role # None => tok.role = r /\ Life(tok) = AccessLife
    BY <2>3 DEF Life
  <2>8. call[c].want = "admin" => tok.role = "admin" /\ tok.role # None
    BY <2>2, SessionParameters DEF Admissible, ValidRoles
  <2> HIDE DEF tok
  <2>9. (\E q \in Roles : Recent(q, Life(tok))) /\ (tok.role # None => Recent(tok.role, AccessLife))
    BY <2>6, <2>7
  <2> USE DEF tok
  <2> QED BY <2>8, <2>9
<1>2. IInv /\ [Next]_vars =>
        [\A c \in Calls : Serve(c) =>
            LET tok == call[c].token IN
            /\ \E r \in Roles : Recent(r, Life(tok))
            /\ tok.role # None => Recent(tok.role, AccessLife)
            /\ call[c].want = "admin" => Recent("admin", AccessLife)]_vars
  BY <1>1
<1> QED BY Invariance, <1>2, PTL DEF Spec, RightsAreRecent
=============================================================================
