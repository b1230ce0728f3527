------------------------------ MODULE Sessions ------------------------------
(***************************************************************************)
(* Who a request is served as: the tokens of AuthService, the middleware   *)
(* that checks them, and the client's session protocol (api.ts, auth.tsx)  *)
(* with tokens in a storage that all tabs share and a refresh when a       *)
(* request meets a 401.  Tokens are not kept by the server and carry the   *)
(* claims their user's row had when they were issued.  Clients other than  *)
(* the program's own, without its interceptors, keep a token for as long   *)
(* as they like and send it as they like.                                  *)
(*                                                                         *)
(* One user: tokens of others are independent of this one's.  Time is      *)
(* counted in ticks.  "lastHeld" is a history: when the user's row last    *)
(* was active with each role.                                              *)
(***************************************************************************)
EXTENDS Naturals

CONSTANTS Calls,        \* requests made by tabs
          Wants,        \* what each of them may ask for in an instance
          Tabs, TabOf,  \* the tab a call is made in
          Others,       \* those of them that are other clients
          Roles,        \* the roles an instance uses
          AccessLife,   \* of an access token (15 minutes)
          RefreshLife,  \* of a refresh token (7 days)
          LoginLimit,   \* logins and refreshes of an address per tick (5 a minute)
          Lag,          \* ticks a handler or a message may take
          None,         \* no token, no row, never
          MaxTime,      \* bound of the clock in an instance
          MaxEdits      \* bound of the changes of the user's row in an instance

VARIABLES now,         \* the clock of every service
          row, edits,  \* the user's row of users, and how often it was changed
          budget,      \* logins and refreshes LimitByIP still lets pass
          storage,     \* localStorage: token and refreshToken
          refreshing,  \* isRefreshing of each tab
          call, lastHeld

dbVars     == <<row, edits>>
clientVars == <<storage, refreshing>>
vars       == <<now, dbVars, budget, clientVars, call, lastHeld>>

ValidRoles == {"admin", "org_admin", "operator", "viewer"}

Want == {"read", "admin", "login"}

Time  == 0..MaxTime
Row   == [role : Roles, active : BOOLEAN, password : 0..MaxEdits]
Token == [type : {"access", "refresh"}, iat : Time, role : Roles \cup {None}]
Pair  == [access : Token \cup {None}, refresh : Token \cup {None}]

NoPair == [access |-> None, refresh |-> None]

ASSUME SessionParameters ==
    /\ TabOf \in [Calls -> Tabs] /\ Others \subseteq Tabs /\ Roles \subseteq ValidRoles
    /\ Wants \in [Calls -> SUBSET Want]
    /\ AccessLife \in Nat \ {0} /\ RefreshLife \in Nat \ {0}
    /\ LoginLimit \in Nat /\ Lag \in Nat
    /\ MaxTime \in Nat /\ MaxEdits \in Nat
    /\ None \notin ValidRoles \cup Row \cup Token \cup Time

\* "sent" and "refresh" on the way to a service, "issue" and "reissue" between
\* reading the row and signing, "issued", "renewed", "failed" and "unauthorized"
\* on the way back, "admitted" past the middleware; "kept" with a client that has a
\* token and may send it at any time.
Renewal == {"refresh", "reissue", "renewed", "failed"}
Pending == Renewal \cup {"sent", "issue", "issued", "unauthorized", "admitted"}

\* "secret" is the number of a password.
Call == [pc : Pending \cup {"idle", "kept", "over"},
         want : Want, token : Token \cup {None},
         secret : 0..MaxEdits, row : Row \cup {None}, pair : Pair, since : Time]

TypeOK ==
    /\ now \in Time
    /\ row \in Row \cup {None} /\ edits \in 0..MaxEdits
    /\ budget \in 0..LoginLimit
    /\ storage \in Pair
    /\ refreshing \in [Tabs -> BOOLEAN]
    /\ call \in [Calls -> Call]
    /\ lastHeld \in [Roles -> Time \cup {None}]

Idle == [pc |-> "idle", want |-> "read", token |-> None, secret |-> 0,
         row |-> None, pair |-> NoPair, since |-> 0]

Over == [Idle EXCEPT !.pc = "over"]

Init ==
    /\ now = 0
    /\ row = None /\ edits = 0
    /\ budget = LoginLimit
    /\ storage = NoPair
    /\ refreshing = [t \in Tabs |-> FALSE]
    /\ call = [c \in Calls |-> Idle]
    /\ lastHeld = [r \in Roles |-> None]

At(c, s) == call[c].pc = s

\* The user's row was found to be r: what proved the request is not looked at again.
\* "since" says when the call came to s, for the bound of a leg.
Identify(c, s, r) ==
    call' = [call EXCEPT ![c] = [@ EXCEPT !.pc = s, !.since = now, !.row = r,
                                          !.token = None, !.secret = 0]]

\* An error on the way back: what the request carried is not looked at again.
Return(c, s) ==
    call' = [call EXCEPT ![c] = [@ EXCEPT !.pc = s, !.since = now, !.token = None,
                                          !.secret = 0, !.row = None, !.pair = NoPair]]

\* The caller has its result or its error.
Settle(c) == call' = [call EXCEPT ![c] = Over]

\* exp, counted from iat.
Life(tok) == IF tok.type = "access" THEN AccessLife ELSE RefreshLife

\* ValidateToken: signed by us, and not expired.  Of which type is not asked.
Valid(tok) == tok # None /\ now < tok.iat + Life(tok)

\* generateToken and generateRefreshToken, from the row that was read.  Only the
\* first tells the role, and the organization, which nothing changes.
Signed(r) ==
    [access  |-> [type |-> "access", iat |-> now, role |-> r.role],
     refresh |-> [type |-> "refresh", iat |-> now, role |-> None]]

-----------------------------------------------------------------------------
(* Requests and the middleware.                                            *)

\* The request interceptor takes the token from the storage at this moment.
Start(c, w, n) ==
    /\ At(c, "idle") /\ w \in Wants[c] /\ TabOf[c] \notin Others
    /\ n \in IF w = "login" THEN 0..edits ELSE {0}
    /\ call' = [call EXCEPT ![c] =
          [@ EXCEPT !.pc = "sent", !.want = w, !.secret = n, !.since = now,
                    !.token = IF w \in {"read", "admin"} THEN storage.access ELSE None]]
    /\ UNCHANGED <<now, dbVars, budget, clientVars, lastHeld>>

\* A client of another make sends a copy of either token, at once or much later.
StartOther(c, w, tok) ==
    /\ At(c, "idle") /\ w \in Wants[c] \ {"login"} /\ TabOf[c] \in Others
    /\ tok \in {storage.access, storage.refresh} \ {None}
    /\ call' = [call EXCEPT ![c] = [@ EXCEPT !.pc = "kept", !.want = w, !.token = tok]]
    /\ UNCHANGED <<now, dbVars, budget, clientVars, lastHeld>>

\* AdminOnly's 403.  A refresh token has no role.
Forbidden(c) == call[c].want = "admin" /\ call[c].token.role # "admin"

\* AuthMiddleware takes every valid token, a refresh token too.
AuthMiddleware(c) ==
    /\ At(c, "sent") \/ At(c, "kept")
    /\ call[c].want \in {"read", "admin"}
    /\ LET tok == call[c].token IN
         \/ ~ Valid(tok) /\ Return(c, "unauthorized")
         \/ Valid(tok) /\ Forbidden(c) /\ Settle(c)
         \/ Valid(tok) /\ ~ Forbidden(c) /\ call' = [call EXCEPT ![c] = [@ EXCEPT !.pc = "admitted", !.since = now]]
    /\ UNCHANGED <<now, dbVars, budget, clientVars, lastHeld>>

Serve(c) ==
    /\ At(c, "admitted")
    /\ Settle(c)
    /\ UNCHANGED <<now, dbVars, budget, clientVars, lastHeld>>

-----------------------------------------------------------------------------
(* Login and refresh.  LimitByIP counts both; its 429 is no 401.           *)

\* The row is read, then the password compared, then the tokens signed.
LoginRead(c) ==
    /\ At(c, "sent") /\ call[c].want = "login" /\ budget > 0
    /\ budget' = budget - 1
    /\ IF row # None /\ row.active /\ row.password = call[c].secret
       THEN Identify(c, "issue", row)
       ELSE Return(c, "unauthorized")
    /\ UNCHANGED <<now, dbVars, clientVars, lastHeld>>

Sign(c, s) ==
    /\ call' = [call EXCEPT ![c] =
          [@ EXCEPT !.pc = s, !.row = None, !.pair = Signed(call[c].row), !.since = now]]
    /\ UNCHANGED <<now, dbVars, budget, clientVars, lastHeld>>

LoginIssue(c) == At(c, "issue") /\ Sign(c, "issued")

LoginStore(c) ==
    /\ At(c, "issued")
    /\ storage' = call[c].pair
    /\ Settle(c)
    /\ UNCHANGED <<now, dbVars, budget, refreshing, lastHeld>>

\* Mutant of RefreshRead: only logins are limited.
RefreshRead_Unlimited(c) ==
    /\ At(c, "refresh")
    /\ budget' = budget - 1
    /\ IF Valid(call[c].token) /\ call[c].token.type = "refresh" /\ row # None /\ row.active
       THEN Identify(c, "reissue", row)
       ELSE Return(c, "failed")
    /\ UNCHANGED <<now, dbVars, clientVars, lastHeld>>

\* Mutant of RefreshRead: the user's row is not read again.
RefreshRead_OldClaims(c) ==
    /\ At(c, "refresh") /\ budget > 0
    /\ budget' = budget - 1
    /\ IF Valid(call[c].token) /\ call[c].token.type = "refresh" /\ storage.access # None
       THEN Identify(c, "reissue",
                  [role |-> storage.access.role, active |-> TRUE, password |-> 0])
       ELSE Return(c, "failed")
    /\ UNCHANGED <<now, dbVars, clientVars, lastHeld>>

\* RefreshAccessToken: the row as it is now decides, and gives the new claims.
RefreshRead(c) ==
    /\ At(c, "refresh") /\ budget > 0
    /\ budget' = budget - 1
    /\ IF Valid(call[c].token) /\ call[c].token.type = "refresh" /\ row # None /\ row.active
       THEN Identify(c, "reissue", row)
       ELSE Return(c, "failed")
    /\ UNCHANGED <<now, dbVars, clientVars, lastHeld>>

RefreshIssue(c) == At(c, "reissue") /\ Sign(c, "renewed")

\* A 429, a 502 of the gateway or no answer at all.
NoAnswer(c) ==
    /\ call[c].pc \in {"sent", "issue", "issued", "refresh", "reissue", "renewed"}
    /\ IF call[c].pc \in Renewal THEN Return(c, "failed") ELSE Settle(c)
    /\ UNCHANGED <<now, dbVars, budget, clientVars, lastHeld>>

-----------------------------------------------------------------------------
(* The client: the response interceptor.                                   *)

\* The page is left for /login, and its requests with it.
Leave(t) ==
    /\ storage' = NoPair
    /\ refreshing' = [refreshing EXCEPT ![t] = FALSE]
    /\ call' = [c \in Calls |->
          IF TabOf[c] = t /\ call[c].pc \in Pending
          THEN Over ELSE call[c]]

\* Mutant of OnUnauthorized: every 401 starts a refresh of its own.
OnUnauthorized_Each(c) ==
    /\ At(c, "unauthorized")
    /\ LET t == TabOf[c] IN
         \/ /\ storage.refresh # None
            /\ refreshing' = [refreshing EXCEPT ![t] = TRUE]
            /\ call' = [call EXCEPT ![c] = [@ EXCEPT !.pc = "refresh", !.since = now,
                                                     !.token = storage.refresh]]
            /\ UNCHANGED storage
         \/ storage.refresh = None /\ Leave(t)
    /\ UNCHANGED <<now, dbVars, budget, lastHeld>>

\* A 401 while the tab is refreshing is the caller's, and so is every 401 of another
\* client; the first one refreshes, if there is something to refresh with.
OnUnauthorized(c) ==
    /\ At(c, "unauthorized")
    /\ LET t == TabOf[c] IN
         \/ (refreshing[t] \/ t \in Others) /\ Settle(c) /\ UNCHANGED clientVars
         \/ /\ ~ refreshing[t] /\ t \notin Others /\ storage.refresh # None
            /\ refreshing' = [refreshing EXCEPT ![t] = TRUE]
            /\ call' = [call EXCEPT ![c] = [@ EXCEPT !.pc = "refresh", !.since = now,
                                                     !.token = storage.refresh]]
            /\ UNCHANGED storage
         \/ ~ refreshing[t] /\ t \notin Others /\ storage.refresh = None /\ Leave(t)
    /\ UNCHANGED <<now, dbVars, budget, lastHeld>>

\* The new pair is stored for every tab and the request sent again with it.
OnRenewed(c) ==
    /\ At(c, "renewed")
    /\ storage' = call[c].pair
    /\ refreshing' = [refreshing EXCEPT ![TabOf[c]] = FALSE]
    /\ call' = [call EXCEPT ![c] = [@ EXCEPT !.pc = "sent", !.token = call[c].pair.access,
                                             !.pair = NoPair, !.since = now]]
    /\ UNCHANGED <<now, dbVars, budget, lastHeld>>

OnRefreshFailed(c) ==
    /\ At(c, "failed")
    /\ Leave(TabOf[c])
    /\ UNCHANGED <<now, dbVars, budget, lastHeld>>

\* auth.tsx: no page is left, so a refresh that is under way goes on.
Logout ==
    /\ storage # NoPair
    /\ storage' = NoPair
    /\ UNCHANGED <<now, dbVars, budget, refreshing, call, lastHeld>>

-----------------------------------------------------------------------------
(* Administrators' requests, the operator's SQL, and the clock.            *)

Remember(r) ==
    lastHeld' = [x \in Roles |->
        IF r # None /\ r.active /\ r.role = x THEN now' ELSE lastHeld[x]]

\* PostgreSQL's driver has no LastInsertId: the administrator is answered 400 there,
\* with the row in the table.
CreateUser(r) ==
    /\ row = None
    /\ row' = [role |-> r, active |-> TRUE, password |-> 0]
    /\ UNCHANGED <<now, edits, budget, clientVars, call>>
    /\ Remember(row')

Edit(r) ==
    /\ row # None /\ edits < MaxEdits
    /\ row' = r /\ edits' = edits + 1
    /\ UNCHANGED <<now, budget, clientVars, call>>
    /\ Remember(row')

\* Tokens that were issued before stay as they are.
ResetPassword == row # None /\ Edit([row EXCEPT !.password = edits + 1])

\* Not by this program: nothing in it changes a role or the active flag.
EditByHand ==
    /\ row # None
    /\ \/ Edit([row EXCEPT !.active = ~ @])
       \/ \E r \in Roles \ {row.role} : Edit([row EXCEPT !.role = r])

\* No message and no handler takes longer than Lag.
Tick ==
    /\ now < MaxTime
    /\ \A c \in Calls : call[c].pc \in Pending => now < call[c].since + Lag
    /\ now' = now + 1
    /\ budget' = LoginLimit
    /\ Remember(row)
    /\ UNCHANGED <<dbVars, clientVars, call>>

Next ==
    \/ \E c \in Calls :
          \/ \E w \in Want, n \in 0..MaxEdits : Start(c, w, n)
          \/ \E w \in Want, tok \in {storage.access, storage.refresh} : StartOther(c, w, tok)
          \/ AuthMiddleware(c) \/ Serve(c)
          \/ LoginRead(c) \/ LoginIssue(c) \/ LoginStore(c)
          \/ RefreshRead(c) \/ RefreshIssue(c) \/ NoAnswer(c)
          \/ OnUnauthorized(c) \/ OnRenewed(c) \/ OnRefreshFailed(c)
    \/ Logout
    \/ \E r \in Roles : CreateUser(r)
    \/ ResetPassword \/ EditByHand
    \/ Tick

Spec == Init /\ [][Next]_vars

-----------------------------------------------------------------------------
(* Properties.                                                             *)

\* The row gave the right of r at most so long ago, and the time two handlers take.
Recent(r, life) == lastHeld[r] # None /\ now < lastHeld[r] + life + 2 * Lag

\* Rights go away: whichever token is sent and whatever was refreshed in between, a
\* request is served at all only if the user was active within that token's life, in
\* a role only if the row gave that role within the life of an access token, and by
\* the administrators' handlers only if that role was admin.
RightsAreRecent ==
    [][\A c \in Calls : Serve(c) =>
        LET tok == call[c].token IN
        /\ \E r \in Roles : Recent(r, Life(tok))
        /\ tok.role # None => Recent(tok.role, AccessLife)
        /\ call[c].want = "admin" => Recent("admin", AccessLife)]_vars

\* isRefreshing is held by exactly the request that refreshes, so that a tab never
\* has two refreshes under way and never stops refreshing for good.
RefreshIsOwned ==
    \A t \in Tabs :
        LET renewing == {c \in Calls : TabOf[c] = t /\ call[c].pc \in Renewal}
        IN  /\ refreshing[t] <=> renewing # {}
            /\ \A c, d \in renewing : c = d
=============================================================================
