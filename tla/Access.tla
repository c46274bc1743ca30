------------------------------- MODULE Access -------------------------------
(***************************************************************************)
(* Who may use the platform: app/services/auth.py, app/services/admin.py   *)
(* and app/services/platform_settings.py over the users, refresh_tokens    *)
(* and platform_settings tables, with the session check every              *)
(* authenticated endpoint makes (app/dependencies/auth.py).                *)
(*                                                                         *)
(* No row is locked when it is read.  A request reads one row, then        *)
(* another, then flushes and commits; requests meet between those steps.   *)
(* The administrator who answers the waitlist has an account of their own, *)
(* outside Accounts.                                                       *)
(***************************************************************************)
EXTENDS Naturals, FiniteSets

CONSTANTS
    Accounts,    \* e-mail addresses
    Nobody,
    Requests,    \* concurrent requests
    MaxTokens,   \* bound on the refresh tokens ever minted
    Operations   \* the operations in use

Tokens == 1..MaxTokens  \* rows of refresh_tokens, in the order of minting
NoSession == 0          \* the session id a row is created with: nobody holds it

Operation == {"login", "clerk", "register", "staff", "refresh", "logout",
              "profile", "edit", "activate", "approve", "reject", "setting"}

ASSUME AccessAssumption ==
    /\ Nobody \notin Accounts
    /\ MaxTokens \in Nat
    /\ Operations \subseteq Operation

\* A session id is the token minted with it: a sign-in draws both afresh.
Account == [exists : BOOLEAN, active : BOOLEAN, approved : BOOLEAN,
            phone : BOOLEAN, told : BOOLEAN, session : Tokens \cup {NoSession}]

\* Expiry needs no state: a token that expires is one that is not used again.
Token == [owner : Accounts \cup {Nobody}, sid : Tokens \cup {NoSession},
          revoked : BOOLEAN]

Setting == {"unset", "open", "closed"}

\* A request has read nothing, its first row, or all it needs; or it has
\* committed and is about to tell the platform of a new name on the waitlist,
\* or has told it and not yet noted so.
Phase == {"idle", "checked", "ready", "sending", "sent"}

Txn == [phase : Phase,
        op : Operation,
        user : Accounts \cup {Nobody},
        token : Tokens \cup {NoSession},  \* the refresh token presented
        row : Account,                    \* the columns of the account it uses
                                          \* again, as loaded or to be inserted
        seen : SUBSET Tokens,             \* the unrevoked tokens as loaded
        loaded : Setting,                 \* open_registration as loaded
        value : BOOLEAN]                  \* what a switch is set to

VARIABLES
    accounts,  \* users
    tokens,    \* refresh_tokens; a token without owner is not minted yet
    setting,   \* the open_registration row of platform_settings
    txn,       \* the transaction of each request
    messages,  \* waitlist messages per account: none, one, several (2)
    disturbed  \* history: accounts that two requests worked on at a time, or
               \* whose request a restart cut between message and note

accessVars == <<accounts, tokens, setting, txn, messages, disturbed>>

Absent == [exists |-> FALSE, active |-> TRUE, approved |-> TRUE,
           phone |-> FALSE, told |-> FALSE, session |-> NoSession]
Unminted == [owner |-> Nobody, sid |-> NoSession, revoked |-> FALSE]
Idle == [phase |-> "idle", op |-> "login", user |-> Nobody,
         token |-> NoSession, row |-> Absent, seen |-> {}, loaded |-> "unset",
         value |-> FALSE]

AccessInit ==
    /\ accounts = [u \in Accounts |-> Absent]
    /\ tokens = [t \in Tokens |-> Unminted]
    /\ setting = "unset"
    /\ txn = [d \in Requests |-> Idle]
    /\ messages = [u \in Accounts |-> 0]
    /\ disturbed = {}

-----------------------------------------------------------------------------
(* Reading. *)

\* revoke_all_for_user selects these.
Live(u) == {t \in Tokens : tokens[t].owner = u /\ ~tokens[t].revoked}

\* get_current_user, for the access token minted together with t.
Accepts(u, t) ==
    /\ tokens[t].owner = u
    /\ accounts[u].active
    /\ accounts[u].session = tokens[t].sid

\* is_open_registration
OpenRegistration == setting = "open"

\* _notify_waitlist_if_needed
NeedsTelling(row) == ~row.approved /\ ~row.told /\ row.phone

\* refresh takes a token that is on record and not revoked.
Redeemable(t) == tokens[t].owner # Nobody /\ ~tokens[t].revoked

IsNextToken(t) ==
    /\ tokens[t].owner = Nobody
    /\ \A s \in 1..(t - 1) : tokens[s].owner # Nobody

\* A request that mints begins only while the bound leaves it a token.
Mints(d) == txn[d].op \in {"login", "register", "refresh"}
RoomForToken ==
    Cardinality({d \in Requests : txn[d].phase \in {"checked", "ready"} /\ Mints(d)})
        < Cardinality({t \in Tokens : tokens[t].owner = Nobody})

Meets(d, u) ==
    \E e \in Requests \ {d} : txn[e].phase # "idle" /\ txn[e].user = u

Touch(d, u) ==
    disturbed' = IF Meets(d, u) THEN disturbed \cup {u} ELSE disturbed

Open(d, new) ==
    /\ txn[d].phase = "idle"
    /\ txn' = [txn EXCEPT ![d] = new]
    /\ Touch(d, new.user)
    /\ UNCHANGED <<accounts, tokens, setting, messages>>

\* login, and sync_clerk_user of a known account.
CheckSignIn(d, u) ==
    /\ {"login", "clerk"} \cap Operations # {}
    /\ accounts[u].exists /\ accounts[u].active
    /\ RoomForToken
    /\ Open(d, [Idle EXCEPT !.phase = "checked", !.op = "login", !.user = u])

\* register, and sync_clerk_user of an unknown one: the e-mail is free.  Only a
\* registration brings a phone number.
CheckSignUp(d, u) ==
    \E op \in {"register", "clerk"} \cap Operations :
        /\ ~accounts[u].exists
        /\ RoomForToken
        /\ Open(d, [Idle EXCEPT !.phase = "checked", !.op = "register",
                                !.user = u,
                                !.row = [Absent EXCEPT !.phone = op = "register"]])

\* create_staff
CheckStaff(d, u) ==
    /\ "staff" \in Operations
    /\ ~accounts[u].exists
    /\ Open(d, [Idle EXCEPT !.phase = "ready", !.op = "staff", !.user = u])

\* refresh: the token first ...
CheckToken(d, t) ==
    /\ "refresh" \in Operations
    /\ Redeemable(t)
    /\ RoomForToken
    /\ Open(d, [Idle EXCEPT !.phase = "checked", !.op = "refresh",
                            !.user = tokens[t].owner, !.token = t])

\* reject_waitlist: the person is still waiting.
CheckReject(d, u) ==
    /\ "reject" \in Operations
    /\ accounts[u].exists /\ ~accounts[u].approved
    /\ Open(d, [Idle EXCEPT !.phase = "checked", !.op = "reject", !.user = u,
                            !.row.active = accounts[u].active])

\* set_user_active, which revokes when it locks, and update_staff, which does not.
CheckSwitch(d, u) ==
    \E op \in {"activate", "edit"} \cap Operations, value \in BOOLEAN :
        /\ accounts[u].exists
        /\ Open(d, [Idle EXCEPT !.phase = IF op = "activate" /\ ~value
                                          THEN "checked" ELSE "ready",
                                !.op = op, !.user = u, !.value = value,
                                !.row.active = accounts[u].active])

CheckSetting(d) ==
    /\ "setting" \in Operations
    /\ txn[d].phase = "idle"
    /\ \E value \in BOOLEAN :
           txn' = [txn EXCEPT ![d] =
                       [Idle EXCEPT !.phase = "ready", !.op = "setting",
                                    !.loaded = setting, !.value = value]]
    /\ UNCHANGED <<accounts, tokens, setting, messages, disturbed>>

Look(d, ops, found) ==
    /\ txn[d].phase = "checked" /\ txn[d].op \in ops
    /\ txn' = [txn EXCEPT ![d] = found]
    /\ UNCHANGED <<accounts, tokens, setting, messages, disturbed>>

\* _signup_approval_status
LookSetting(d) ==
    Look(d, {"register"}, [txn[d] EXCEPT !.phase = "ready",
                                         !.row.approved = OpenRegistration])

LookTokens(d) ==
    Look(d, {"login", "reject", "activate"},
         [txn[d] EXCEPT !.phase = "ready", !.seen = Live(txn[d].user)])

\* Mutant: refresh does not look whether the account is locked.
AnyAccount(row) == row.exists

MayRefresh(row) == row.exists /\ row.active

\* refresh: ... then the account.
LookAccount(d) ==
    LET row == accounts[txn[d].user]
    IN  Look(d, {"refresh"},
             IF MayRefresh(row)
             THEN [txn[d] EXCEPT !.phase = "ready", !.row.session = row.session]
             ELSE Idle)

-----------------------------------------------------------------------------
(* Writing. *)

\* Mutant: a sign-in leaves the other devices' tokens alone.
MintedOnly(t, u, sid, revoked) ==
    [tokens EXCEPT ![t] = [Unminted EXCEPT !.owner = u, !.sid = sid]]

\* _issue_tokens, with what the transaction revokes.
Minted(t, u, sid, revoked) ==
    [x \in Tokens |->
        IF x = t THEN [Unminted EXCEPT !.owner = u, !.sid = sid]
        ELSE IF x \in revoked THEN [tokens[x] EXCEPT !.revoked = TRUE]
        ELSE tokens[x]]

Ready(d, ops) == txn[d].phase = "ready" /\ txn[d].op \in ops

Done(d) == txn' = [txn EXCEPT ![d] = Idle]

\* _start_new_session: the session id moves on, the tokens it saw are revoked.
SignIn(d) ==
    LET u == txn[d].user
    IN  /\ Ready(d, {"login"})
        /\ \E t \in Tokens :
               /\ IsNextToken(t)
               /\ tokens' = Minted(t, u, t, txn[d].seen)
               /\ accounts' = [accounts EXCEPT ![u].session = t]
        /\ Done(d)
        /\ UNCHANGED <<setting, messages, disturbed>>

\* users.email is unique.
EmailTaken(d) == accounts[txn[d].user].exists

NotifyOrDone(d, row) ==
    txn' = [txn EXCEPT ![d] =
               IF NeedsTelling(row)
               THEN [Idle EXCEPT !.phase = "sending", !.user = txn[d].user]
               ELSE Idle]

SignUp(d) ==
    LET u == txn[d].user
    IN  /\ Ready(d, {"register"})
        /\ ~EmailTaken(d)
        /\ \E t \in Tokens :
               /\ IsNextToken(t)
               /\ tokens' = Minted(t, u, t, {})
               /\ accounts' = [accounts EXCEPT ![u] =
                      [txn[d].row EXCEPT !.exists = TRUE, !.session = t]]
        /\ NotifyOrDone(d, txn[d].row)
        /\ UNCHANGED <<setting, messages, disturbed>>

CreateStaff(d) ==
    /\ Ready(d, {"staff"})
    /\ ~EmailTaken(d)
    /\ accounts' = [accounts EXCEPT ![txn[d].user].exists = TRUE]
    /\ Done(d)
    /\ UNCHANGED <<tokens, setting, messages, disturbed>>

\* The insert that came second fails, and get_session rolls back.
Duplicate(d) ==
    /\ \/ /\ Ready(d, {"register", "staff"})
          /\ EmailTaken(d)
       \/ /\ Ready(d, {"setting"})
          /\ txn[d].loaded = "unset" /\ setting # "unset"
    /\ Done(d)
    /\ UNCHANGED <<accounts, tokens, setting, messages, disturbed>>

\* refresh: the session id is the one that was loaded.
Rotate(d) ==
    /\ Ready(d, {"refresh"})
    /\ \E t \in Tokens :
           /\ IsNextToken(t)
           /\ tokens' = Minted(t, txn[d].user, txn[d].row.session, {txn[d].token})
    /\ Done(d)
    /\ UNCHANGED <<accounts, setting, messages, disturbed>>

\* Only a column that differs from the loaded row is written.
Switch(d) ==
    LET u == txn[d].user
    IN  /\ Ready(d, {"reject", "activate", "edit"})
        /\ accounts' = IF txn[d].value # txn[d].row.active
                       THEN [accounts EXCEPT ![u].active = txn[d].value]
                       ELSE accounts
        /\ tokens' = [x \in Tokens |->
                         IF x \in txn[d].seen
                         THEN [tokens[x] EXCEPT !.revoked = TRUE] ELSE tokens[x]]
        /\ Done(d)
        /\ UNCHANGED <<setting, messages, disturbed>>

\* Mutant: the switch is stored as it prints, and read back as something else.
Printed(value) == IF value THEN "True" ELSE "False"

\* set_open
Stored(value) == IF value THEN "open" ELSE "closed"

WriteSetting(d) ==
    LET new == Stored(txn[d].value)
    IN  /\ Ready(d, {"setting"})
        /\ txn[d].loaded # "unset" \/ setting = "unset"
        /\ setting' = IF txn[d].loaded # new THEN new ELSE setting
        /\ Done(d)
        /\ UNCHANGED <<accounts, tokens, messages, disturbed>>

Logout(d, t) ==
    /\ "logout" \in Operations /\ txn[d].phase = "idle"
    /\ tokens[t].owner # Nobody
    /\ tokens' = [tokens EXCEPT ![t].revoked = TRUE]
    /\ Touch(d, tokens[t].owner)
    /\ UNCHANGED <<accounts, setting, txn, messages>>

\* approve_user looks at neither the status nor the switch.
Approve(d, u) ==
    /\ "approve" \in Operations /\ txn[d].phase = "idle"
    /\ accounts[u].exists
    /\ accounts' = [accounts EXCEPT ![u].approved = TRUE]
    /\ Touch(d, u)
    /\ UNCHANGED <<tokens, setting, txn, messages>>

\* update_profile
UpdateProfile(d, u) ==
    /\ "profile" \in Operations /\ txn[d].phase = "idle"
    /\ \E t \in Tokens : Accepts(u, t)
    /\ \E phone \in {accounts[u].phone, TRUE} :
           LET row == [accounts[u] EXCEPT !.phone = phone]
           IN  /\ accounts' = [accounts EXCEPT ![u] = row]
               /\ txn' = [txn EXCEPT ![d] =
                             IF NeedsTelling(row)
                             THEN [Idle EXCEPT !.phase = "sending", !.user = u]
                             ELSE Idle]
    /\ Touch(d, u)
    /\ UNCHANGED <<tokens, setting, messages>>

\* notify_waitlist_join
Send(d) ==
    /\ txn[d].phase = "sending"
    /\ messages' = [messages EXCEPT ![txn[d].user] = IF @ = 0 THEN 1 ELSE 2]
    /\ txn' = [txn EXCEPT ![d].phase = "sent"]
    /\ UNCHANGED <<accounts, tokens, setting, disturbed>>

\* Mutant: the note is never committed.
NoteLost(u) == accounts

Noted(u) == [accounts EXCEPT ![u].told = TRUE]

Note(d) ==
    /\ txn[d].phase = "sent"
    /\ accounts' = Noted(txn[d].user)
    /\ Done(d)
    /\ UNCHANGED <<tokens, setting, messages, disturbed>>

-----------------------------------------------------------------------------
(* The process. *)

\* A restart loses the requests in flight; what was not committed is rolled back.
Restart ==
    /\ \E d \in Requests : txn[d].phase # "idle"
    /\ txn' = [d \in Requests |-> Idle]
    /\ disturbed' = disturbed \cup
           {u \in Accounts : \E d \in Requests :
                txn[d].phase = "sent" /\ txn[d].user = u}
    /\ UNCHANGED <<accounts, tokens, setting, messages>>

Arrive(d) ==
    \/ \E u \in Accounts :
           \/ CheckSignIn(d, u)
           \/ CheckSignUp(d, u)
           \/ CheckStaff(d, u)
           \/ CheckReject(d, u)
           \/ CheckSwitch(d, u)
           \/ Approve(d, u)
           \/ UpdateProfile(d, u)
    \/ \E t \in Tokens : CheckToken(d, t) \/ Logout(d, t)
    \/ CheckSetting(d)

Proceed(d) ==
    \/ LookSetting(d)
    \/ LookTokens(d)
    \/ LookAccount(d)
    \/ SignIn(d)
    \/ SignUp(d)
    \/ CreateStaff(d)
    \/ Duplicate(d)
    \/ Rotate(d)
    \/ Switch(d)
    \/ WriteSetting(d)
    \/ Send(d)
    \/ Note(d)

AccessNext ==
    \/ \E d \in Requests : Arrive(d) \/ Proceed(d)
    \/ Restart

AccessSpec == AccessInit /\ [][AccessNext]_accessVars

-----------------------------------------------------------------------------
(* Properties. *)

AccessTypeOK ==
    /\ accounts \in [Accounts -> Account]
    /\ tokens \in [Tokens -> Token]
    /\ setting \in Setting
    /\ txn \in [Requests -> Txn]
    /\ messages \in [Accounts -> 0..2]
    /\ disturbed \subseteq Accounts

\* An account holds one refresh token at most, and the token belongs to the
\* session the account is signed in with, as long as no two requests have
\* worked on the account at a time: "Revoke every other device, then mint a
\* fresh session." (_start_new_session, and the rotation in refresh).
OneDevice ==
    \A u \in Accounts \ disturbed : \A t \in Live(u) :
        /\ tokens[t].sid = accounts[u].session
        /\ \A s \in Live(u) : s = t

\* A locked account is given no token, unless a request of its own was under way
\* when it was locked (the is_active tests of login, sync_clerk_user and refresh).
LockedNeverMints ==
    [][\A t \in Tokens :
           tokens[t].owner = Nobody /\ tokens'[t].owner # Nobody
           => accounts[tokens'[t].owner].active
              \/ tokens'[t].owner \in disturbed]_accessVars

\* The platform hears once of a name on the waitlist, however often the profile
\* is saved, unless two requests of the account met or a restart came between
\* the message and its note (_notify_waitlist_if_needed).
WaitlistToldOnce ==
    \A u \in Accounts \ disturbed : messages[u] <= 1
=============================================================================
