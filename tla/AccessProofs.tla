---------------------------- MODULE AccessProofs ----------------------------
(***************************************************************************)
(* Theorems about Access, for any accounts, requests and operations.       *)
(***************************************************************************)
EXTENDS Access, TLAPS

\* An account that is not disturbed has one request at work at most.
Alone ==
    \A u \in Accounts \ disturbed : \A d, e \in Requests :
        /\ txn[d].phase # "idle" /\ txn[d].user = u
        /\ txn[e].phase # "idle" /\ txn[e].user = u
        => d = e

\* Only accounts that exist hold tokens.
TokensOwned ==
    \A t \in Tokens : tokens[t].owner \in Accounts => accounts[tokens[t].owner].exists

\* What a request read of its account still holds when it writes.
ReadHolds(d) ==
    /\ txn[d].op = "login" /\ txn[d].phase = "ready" => txn[d].seen = Live(txn[d].user)
    /\ txn[d].op = "refresh" => txn[d].token \in Live(txn[d].user)
    /\ txn[d].op = "refresh" /\ txn[d].phase = "ready"
       => txn[d].row.session = accounts[txn[d].user].session

AtWork(d) == txn[d].phase \in {"checked", "ready"}

WorkIsSound ==
    \A d \in Requests :
        /\ txn[d].phase # "idle" /\ txn[d].op # "setting" => txn[d].user \in Accounts
        /\ txn[d].phase \in {"sending", "sent"} => txn[d].op # "setting"
        /\ AtWork(d) /\ txn[d].op \in {"login", "refresh"} => accounts[txn[d].user].exists
        /\ AtWork(d) /\ txn[d].user \in Accounts \ disturbed => ReadHolds(d)

\* A request only revokes tokens of its own account.
SeesItsOwn ==
    \A d \in Requests : AtWork(d) =>
        /\ \A t \in txn[d].seen :
               tokens[t].owner = txn[d].user /\ txn[d].user \in Accounts
        /\ txn[d].op = "refresh" =>
               /\ txn[d].token \in Tokens /\ txn[d].user \in Accounts
               /\ tokens[txn[d].token].owner = txn[d].user

AccessInv ==
    AccessTypeOK /\ Alone /\ TokensOwned /\ WorkIsSound /\ SeesItsOwn /\ OneDevice

-----------------------------------------------------------------------------
LEMMA IdleType ==
  /\ Idle \in Txn /\ Idle.phase = "idle" /\ Idle.seen = {}
  /\ Absent \in Account /\ Unminted \in Token
  BY DEF Idle, Txn, Phase, Operation, Absent, Account, Setting, Unminted, Token

LEMMA AccessInitially == AccessInit => AccessInv
  <1> SUFFICES ASSUME AccessInit PROVE AccessInv
    OBVIOUS
  <1>1. AccessTypeOK
    BY IdleType DEF AccessInit, AccessTypeOK, Setting
  <1>2. \A d \in Requests : txn[d].phase = "idle"
    BY DEF AccessInit, Idle
  <1>3. \A t \in Tokens : tokens[t].owner = Nobody
    BY DEF AccessInit, Unminted
  <1>4. Alone /\ WorkIsSound /\ SeesItsOwn
    BY <1>2 DEF Alone, WorkIsSound, SeesItsOwn, AtWork
  <1>5. TokensOwned /\ OneDevice
    BY <1>3, AccessAssumption DEF TokensOwned, OneDevice, Live
  <1> QED
    BY <1>1, <1>4, <1>5 DEF AccessInv

\* A request that begins.
LEMMA OpenKeeps ==
  ASSUME AccessInv, NEW d \in Requests, NEW new \in Txn, Open(d, new),
         new.user \in Accounts, new.phase \in {"checked", "ready"},
         new.op # "setting", new.seen = {},
         new.op \in {"login", "refresh"} =>
             new.phase = "checked" /\ accounts[new.user].exists,
         new.op = "refresh" => new.token \in Live(new.user)
  PROVE  AccessInv'
  <1> USE DEF AccessInv
  <1>1. /\ txn' = [txn EXCEPT ![d] = new]
        /\ accounts' = accounts /\ tokens' = tokens
        /\ setting' = setting /\ messages' = messages
        /\ disturbed' = IF Meets(d, new.user) THEN disturbed \cup {new.user} ELSE disturbed
    BY DEF Open, Touch
  <1>2. AccessTypeOK'
    BY <1>1 DEF AccessTypeOK
  <1>3. /\ txn'[d] = new /\ \A e \in Requests \ {d} : txn'[e] = txn[e]
        /\ disturbed \subseteq disturbed'
        /\ \A u \in Accounts : Live(u)' = Live(u)
    BY <1>1 DEF AccessTypeOK, Live
  <1>4. Alone'
    BY <1>1, <1>3 DEF Alone, Meets
  <1>5. TokensOwned' /\ OneDevice'
    BY <1>1, <1>3 DEF TokensOwned, OneDevice
  <1>6. WorkIsSound'
    <2> SUFFICES ASSUME NEW e \in Requests
                 PROVE  /\ txn'[e].phase # "idle" /\ txn'[e].op # "setting"
                           => txn'[e].user \in Accounts
                        /\ txn'[e].phase \in {"sending", "sent"} => txn'[e].op # "setting"
                        /\ AtWork(e)' /\ txn'[e].op \in {"login", "refresh"}
                           => accounts'[txn'[e].user].exists
                        /\ AtWork(e)' /\ txn'[e].user \in Accounts \ disturbed'
                           => ReadHolds(e)'
      BY DEF WorkIsSound
    <2>1. CASE e = d
      BY <2>1, <1>1, <1>3 DEF ReadHolds, AtWork
    <2>2. CASE e # d
      BY <2>2, <1>1, <1>3 DEF WorkIsSound, ReadHolds, AtWork
    <2> QED
      BY <2>1, <2>2
  <1>7. SeesItsOwn'
    BY <1>1, <1>3 DEF SeesItsOwn, AtWork, Live
  <1> QED
    BY <1>2, <1>4, <1>5, <1>6, <1>7

\* A step that ends the work of d on u, or does all of it at once: whatever it
\* does to u, other accounts keep their session and their tokens.
LEMMA SettleKeeps ==
  ASSUME AccessInv, NEW d \in Requests, NEW u \in Accounts,
         AccessTypeOK', TokensOwned',
         \A e \in Requests \ {d} : txn'[e] = txn[e],
         txn'[d].phase \in {"idle", "sending", "sent"},
         txn'[d].phase # "idle" => txn'[d].user = u /\ txn'[d].op # "setting",
         disturbed \subseteq disturbed',
         \A e \in Requests \ {d} :
             txn[e].phase # "idle" /\ txn[e].user = u => u \in disturbed',
         \A v \in Accounts : accounts[v].exists => accounts'[v].exists,
         \A t \in Tokens : tokens[t].owner \in Accounts
                         => tokens'[t].owner = tokens[t].owner,
         \A v \in Accounts \ {u} : /\ accounts'[v].session = accounts[v].session
                                   /\ Live(v)' = Live(v)
                                   /\ \A t \in Live(v) : tokens'[t] = tokens[t],
         u \notin disturbed' => \A t \in Live(u)' :
             /\ tokens'[t].sid = accounts'[u].session
             /\ \A s \in Live(u)' : s = t
  PROVE  AccessInv'
  <1> USE DEF AccessInv
  <1>1. Alone'
    BY DEF Alone
  <1>2. WorkIsSound'
    <2> SUFFICES ASSUME NEW e \in Requests
                 PROVE  /\ txn'[e].phase # "idle" /\ txn'[e].op # "setting"
                           => txn'[e].user \in Accounts
                        /\ txn'[e].phase \in {"sending", "sent"} => txn'[e].op # "setting"
                        /\ AtWork(e)' /\ txn'[e].op \in {"login", "refresh"}
                           => accounts'[txn'[e].user].exists
                        /\ AtWork(e)' /\ txn'[e].user \in Accounts \ disturbed'
                           => ReadHolds(e)'
      BY DEF WorkIsSound
    <2>1. CASE e = d
      BY <2>1 DEF AtWork
    <2>2. CASE e # d
      BY <2>2 DEF WorkIsSound, ReadHolds, AtWork
    <2> QED
      BY <2>1, <2>2
  <1>3. OneDevice'
    BY DEF OneDevice
  <1>4. SeesItsOwn'
    <2> SUFFICES ASSUME NEW e \in Requests, AtWork(e)'
                 PROVE  /\ \A t \in txn'[e].seen : /\ tokens'[t].owner = txn'[e].user
                                                   /\ txn'[e].user \in Accounts
                        /\ txn'[e].op = "refresh" =>
                              /\ txn'[e].token \in Tokens /\ txn'[e].user \in Accounts
                              /\ tokens'[txn'[e].token].owner = txn'[e].user
      BY DEF SeesItsOwn
    <2>1. e # d /\ txn'[e] = txn[e] /\ AtWork(e)
      BY DEF AtWork
    <2>2. txn[e].seen \subseteq Tokens
      BY DEF AccessTypeOK, Txn
    <2> QED
      BY <2>1, <2>2 DEF SeesItsOwn
  <1> QED
    BY <1>1, <1>2, <1>3, <1>4

\* A step of d that leaves accounts and tokens alone and only moves on in, or
\* leaves, its own transaction.
LEMMA MoveKeeps ==
  ASSUME AccessInv, NEW d \in Requests,
         AccessTypeOK', accounts' = accounts, tokens' = tokens,
         disturbed \subseteq disturbed',
         \A e \in Requests \ {d} : txn'[e] = txn[e],
         \/ txn'[d].phase = "idle"
         \/ /\ txn[d].phase # "idle"
            /\ txn'[d].phase \in {"sending", "sent"}
            /\ txn'[d].op = txn[d].op /\ txn'[d].user = txn[d].user
            /\ txn[d].op # "setting"
         \/ /\ txn'[d].phase = "ready" /\ txn'[d].op = "setting"
            /\ txn'[d].user = Nobody /\ txn'[d].seen = {}
         \/ /\ txn[d].phase = "checked" /\ txn'[d].phase = "ready"
            /\ txn'[d].op = txn[d].op /\ txn'[d].user = txn[d].user
            /\ txn'[d].token = txn[d].token /\ txn[d].op # "setting"
            /\ txn'[d].seen \in {txn[d].seen, Live(txn[d].user)}
            /\ txn[d].op = "login" => txn'[d].seen = Live(txn[d].user)
            /\ txn[d].op = "refresh" =>
                   txn'[d].row.session = accounts[txn[d].user].session
  PROVE  AccessInv'
  <1> USE DEF AccessInv
  <1>1. \A u \in Accounts : Live(u)' = Live(u)
    BY DEF Live
  <1>2. Alone'
    BY AccessAssumption DEF Alone
  <1>3. TokensOwned' /\ OneDevice'
    BY <1>1 DEF TokensOwned, OneDevice
  <1>4. WorkIsSound'
    <2> SUFFICES ASSUME NEW e \in Requests
                 PROVE  /\ txn'[e].phase # "idle" /\ txn'[e].op # "setting"
                           => txn'[e].user \in Accounts
                        /\ txn'[e].phase \in {"sending", "sent"} => txn'[e].op # "setting"
                        /\ AtWork(e)' /\ txn'[e].op \in {"login", "refresh"}
                           => accounts'[txn'[e].user].exists
                        /\ AtWork(e)' /\ txn'[e].user \in Accounts \ disturbed'
                           => ReadHolds(e)'
      BY DEF WorkIsSound
    <2>1. CASE e = d
      BY <2>1, <1>1, AccessAssumption DEF WorkIsSound, ReadHolds, AtWork
    <2>2. CASE e # d
      BY <2>2, <1>1 DEF WorkIsSound, ReadHolds, AtWork
    <2> QED
      BY <2>1, <2>2
  <1>5. SeesItsOwn'
    BY <1>1 DEF WorkIsSound, SeesItsOwn, AtWork, Live
  <1> QED
    BY <1>2, <1>3, <1>4, <1>5

-----------------------------------------------------------------------------
(* The actions that begin a request. *)

LEMMA CheckAccountKeeps ==
  ASSUME AccessInv, NEW d \in Requests, NEW u \in Accounts,
         CheckSignIn(d, u) \/ CheckSignUp(d, u) \/ CheckStaff(d, u)
  PROVE  AccessInv'
  <1>1. CASE CheckSignIn(d, u)
    <2> DEFINE new == [Idle EXCEPT !.phase = "checked", !.op = "login", !.user = u]
    <2>1. new \in Txn /\ new.seen = {} /\ new.user = u /\ new.phase = "checked" /\ new.op = "login"
      BY IdleType DEF Txn, Phase, Operation
    <2>2. Open(d, new) /\ accounts[u].exists
      BY <1>1 DEF CheckSignIn
    <2> HIDE DEF new
    <2> QED
      BY <2>1, <2>2, OpenKeeps
  <1>2. CASE CheckSignUp(d, u)
    <2>1. PICK op \in {"register", "clerk"} :
             Open(d, [Idle EXCEPT !.phase = "checked", !.op = "register", !.user = u,
                                  !.row = [Absent EXCEPT !.phone = op = "register"]])
      BY <1>2 DEF CheckSignUp
    <2> DEFINE row == [Absent EXCEPT !.phone = op = "register"]
               new == [Idle EXCEPT !.phase = "checked", !.op = "register",
                                   !.user = u, !.row = row]
    <2>2. row \in Account
      BY IdleType DEF Account
    <2> HIDE DEF row
    <2>3. new \in Txn /\ new.seen = {} /\ new.user = u /\ new.phase = "checked" /\ new.op = "register"
      BY <2>2, IdleType DEF Txn, Phase, Operation
    <2>4. Open(d, new)
      BY <2>1 DEF row
    <2> HIDE DEF new
    <2> QED
      BY <2>3, <2>4, OpenKeeps
  <1>3. CASE CheckStaff(d, u)
    <2> DEFINE new == [Idle EXCEPT !.phase = "ready", !.op = "staff", !.user = u]
    <2>1. new \in Txn /\ new.seen = {} /\ new.user = u /\ new.phase = "ready" /\ new.op = "staff"
      BY IdleType DEF Txn, Phase, Operation
    <2>2. Open(d, new)
      BY <1>3 DEF CheckStaff
    <2> HIDE DEF new
    <2> QED
      BY <2>1, <2>2, OpenKeeps
  <1> QED
    BY <1>1, <1>2, <1>3

LEMMA CheckTokenKeeps ==
  ASSUME AccessInv, NEW d \in Requests, NEW t \in Tokens, CheckToken(d, t)
  PROVE  AccessInv'
  <1> DEFINE u == tokens[t].owner
             new == [Idle EXCEPT !.phase = "checked", !.op = "refresh",
                                 !.user = u, !.token = t]
  <1>1. u \in Accounts /\ t \in Live(u)
    BY DEF CheckToken, Redeemable, AccessInv, AccessTypeOK, Token, Live
  <1>2. accounts[u].exists
    BY <1>1 DEF AccessInv, TokensOwned
  <1>3. Open(d, new)
    BY DEF CheckToken
  <1> HIDE DEF u
  <1>4. new \in Txn /\ new.seen = {} /\ new.user = u /\ new.phase = "checked" /\ new.op = "refresh"
        /\ new.token = t
    BY <1>1, IdleType DEF Txn, Phase, Operation
  <1> HIDE DEF new
  <1> QED
    BY <1>1, <1>2, <1>3, <1>4, OpenKeeps

LEMMA CheckSwitchKeeps ==
  ASSUME AccessInv, NEW d \in Requests, NEW u \in Accounts,
         CheckReject(d, u) \/ CheckSwitch(d, u)
  PROVE  AccessInv'
  <1>0. accounts[u].active \in BOOLEAN
    BY DEF AccessInv, AccessTypeOK, Account
  <1>1. CASE CheckReject(d, u)
    <2> DEFINE new == [Idle EXCEPT !.phase = "checked", !.op = "reject", !.user = u,
                                   !.row.active = accounts[u].active]
    <2>1. new \in Txn /\ new.seen = {} /\ new.user = u /\ new.phase = "checked" /\ new.op = "reject"
      BY <1>0, IdleType DEF Txn, Phase, Operation, Account
    <2>2. Open(d, new)
      BY <1>1 DEF CheckReject
    <2> HIDE DEF new
    <2> QED
      BY <2>1, <2>2, OpenKeeps
  <1>2. CASE CheckSwitch(d, u)
    <2>1. PICK op \in {"activate", "edit"}, value \in BOOLEAN :
             Open(d, [Idle EXCEPT !.phase = IF op = "activate" /\ ~value
                                            THEN "checked" ELSE "ready",
                                  !.op = op, !.user = u, !.value = value,
                                  !.row.active = accounts[u].active])
      BY <1>2 DEF CheckSwitch
    <2> DEFINE phase == IF op = "activate" /\ ~value THEN "checked" ELSE "ready"
               new == [Idle EXCEPT !.phase = phase, !.op = op, !.user = u,
                                   !.value = value, !.row.active = accounts[u].active]
    <2>2. phase \in {"checked", "ready"}
      OBVIOUS
    <2>3. Open(d, new)
      BY <2>1
    <2> HIDE DEF phase
    <2>4. new \in Txn /\ new.seen = {} /\ new.user = u /\ new.phase = phase /\ new.op = op
      BY <1>0, <2>2, IdleType DEF Txn, Phase, Operation, Account
    <2> HIDE DEF new
    <2> QED
      BY <2>2, <2>3, <2>4, OpenKeeps
  <1> QED
    BY <1>1, <1>2

-----------------------------------------------------------------------------
(* The actions that leave accounts and tokens alone. *)

LEMMA CheckSettingKeeps ==
  ASSUME AccessInv, NEW d \in Requests, CheckSetting(d)
  PROVE  AccessInv'
  <1>1. PICK value \in BOOLEAN :
          txn' = [txn EXCEPT ![d] =
                      [Idle EXCEPT !.phase = "ready", !.op = "setting",
                                   !.loaded = setting, !.value = value]]
    BY DEF CheckSetting
  <1> DEFINE new == [Idle EXCEPT !.phase = "ready", !.op = "setting",
                                 !.loaded = setting, !.value = value]
  <1>2. /\ new \in Txn /\ new.phase = "ready" /\ new.op = "setting"
        /\ new.user = Nobody /\ new.seen = {}
    BY IdleType DEF Txn, Phase, Operation, AccessInv, AccessTypeOK, Idle
  <1>3. txn' = [txn EXCEPT ![d] = new]
    BY <1>1
  <1> HIDE DEF new
  <1>4. AccessTypeOK' /\ txn'[d] = new /\ \A e \in Requests \ {d} : txn'[e] = txn[e]
    BY <1>2, <1>3 DEF CheckSetting, AccessInv, AccessTypeOK
  <1> QED
    BY <1>2, <1>4, MoveKeeps DEF CheckSetting

LEMMA LookKeeps ==
  ASSUME AccessInv, NEW d \in Requests,
         LookSetting(d) \/ LookTokens(d) \/ LookAccount(d)
  PROVE  AccessInv'
  <1> USE DEF Look
  <1>0. txn[d] \in Txn /\ txn[d].phase = "checked"
    BY DEF AccessInv, AccessTypeOK, LookSetting, LookTokens, LookAccount
  <1>1. CASE LookSetting(d)
    <2> DEFINE new == [txn[d] EXCEPT !.phase = "ready", !.row.approved = OpenRegistration]
    <2>1. /\ new \in Txn /\ new.phase = "ready" /\ new.op = txn[d].op
          /\ new.user = txn[d].user /\ new.token = txn[d].token
          /\ new.seen = txn[d].seen
      BY <1>0 DEF Txn, Phase, Account, OpenRegistration
    <2>2. txn' = [txn EXCEPT ![d] = new] /\ txn[d].op = "register"
      BY <1>1 DEF LookSetting
    <2> HIDE DEF new
    <2>3. AccessTypeOK' /\ txn'[d] = new /\ \A e \in Requests \ {d} : txn'[e] = txn[e]
      BY <1>1, <2>1, <2>2 DEF LookSetting, AccessInv, AccessTypeOK
    <2> QED
      BY <1>0, <1>1, <2>1, <2>2, <2>3, MoveKeeps DEF LookSetting
  <1>2. CASE LookTokens(d)
    <2> DEFINE new == [txn[d] EXCEPT !.phase = "ready", !.seen = Live(txn[d].user)]
    <2>1. /\ new \in Txn /\ new.phase = "ready" /\ new.op = txn[d].op
          /\ new.user = txn[d].user /\ new.token = txn[d].token
          /\ new.seen = Live(txn[d].user)
      BY <1>0 DEF Txn, Phase, Live
    <2>2. txn' = [txn EXCEPT ![d] = new] /\ txn[d].op \notin {"refresh", "setting"}
      BY <1>2 DEF LookTokens
    <2> HIDE DEF new
    <2>3. AccessTypeOK' /\ txn'[d] = new /\ \A e \in Requests \ {d} : txn'[e] = txn[e]
      BY <1>2, <2>1, <2>2 DEF LookTokens, AccessInv, AccessTypeOK
    <2> QED
      BY <1>0, <1>2, <2>1, <2>2, <2>3, MoveKeeps DEF LookTokens
  <1>3. CASE LookAccount(d)
    <2> DEFINE session == accounts[txn[d].user].session
               new == [txn[d] EXCEPT !.phase = "ready", !.row.session = session]
    <2>1. txn[d].op = "refresh" /\ txn[d].user \in Accounts
      BY <1>0, <1>3 DEF LookAccount, AccessInv, WorkIsSound
    <2>2. session \in Tokens \cup {NoSession}
      BY <2>1 DEF AccessInv, AccessTypeOK, Account
    <2>3. txn' = [txn EXCEPT ![d] = new] \/ txn' = [txn EXCEPT ![d] = Idle]
      BY <1>3 DEF LookAccount
    <2> HIDE DEF session
    <2>4. /\ new \in Txn /\ new.phase = "ready" /\ new.op = txn[d].op
          /\ new.user = txn[d].user /\ new.token = txn[d].token
          /\ new.row.session = session /\ new.seen = txn[d].seen
      BY <1>0, <2>2 DEF Txn, Phase, Account
    <2> HIDE DEF new
    <2>5. /\ AccessTypeOK' /\ txn'[d] \in {new, Idle}
          /\ \A e \in Requests \ {d} : txn'[e] = txn[e]
      BY <1>3, <2>3, <2>4, IdleType DEF LookAccount, AccessInv, AccessTypeOK
    <2>6. Idle.phase = "idle"
      BY DEF Idle
    <2> QED
      BY <1>0, <1>3, <2>1, <2>4, <2>5, <2>6, MoveKeeps DEF LookAccount, session
  <1> QED
    BY <1>1, <1>2, <1>3

\* Duplicate and WriteSetting end a request, and Send moves one on.
LEMMA LeaveKeeps ==
  ASSUME AccessInv, NEW d \in Requests,
         Duplicate(d) \/ WriteSetting(d) \/ Send(d)
  PROVE  AccessInv'
  <1>0. txn[d] \in Txn
    BY DEF AccessInv, AccessTypeOK
  <1>1. CASE Duplicate(d) \/ WriteSetting(d)
    <2>1. txn' = [txn EXCEPT ![d] = Idle] /\ Idle.phase = "idle"
      BY <1>1 DEF Duplicate, WriteSetting, Done, Idle
    <2>2. /\ accounts' = accounts /\ tokens' = tokens /\ disturbed' = disturbed
          /\ messages' = messages /\ setting' \in Setting
      BY <1>1 DEF Duplicate, WriteSetting, AccessInv, AccessTypeOK, Stored, Setting
    <2>3. AccessTypeOK' /\ txn'[d] = Idle /\ \A e \in Requests \ {d} : txn'[e] = txn[e]
      BY <2>1, <2>2, IdleType DEF AccessInv, AccessTypeOK
    <2> QED
      BY <2>1, <2>2, <2>3, MoveKeeps
  <1>2. CASE Send(d)
    <2> DEFINE new == [txn[d] EXCEPT !.phase = "sent"]
    <2>1. new \in Txn /\ new.phase = "sent" /\ new.op = txn[d].op /\ new.user = txn[d].user
      BY <1>0 DEF Txn, Phase
    <2>2. txn' = [txn EXCEPT ![d] = new] /\ txn[d].phase = "sending"
      BY <1>2 DEF Send
    <2> HIDE DEF new
    <2>3. txn[d].user \in Accounts /\ txn[d].op # "setting"
      BY <2>2 DEF AccessInv, WorkIsSound
    <2>4. messages' \in [Accounts -> 0..2]
      BY <1>2, <2>3 DEF Send, AccessInv, AccessTypeOK
    <2>5. AccessTypeOK' /\ txn'[d] = new /\ \A e \in Requests \ {d} : txn'[e] = txn[e]
      BY <1>2, <2>1, <2>2, <2>4 DEF Send, AccessInv, AccessTypeOK
    <2> QED
      BY <1>2, <2>1, <2>2, <2>3, <2>5, MoveKeeps DEF Send
  <1> QED
    BY <1>1, <1>2

LEMMA RestartKeeps ==
  ASSUME AccessInv, Restart
  PROVE  AccessInv'
  <1>1. /\ txn' = [d \in Requests |-> Idle] /\ Idle.phase = "idle"
        /\ accounts' = accounts /\ tokens' = tokens /\ setting' = setting
        /\ messages' = messages /\ disturbed \subseteq disturbed'
        /\ disturbed' \subseteq Accounts
    BY DEF Restart, Idle, AccessInv, AccessTypeOK
  <1>2. AccessTypeOK'
    BY <1>1, IdleType DEF AccessInv, AccessTypeOK
  <1>3. \A d \in Requests : txn'[d].phase = "idle"
    BY <1>1
  <1>4. Alone' /\ WorkIsSound' /\ SeesItsOwn'
    BY <1>3 DEF Alone, WorkIsSound, SeesItsOwn, AtWork
  <1>5. TokensOwned' /\ OneDevice'
    BY <1>1 DEF AccessInv, TokensOwned, OneDevice, Live
  <1> QED
    BY <1>2, <1>4, <1>5 DEF AccessInv

-----------------------------------------------------------------------------
(* The actions that write accounts or tokens. *)

\* A request at work on an account that is not disturbed is the only one.
LEMMA NobodyElse ==
  ASSUME AccessInv, NEW d \in Requests, NEW u \in Accounts,
         txn[d].phase # "idle", txn[d].user = u,
         NEW e \in Requests \ {d}, txn[e].phase # "idle", txn[e].user = u
  PROVE  u \in disturbed
  BY DEF AccessInv, Alone

\* A step of d that mints a token for u, and revokes what it saw of u's.
LEMMA MintKeeps ==
  ASSUME AccessInv, NEW d \in Requests, NEW u \in Accounts, NEW t \in Tokens,
         NEW sid \in Tokens \cup {NoSession}, NEW revoked \in SUBSET Tokens,
         txn[d].phase # "idle", txn[d].user = u,
         tokens[t].owner = Nobody,
         tokens' = Minted(t, u, sid, revoked),
         \A x \in revoked : tokens[x].owner = u,
         u \notin disturbed => Live(u) \subseteq revoked /\ accounts'[u].session = sid,
         accounts' \in [Accounts -> Account],
         accounts'[u].exists,
         \A v \in Accounts \ {u} : accounts'[v] = accounts[v],
         NEW new \in Txn, txn' = [txn EXCEPT ![d] = new],
         new.phase \in {"idle", "sending"},
         new.phase # "idle" => new.user = u /\ new.op # "setting",
         UNCHANGED <<setting, messages, disturbed>>
  PROVE  AccessInv'
  <1>1. /\ tokens' \in [Tokens -> Token]
        /\ tokens'[t].owner = u /\ tokens'[t].sid = sid /\ ~tokens'[t].revoked
        /\ \A x \in Tokens \ {t} : /\ tokens'[x].owner = tokens[x].owner
                                   /\ tokens'[x].sid = tokens[x].sid
                                   /\ x \notin revoked => tokens'[x] = tokens[x]
        /\ \A x \in revoked \ {t} : tokens'[x].revoked
    <2> DEFINE row == [Unminted EXCEPT !.owner = u, !.sid = sid]
    <2>1. row \in Token /\ row.owner = u /\ row.sid = sid /\ ~row.revoked
      BY IdleType DEF Token, Unminted
    <2>2. tokens'[t] = row
      BY DEF Minted
    <2>3. ASSUME NEW x \in Tokens \ {t}
          PROVE  /\ tokens'[x] \in Token
                 /\ tokens'[x].owner = tokens[x].owner /\ tokens'[x].sid = tokens[x].sid
                 /\ x \notin revoked => tokens'[x] = tokens[x]
                 /\ x \in revoked => tokens'[x].revoked
      <3>1. tokens[x] \in Token
        BY DEF AccessInv, AccessTypeOK
      <3>2. CASE x \in revoked
        <4>1. tokens'[x] = [tokens[x] EXCEPT !.revoked = TRUE]
          BY <3>2 DEF Minted
        <4> QED
          BY <3>1, <3>2, <4>1 DEF Token
      <3>3. CASE x \notin revoked
        <4>1. tokens'[x] = tokens[x]
          BY <3>3 DEF Minted
        <4> QED
          BY <3>1, <3>3, <4>1
      <3> QED
        BY <3>2, <3>3
    <2>4. tokens' = [x \in Tokens |-> tokens'[x]]
      BY DEF Minted
    <2> HIDE DEF row
    <2>5. tokens' \in [Tokens -> Token]
      BY <2>1, <2>2, <2>3, <2>4
    <2> QED
      BY <2>1, <2>2, <2>3, <2>5
  <1>2. AccessTypeOK'
    BY <1>1 DEF AccessInv, AccessTypeOK
  <1>3. txn'[d] = new /\ \A e \in Requests \ {d} : txn'[e] = txn[e]
    BY DEF AccessInv, AccessTypeOK
  <1>4. TokensOwned' /\ \A x \in Tokens : tokens[x].owner \in Accounts
                                     => tokens'[x].owner = tokens[x].owner
    BY <1>1, AccessAssumption DEF AccessInv, TokensOwned
  <1>5. \A v \in Accounts \ {u} : /\ Live(v)' = Live(v)
                                  /\ \A x \in Live(v) : tokens'[x] = tokens[x]
    <2> SUFFICES ASSUME NEW v \in Accounts \ {u}, NEW x \in Tokens
                 PROVE  /\ x \in Live(v)' <=> x \in Live(v)
                        /\ x \in Live(v) => tokens'[x] = tokens[x]
      BY DEF Live
    <2>1. CASE x = t
      BY <2>1, <1>1, AccessAssumption DEF Live
    <2>2. CASE x # t
      BY <2>2, <1>1 DEF Live
    <2> QED
      BY <2>1, <2>2
  <1>6. u \notin disturbed' => \A x \in Live(u)' :
           /\ tokens'[x].sid = accounts'[u].session
           /\ \A y \in Live(u)' : y = x
    <2> SUFFICES ASSUME u \notin disturbed, NEW x \in Live(u)' PROVE x = t
      BY <1>1
    <2>1. x \in Tokens /\ tokens'[x].owner = u /\ ~tokens'[x].revoked
      BY DEF Live
    <2>2. SUFFICES ASSUME x # t PROVE FALSE
      OBVIOUS
    <2>3. x \notin revoked
      BY <1>1, <2>1, <2>2
    <2>4. x \in Live(u)
      BY <1>1, <2>1, <2>2, <2>3 DEF Live
    <2> QED
      BY <2>3, <2>4
  <1>7. \A e \in Requests \ {d} : txn[e].phase # "idle" /\ txn[e].user = u
                                => u \in disturbed'
    BY NobodyElse
  <1>8. \A v \in Accounts : accounts[v].exists => accounts'[v].exists
    OBVIOUS
  <1>9. \A v \in Accounts \ {u} : accounts'[v].session = accounts[v].session
    OBVIOUS
  <1> QED
    BY <1>2, <1>3, <1>4, <1>5, <1>6, <1>7, <1>8, <1>9, SettleKeeps

LEMMA SignInKeeps ==
  ASSUME AccessInv, NEW d \in Requests, SignIn(d)
  PROVE  AccessInv'
  <1> DEFINE u == txn[d].user
             seen == txn[d].seen
  <1>1. txn[d].phase = "ready" /\ txn[d].op = "login"
    BY DEF SignIn, Ready
  <1>2. PICK t \in Tokens : /\ IsNextToken(t)
                            /\ tokens' = Minted(t, u, t, seen)
                            /\ accounts' = [accounts EXCEPT ![u].session = t]
    BY DEF SignIn
  <1>3. /\ u \in Accounts /\ accounts[u].exists
        /\ seen \in SUBSET Tokens
        /\ \A x \in seen : tokens[x].owner = u
        /\ u \notin disturbed => seen = Live(u)
    BY <1>1 DEF AccessInv, AccessTypeOK, Txn, WorkIsSound, SeesItsOwn, AtWork, ReadHolds
  <1>4. txn' = [txn EXCEPT ![d] = Idle] /\ UNCHANGED <<setting, messages, disturbed>>
    BY DEF SignIn, Done
  <1>5. tokens[t].owner = Nobody
    BY <1>2 DEF IsNextToken
  <1> HIDE DEF u, seen
  <1>6. /\ accounts' \in [Accounts -> Account]
        /\ accounts'[u].exists /\ accounts'[u].session = t
        /\ \A v \in Accounts \ {u} : accounts'[v] = accounts[v]
    BY <1>2, <1>3 DEF AccessInv, AccessTypeOK, Account
  <1>7. txn[d].phase # "idle" /\ txn[d].user = u
    BY <1>1 DEF u
  <1>8. u \notin disturbed => Live(u) \subseteq seen /\ accounts'[u].session = t
    BY <1>3, <1>6
  <1>9. t \in Tokens \cup {NoSession}
    OBVIOUS
  <1>10. Idle \in Txn /\ Idle.phase = "idle"
    BY IdleType
  <1>11. u \in Accounts /\ seen \in SUBSET Tokens /\ \A x \in seen : tokens[x].owner = u
    BY <1>3
  <1>12. tokens' = Minted(t, u, t, seen)
    BY <1>2
  <1> QED
    BY <1>4, <1>5, <1>6, <1>7, <1>8, <1>9, <1>10, <1>11, <1>12, MintKeeps

LEMMA SignUpKeeps ==
  ASSUME AccessInv, NEW d \in Requests, SignUp(d)
  PROVE  AccessInv'
  <1> DEFINE u == txn[d].user
             row == txn[d].row
  <1>1. txn[d].phase = "ready" /\ txn[d].op = "register"
    BY DEF SignUp, Ready
  <1>2. PICK t \in Tokens : /\ IsNextToken(t)
                            /\ tokens' = Minted(t, u, t, {})
                            /\ accounts' = [accounts EXCEPT ![u] =
                                   [row EXCEPT !.exists = TRUE, !.session = t]]
    BY DEF SignUp
  <1>3. u \in Accounts /\ row \in Account /\ txn[d].user = u
    BY <1>1 DEF AccessInv, AccessTypeOK, Txn, WorkIsSound
  <1>4. ~accounts[u].exists /\ Live(u) = {}
    BY <1>3 DEF SignUp, EmailTaken, AccessInv, TokensOwned, Live
  <1> DEFINE sending == [Idle EXCEPT !.phase = "sending", !.user = u]
             new == IF NeedsTelling(row) THEN sending ELSE Idle
  <1>5. txn' = [txn EXCEPT ![d] = new] /\ UNCHANGED <<setting, messages, disturbed>>
    BY DEF SignUp, NotifyOrDone
  <1>6. tokens[t].owner = Nobody
    BY <1>2 DEF IsNextToken
  <1>7. /\ sending \in Txn /\ sending.phase = "sending"
        /\ sending.user = u /\ sending.op # "setting"
    BY <1>3, IdleType DEF Txn, Phase, Idle
  <1>8. /\ new \in Txn /\ new.phase \in {"idle", "sending"}
        /\ new.phase # "idle" => new.user = u /\ new.op # "setting"
    BY <1>7, IdleType
  <1> HIDE DEF u, row, new
  <1>9. /\ accounts' \in [Accounts -> Account]
        /\ accounts'[u].exists /\ accounts'[u].session = t
        /\ \A v \in Accounts \ {u} : accounts'[v] = accounts[v]
    BY <1>2, <1>3 DEF AccessInv, AccessTypeOK, Account
  <1> QED
    BY <1>1, <1>2, <1>3, <1>4, <1>5, <1>6, <1>8, <1>9, MintKeeps

LEMMA RotateKeeps ==
  ASSUME AccessInv, NEW d \in Requests, Rotate(d)
  PROVE  AccessInv'
  <1> DEFINE u == txn[d].user
             sid == txn[d].row.session
             revoked == {txn[d].token}
  <1>1. txn[d].phase = "ready" /\ txn[d].op = "refresh"
    BY DEF Rotate, Ready
  <1>2. PICK t \in Tokens : IsNextToken(t) /\ tokens' = Minted(t, u, sid, revoked)
    BY DEF Rotate
  <1>3. /\ u \in Accounts /\ accounts[u].exists
        /\ sid \in Tokens \cup {NoSession} /\ revoked \in SUBSET Tokens
        /\ \A x \in revoked : tokens[x].owner = u
        /\ u \notin disturbed => revoked \subseteq Live(u) /\ accounts[u].session = sid
    BY <1>1 DEF AccessInv, AccessTypeOK, Txn, Account, WorkIsSound, SeesItsOwn,
                AtWork, ReadHolds
  <1>4. u \notin disturbed => Live(u) \subseteq revoked
    BY <1>3 DEF AccessInv, OneDevice
  <1>5. /\ txn' = [txn EXCEPT ![d] = Idle] /\ UNCHANGED <<setting, messages, disturbed>>
        /\ accounts' = accounts
    BY DEF Rotate, Done
  <1>6. tokens[t].owner = Nobody
    BY <1>2 DEF IsNextToken
  <1>7. txn[d].phase # "idle" /\ txn[d].user = u
    BY <1>1
  <1>8. accounts \in [Accounts -> Account]
    BY DEF AccessInv, AccessTypeOK
  <1> HIDE DEF u, sid, revoked
  <1> QED
    BY <1>2, <1>3, <1>4, <1>5, <1>6, <1>7, <1>8, IdleType, MintKeeps

\* A step of d about u that moves no session and mints no token.
LEMMA EditKeeps ==
  ASSUME AccessInv, NEW d \in Requests, NEW u \in Accounts,
         AccessTypeOK',
         \A e \in Requests \ {d} : txn'[e] = txn[e],
         txn'[d].phase \in {"idle", "sending"},
         txn'[d].phase # "idle" => txn'[d].user = u /\ txn'[d].op # "setting",
         disturbed \subseteq disturbed',
         \A e \in Requests \ {d} :
             txn[e].phase # "idle" /\ txn[e].user = u => u \in disturbed',
         \A v \in Accounts : /\ accounts'[v].session = accounts[v].session
                             /\ accounts[v].exists => accounts'[v].exists,
         \A x \in Tokens : /\ tokens'[x].owner = tokens[x].owner
                           /\ tokens'[x].sid = tokens[x].sid
                           /\ tokens[x].revoked => tokens'[x].revoked
                           /\ tokens[x].owner # u => tokens'[x] = tokens[x]
  PROVE  AccessInv'
  <1>1. TokensOwned'
    BY DEF AccessInv, TokensOwned
  <1>2. \A v \in Accounts \ {u} : /\ Live(v)' = Live(v)
                                  /\ \A x \in Live(v) : tokens'[x] = tokens[x]
    BY DEF Live
  <1>3. \A x \in Live(u)' : x \in Live(u) /\ tokens'[x].sid = tokens[x].sid
    BY DEF Live
  <1>4. u \notin disturbed' => \A x \in Live(u)' :
           /\ tokens'[x].sid = accounts'[u].session
           /\ \A y \in Live(u)' : y = x
    BY <1>3 DEF AccessInv, OneDevice
  <1>5. /\ \A v \in Accounts : accounts[v].exists => accounts'[v].exists
        /\ \A v \in Accounts \ {u} : accounts'[v].session = accounts[v].session
        /\ \A x \in Tokens : tokens[x].owner \in Accounts
                           => tokens'[x].owner = tokens[x].owner
    OBVIOUS
  <1> QED
    BY <1>1, <1>2, <1>4, <1>5, SettleKeeps

LEMMA CreateStaffKeeps ==
  ASSUME AccessInv, NEW d \in Requests, CreateStaff(d)
  PROVE  AccessInv'
  <1> DEFINE u == txn[d].user
  <1>1. txn[d].phase = "ready" /\ txn[d].op = "staff"
    BY DEF CreateStaff, Ready
  <1>2. u \in Accounts
    BY <1>1 DEF AccessInv, WorkIsSound
  <1>3. /\ accounts' = [accounts EXCEPT ![u].exists = TRUE]
        /\ txn' = [txn EXCEPT ![d] = Idle]
        /\ UNCHANGED <<tokens, setting, messages, disturbed>>
    BY DEF CreateStaff, Done
  <1>4. AccessTypeOK'
    BY <1>2, <1>3, IdleType DEF AccessInv, AccessTypeOK, Account
  <1>5. \A v \in Accounts : /\ accounts'[v].session = accounts[v].session
                            /\ accounts[v].exists => accounts'[v].exists
    BY <1>3 DEF AccessInv, AccessTypeOK, Account
  <1>6. txn'[d] = Idle /\ \A e \in Requests \ {d} : txn'[e] = txn[e]
    BY <1>3 DEF AccessInv, AccessTypeOK
  <1>7. \A e \in Requests \ {d} : txn[e].phase # "idle" /\ txn[e].user = u
                                => u \in disturbed
    BY <1>1, <1>2, NobodyElse
  <1> HIDE DEF u
  <1> QED
    BY <1>2, <1>3, <1>4, <1>5, <1>6, <1>7, IdleType, EditKeeps

LEMMA SwitchKeeps ==
  ASSUME AccessInv, NEW d \in Requests, Switch(d)
  PROVE  AccessInv'
  <1> DEFINE u == txn[d].user
             seen == txn[d].seen
             value == txn[d].value
             row == [accounts[u] EXCEPT !.active = value]
  <1>1. txn[d].phase = "ready" /\ txn[d].op \in {"reject", "activate", "edit"}
    BY DEF Switch, Ready
  <1>2. u \in Accounts /\ \A x \in seen : tokens[x].owner = u
    BY <1>1 DEF AccessInv, WorkIsSound, SeesItsOwn, AtWork
  <1>3. /\ txn' = [txn EXCEPT ![d] = Idle]
        /\ UNCHANGED <<setting, messages, disturbed>>
        /\ accounts' = [accounts EXCEPT ![u] = row] \/ accounts' = accounts
        /\ tokens' = [x \in Tokens |-> IF x \in seen THEN [tokens[x] EXCEPT !.revoked = TRUE]
                                       ELSE tokens[x]]
    BY DEF Switch, Done
  <1>4. value \in BOOLEAN /\ accounts \in [Accounts -> Account]
        /\ tokens \in [Tokens -> Token]
    BY DEF AccessInv, AccessTypeOK, Txn
  <1>5. /\ row \in Account /\ row.session = accounts[u].session
        /\ row.exists = accounts[u].exists
    BY <1>2, <1>4 DEF Account
  <1>6. ASSUME NEW x \in Tokens
        PROVE  /\ tokens'[x] \in Token
               /\ tokens'[x].owner = tokens[x].owner /\ tokens'[x].sid = tokens[x].sid
               /\ tokens[x].revoked => tokens'[x].revoked
               /\ x \notin seen => tokens'[x] = tokens[x]
    <2>1. CASE x \in seen
      <3>1. tokens'[x] = [tokens[x] EXCEPT !.revoked = TRUE]
        BY <1>3, <2>1
      <3> QED
        BY <1>4, <2>1, <3>1 DEF Token
    <2>2. CASE x \notin seen
      BY <1>3, <1>4, <2>2
    <2> QED
      BY <2>1, <2>2
  <1>7. tokens' = [x \in Tokens |-> tokens'[x]]
    BY <1>3
  <1> HIDE DEF row, seen
  <1>8. tokens' \in [Tokens -> Token]
    BY <1>6, <1>7
  <1>9. accounts' \in [Accounts -> Account]
    BY <1>3, <1>4, <1>5
  <1>10. AccessTypeOK'
    BY <1>3, <1>8, <1>9, IdleType DEF AccessInv, AccessTypeOK
  <1>11. \A v \in Accounts : /\ accounts'[v].session = accounts[v].session
                             /\ accounts[v].exists => accounts'[v].exists
    BY <1>3, <1>4, <1>5
  <1>12. txn'[d] = Idle /\ \A e \in Requests \ {d} : txn'[e] = txn[e]
    BY <1>3 DEF AccessInv, AccessTypeOK
  <1>13. \A e \in Requests \ {d} : txn[e].phase # "idle" /\ txn[e].user = u
                                 => u \in disturbed
    BY <1>1, <1>2, NobodyElse
  <1>14. \A x \in Tokens : /\ tokens'[x].owner = tokens[x].owner
                           /\ tokens'[x].sid = tokens[x].sid
                           /\ tokens[x].revoked => tokens'[x].revoked
                           /\ tokens[x].owner # u => tokens'[x] = tokens[x]
    BY <1>2, <1>6
  <1>15. disturbed' = disturbed
    BY <1>3
  <1> HIDE DEF u
  <1> QED
    BY <1>2, <1>10, <1>11, <1>12, <1>13, <1>14, <1>15, IdleType, EditKeeps

LEMMA LogoutKeeps ==
  ASSUME AccessInv, NEW d \in Requests, NEW t \in Tokens, Logout(d, t)
  PROVE  AccessInv'
  <1> DEFINE u == tokens[t].owner
             row == [tokens[t] EXCEPT !.revoked = TRUE]
  <1>1. u \in Accounts /\ tokens[t] \in Token
    BY DEF Logout, AccessInv, AccessTypeOK, Token
  <1>2. /\ tokens' = [tokens EXCEPT ![t] = row]
        /\ UNCHANGED <<accounts, setting, txn, messages>>
        /\ disturbed' = IF Meets(d, u) THEN disturbed \cup {u} ELSE disturbed
        /\ txn[d].phase = "idle"
    BY DEF Logout, Touch
  <1>3. row \in Token /\ row.owner = u /\ row.sid = tokens[t].sid /\ row.revoked
    BY <1>1 DEF Token
  <1>4. \A e \in Requests \ {d} : txn[e].phase # "idle" /\ txn[e].user = u
                                => u \in disturbed'
    BY <1>2 DEF Meets
  <1> HIDE DEF row, u
  <1>5. AccessTypeOK'
    BY <1>1, <1>2, <1>3 DEF AccessInv, AccessTypeOK
  <1>6. \A x \in Tokens : /\ tokens'[x].owner = tokens[x].owner
                          /\ tokens'[x].sid = tokens[x].sid
                          /\ tokens[x].revoked => tokens'[x].revoked
                          /\ tokens[x].owner # u => tokens'[x] = tokens[x]
    BY <1>2, <1>3 DEF u, AccessInv, AccessTypeOK
  <1>7. disturbed \subseteq disturbed'
    BY <1>2
  <1> QED
    BY <1>1, <1>2, <1>4, <1>5, <1>6, <1>7, EditKeeps

\* Approve and UpdateProfile are over at once, but for the message that follows.
LEMMA ProfileKeeps ==
  ASSUME AccessInv, NEW d \in Requests, NEW u \in Accounts,
         Approve(d, u) \/ UpdateProfile(d, u)
  PROVE  AccessInv'
  <1>0. accounts \in [Accounts -> Account] /\ txn[d].phase = "idle"
    BY DEF AccessInv, AccessTypeOK, Approve, UpdateProfile
  <1>1. /\ UNCHANGED <<tokens, setting, messages>>
        /\ disturbed' = IF Meets(d, u) THEN disturbed \cup {u} ELSE disturbed
    BY DEF Approve, UpdateProfile, Touch
  <1>2. PICK row \in Account :
          /\ accounts' = [accounts EXCEPT ![u] = row]
          /\ row.session = accounts[u].session /\ row.exists = accounts[u].exists
    <2>1. CASE Approve(d, u)
      <3> DEFINE row == [accounts[u] EXCEPT !.approved = TRUE]
      <3>1. /\ row \in Account
            /\ row.session = accounts[u].session /\ row.exists = accounts[u].exists
        BY <1>0 DEF Account
      <3>2. accounts' = [accounts EXCEPT ![u] = row]
        BY <2>1 DEF Approve
      <3> QED
        BY <3>1, <3>2
    <2>2. CASE UpdateProfile(d, u)
      <3>1. PICK phone \in {accounts[u].phone, TRUE} :
               accounts' = [accounts EXCEPT ![u] = [accounts[u] EXCEPT !.phone = phone]]
        BY <2>2 DEF UpdateProfile
      <3> DEFINE row == [accounts[u] EXCEPT !.phone = phone]
      <3>2. /\ row \in Account
            /\ row.session = accounts[u].session /\ row.exists = accounts[u].exists
        BY <1>0 DEF Account
      <3> QED
        BY <3>1, <3>2
    <2> QED
      BY <2>1, <2>2
  <1> DEFINE sending == [Idle EXCEPT !.phase = "sending", !.user = u]
  <1>3. txn' = txn \/ txn' = [txn EXCEPT ![d] = Idle] \/ txn' = [txn EXCEPT ![d] = sending]
    BY DEF Approve, UpdateProfile
  <1>4. /\ sending \in Txn /\ sending.phase = "sending"
        /\ sending.user = u /\ sending.op # "setting"
    BY IdleType DEF Txn, Phase, Idle
  <1> HIDE DEF sending
  <1>5. /\ txn' \in [Requests -> Txn]
        /\ txn'[d] \in {txn[d], Idle, sending}
        /\ \A e \in Requests \ {d} : txn'[e] = txn[e]
    BY <1>3, <1>4, IdleType DEF AccessInv, AccessTypeOK
  <1>6. AccessTypeOK'
    BY <1>0, <1>1, <1>2, <1>5 DEF AccessInv, AccessTypeOK
  <1>7. \A v \in Accounts : /\ accounts'[v].session = accounts[v].session
                            /\ accounts[v].exists => accounts'[v].exists
    BY <1>0, <1>2
  <1>8. \A e \in Requests \ {d} : txn[e].phase # "idle" /\ txn[e].user = u
                                => u \in disturbed'
    BY <1>1 DEF Meets
  <1>9. disturbed \subseteq disturbed' /\ tokens' = tokens
    BY <1>1
  <1> QED
    BY <1>0, <1>4, <1>5, <1>6, <1>7, <1>8, <1>9, IdleType, EditKeeps

LEMMA NoteKeeps ==
  ASSUME AccessInv, NEW d \in Requests, Note(d)
  PROVE  AccessInv'
  <1> DEFINE u == txn[d].user
  <1>1. u \in Accounts /\ txn[d].phase = "sent"
    BY DEF Note, AccessInv, WorkIsSound
  <1>2. /\ accounts' = [accounts EXCEPT ![u].told = TRUE]
        /\ txn' = [txn EXCEPT ![d] = Idle]
        /\ UNCHANGED <<tokens, setting, messages, disturbed>>
    BY DEF Note, Noted, Done
  <1>3. AccessTypeOK'
    BY <1>1, <1>2, IdleType DEF AccessInv, AccessTypeOK, Account
  <1>4. \A v \in Accounts : /\ accounts'[v].session = accounts[v].session
                            /\ accounts[v].exists => accounts'[v].exists
    BY <1>1, <1>2 DEF AccessInv, AccessTypeOK, Account
  <1>5. txn'[d] = Idle /\ \A e \in Requests \ {d} : txn'[e] = txn[e]
    BY <1>2 DEF AccessInv, AccessTypeOK
  <1>6. \A e \in Requests \ {d} : txn[e].phase # "idle" /\ txn[e].user = u
                                => u \in disturbed
    BY <1>1, NobodyElse
  <1> HIDE DEF u
  <1> QED
    BY <1>1, <1>2, <1>3, <1>4, <1>5, <1>6, IdleType, EditKeeps

-----------------------------------------------------------------------------
LEMMA AccessIsInductive == AccessInv /\ [AccessNext]_accessVars => AccessInv'
  <1> SUFFICES ASSUME AccessInv, [AccessNext]_accessVars PROVE AccessInv'
    OBVIOUS
  <1>1. ASSUME NEW d \in Requests, Arrive(d) PROVE AccessInv'
    BY <1>1, CheckAccountKeeps, CheckTokenKeeps, CheckSwitchKeeps,
       CheckSettingKeeps, LogoutKeeps, ProfileKeeps DEF Arrive
  <1>2. ASSUME NEW d \in Requests, Proceed(d) PROVE AccessInv'
    BY <1>2, LookKeeps, LeaveKeeps, SignInKeeps, SignUpKeeps, RotateKeeps,
       CreateStaffKeeps, SwitchKeeps, NoteKeeps DEF Proceed
  <1>3. CASE Restart
    BY <1>3, RestartKeeps
  <1>4. CASE UNCHANGED accessVars
    BY <1>4 DEF accessVars, AccessInv, AccessTypeOK, Alone, TokensOwned, WorkIsSound,
                SeesItsOwn, AtWork, ReadHolds, OneDevice, Live
  <1> QED
    BY <1>1, <1>2, <1>3, <1>4 DEF AccessNext

\* Accounts, tokens, requests and the platform's switch stay in their ranges
\* whatever requests meet (app/services/auth.py, admin.py, platform_settings.py).
THEOREM AccessTypeCorrect == AccessSpec => []AccessTypeOK
  <1>1. AccessInv => AccessTypeOK
    BY DEF AccessInv
  <1> QED
    BY <1>1, AccessInitially, AccessIsInductive, PTL DEF AccessSpec

\* One device at a time: of an account that no two requests work on at once, one
\* refresh token is valid at most, and it belongs to the session the account is
\* signed in with (_start_new_session and refresh in app/services/auth.py).
THEOREM OneDeviceHolds == AccessSpec => []OneDevice
  <1>1. AccessInv => OneDevice
    BY DEF AccessInv
  <1> QED
    BY <1>1, AccessInitially, AccessIsInductive, PTL DEF AccessSpec

-----------------------------------------------------------------------------
(* A locked account is given no token. *)

Switches == {"reject", "activate", "edit"}

\* What a request at work has seen of its account: it exists, or is not locked.
LookHolds(d) ==
    /\ txn[d].op \in Switches => accounts[txn[d].user].exists
    /\ txn[d].user \notin disturbed /\ (txn[d].op = "login"
           \/ (txn[d].op = "refresh" /\ txn[d].phase = "ready"))
       => accounts[txn[d].user].active

LockInv ==
    /\ \A u \in Accounts : accounts[u].exists \/ accounts[u].active
    /\ \A d \in Requests : AtWork(d) /\ txn[d].user \in Accounts => LookHolds(d)

\* A step of d: other requests stay, accounts do not vanish, and no request that
\* is alone with its account sees it switched.
LEMMA LockStep ==
  ASSUME AccessInv, LockInv, NEW d \in Requests,
         \A e \in Requests \ {d} : txn'[e] = txn[e],
         disturbed \subseteq disturbed',
         \A u \in Accounts : accounts[u].exists => accounts'[u].exists,
         \A u \in Accounts : accounts'[u].exists \/ accounts'[u].active,
         \A e \in Requests \ {d} :
             AtWork(e) /\ txn[e].user \in Accounts \ disturbed'
             => accounts'[txn[e].user].active = accounts[txn[e].user].active,
         AtWork(d)' /\ txn'[d].user \in Accounts => LookHolds(d)'
  PROVE  LockInv'
  <1> SUFFICES ASSUME NEW e \in Requests, AtWork(e)', txn'[e].user \in Accounts
               PROVE  LookHolds(e)'
    BY DEF LockInv
  <1>1. CASE e = d
    BY <1>1
  <1>2. CASE e # d
    BY <1>2 DEF LockInv, AtWork, LookHolds
  <1> QED
    BY <1>1, <1>2

\* A step that leaves every account's switch alone.
LEMMA LockRests ==
  ASSUME AccessInv, LockInv, NEW d \in Requests,
         \A e \in Requests \ {d} : txn'[e] = txn[e],
         disturbed \subseteq disturbed',
         \A u \in Accounts : /\ accounts[u].exists => accounts'[u].exists
                             /\ accounts'[u].active = accounts[u].active,
         AtWork(d)' /\ txn'[d].user \in Accounts => LookHolds(d)'
  PROVE  LockInv'
  <1>1. \A u \in Accounts : accounts'[u].exists \/ accounts'[u].active
    BY DEF LockInv
  <1> QED
    BY <1>1, LockStep

LEMMA LockWhenBegun ==
  ASSUME AccessInv, LockInv, NEW d \in Requests, NEW new, Open(d, new),
         new.user \in Accounts,
         new.op \in Switches => accounts[new.user].exists,
         new.op = "login" => accounts[new.user].active,
         new.op = "refresh" => new.phase = "checked"
  PROVE  LockInv'
  <1>1. /\ txn'[d] = new /\ \A e \in Requests \ {d} : txn'[e] = txn[e]
        /\ accounts' = accounts /\ disturbed \subseteq disturbed'
    BY DEF Open, Touch, AccessInv, AccessTypeOK
  <1>2. LookHolds(d)'
    BY <1>1 DEF LookHolds
  <1> QED
    BY <1>1, <1>2, LockRests

\* What such a request has seen when it opens.
Opened(d, u) ==
  \E new : /\ Open(d, new) /\ new.user = u
           /\ new.phase \in {"checked", "ready"} /\ new.op # "refresh"
           /\ new.op \in Switches => accounts[u].exists
           /\ new.op = "login" => accounts[u].active

\* The requests that name an account and look at it first.
Checks(d, u) ==
  \/ CheckSignIn(d, u) \/ CheckSignUp(d, u) \/ CheckStaff(d, u)
  \/ CheckReject(d, u) \/ CheckSwitch(d, u)

\* Each of them opens the request with what it saw.
LEMMA ChecksOpen ==
  ASSUME NEW d \in Requests, NEW u \in Accounts, Checks(d, u)
  PROVE  Opened(d, u)
  <1>1. CASE CheckSignIn(d, u)
    <2> DEFINE new == [Idle EXCEPT !.phase = "checked", !.op = "login", !.user = u]
    <2>1. new.user = u /\ new.op = "login" /\ new.phase = "checked"
      BY DEF Idle
    <2>2. Open(d, new) /\ accounts[u].active
      BY <1>1 DEF CheckSignIn
    <2> HIDE DEF new
    <2> QED
      BY <2>1, <2>2 DEF Switches, Opened
  <1>2. CASE CheckSignUp(d, u)
    <2>1. PICK op \in {"register", "clerk"} :
             Open(d, [Idle EXCEPT !.phase = "checked", !.op = "register", !.user = u,
                                  !.row = [Absent EXCEPT !.phone = op = "register"]])
      BY <1>2 DEF CheckSignUp
    <2> DEFINE new == [Idle EXCEPT !.phase = "checked", !.op = "register", !.user = u,
                                   !.row = [Absent EXCEPT !.phone = op = "register"]]
    <2>2. new.user = u /\ new.op = "register" /\ new.phase = "checked"
      BY DEF Idle
    <2>3. Open(d, new)
      BY <2>1
    <2> HIDE DEF new
    <2> QED
      BY <2>2, <2>3 DEF Switches, Opened
  <1>3. CASE CheckStaff(d, u)
    <2> DEFINE new == [Idle EXCEPT !.phase = "ready", !.op = "staff", !.user = u]
    <2>1. new.user = u /\ new.op = "staff" /\ new.phase = "ready"
      BY DEF Idle
    <2>2. Open(d, new)
      BY <1>3 DEF CheckStaff
    <2> HIDE DEF new
    <2> QED
      BY <2>1, <2>2 DEF Switches, Opened
  <1>4. CASE CheckReject(d, u)
    <2> DEFINE new == [Idle EXCEPT !.phase = "checked", !.op = "reject", !.user = u,
                                   !.row.active = accounts[u].active]
    <2>1. new.user = u /\ new.op = "reject" /\ new.phase = "checked"
      BY DEF Idle
    <2>2. Open(d, new) /\ accounts[u].exists
      BY <1>4 DEF CheckReject
    <2> HIDE DEF new
    <2> QED
      BY <2>1, <2>2 DEF Opened
  <1>5. CASE CheckSwitch(d, u)
    <2>1. PICK op \in {"activate", "edit"}, value \in BOOLEAN :
             /\ accounts[u].exists
             /\ Open(d, [Idle EXCEPT !.phase = IF op = "activate" /\ ~value
                                               THEN "checked" ELSE "ready",
                                     !.op = op, !.user = u, !.value = value,
                                     !.row.active = accounts[u].active])
      BY <1>5 DEF CheckSwitch
    <2> DEFINE new == [Idle EXCEPT !.phase = IF op = "activate" /\ ~value
                                             THEN "checked" ELSE "ready",
                                   !.op = op, !.user = u, !.value = value,
                                   !.row.active = accounts[u].active]
    <2>2. new.user = u /\ new.op = op /\ new.phase \in {"checked", "ready"}
      BY DEF Idle
    <2>3. Open(d, new)
      BY <2>1
    <2> HIDE DEF new
    <2> QED
      BY <2>1, <2>2, <2>3 DEF Opened
  <1> QED
    BY <1>1, <1>2, <1>3, <1>4, <1>5 DEF Checks

LEMMA LockWhenChecked ==
  ASSUME AccessInv, LockInv, NEW d \in Requests, NEW u \in Accounts,
         \/ CheckSignIn(d, u) \/ CheckSignUp(d, u) \/ CheckStaff(d, u)
         \/ CheckReject(d, u) \/ CheckSwitch(d, u)
  PROVE  LockInv'
  <1>1. PICK new : /\ Open(d, new) /\ new.user = u
                   /\ new.phase \in {"checked", "ready"} /\ new.op # "refresh"
                   /\ new.op \in Switches => accounts[u].exists
                   /\ new.op = "login" => accounts[u].active
    BY ChecksOpen DEF Checks, Opened
  <1> QED
    BY <1>1, LockWhenBegun

LEMMA LockWhenTokenChecked ==
  ASSUME AccessInv, LockInv, NEW d \in Requests, NEW t \in Tokens, CheckToken(d, t)
  PROVE  LockInv'
  <1> DEFINE new == [Idle EXCEPT !.phase = "checked", !.op = "refresh",
                                 !.user = tokens[t].owner, !.token = t]
  <1>1. tokens[t].owner \in Accounts
    BY DEF CheckToken, Redeemable, AccessInv, AccessTypeOK, Token
  <1>2. new.user = tokens[t].owner /\ new.op = "refresh" /\ new.phase = "checked"
    BY DEF Idle
  <1>3. Open(d, new)
    BY DEF CheckToken
  <1> HIDE DEF new
  <1> QED
    BY <1>1, <1>2, <1>3, LockWhenBegun DEF Switches

LEMMA LockWhenLooked ==
  ASSUME AccessInv, LockInv, NEW d \in Requests,
         LookSetting(d) \/ LookTokens(d) \/ LookAccount(d)
  PROVE  LockInv'
  <1>1. /\ accounts' = accounts /\ disturbed' = disturbed
        /\ txn[d].phase = "checked"
        /\ \A e \in Requests \ {d} : txn'[e] = txn[e]
    BY DEF LookSetting, LookTokens, LookAccount, Look, AccessInv, AccessTypeOK
  <1>2. ASSUME txn[d].user \in Accounts PROVE LookHolds(d)
    BY <1>1, <1>2 DEF LockInv, AtWork
  <1>3. CASE LookSetting(d) \/ LookTokens(d)
    <2>1. txn'[d].op = txn[d].op /\ txn'[d].user = txn[d].user /\ txn[d].op # "refresh"
      BY <1>3 DEF LookSetting, LookTokens, Look, AccessInv, AccessTypeOK, Txn
    <2>2. txn[d].user \in Accounts => LookHolds(d)'
      BY <1>1, <1>2, <2>1 DEF LookHolds
    <2> QED
      BY <1>1, <2>1, <2>2, LockRests
  <1>4. CASE LookAccount(d)
    <2> DEFINE new == [txn[d] EXCEPT !.phase = "ready",
                                     !.row.session = accounts[txn[d].user].session]
    <2>1. \/ txn'[d] = Idle
          \/ txn'[d] = new /\ accounts[txn[d].user].active
      BY <1>4 DEF LookAccount, Look, MayRefresh, AccessInv, AccessTypeOK
    <2>2. new.op = txn[d].op /\ new.user = txn[d].user /\ txn[d].op = "refresh"
      BY <1>4 DEF LookAccount, Look, AccessInv, AccessTypeOK, Txn
    <2> HIDE DEF new
    <2>3. CASE txn'[d] = Idle
      BY <1>1, <2>3, IdleType, LockRests DEF AtWork
    <2>4. CASE txn'[d] = new /\ accounts[txn[d].user].active
      <3>1. LookHolds(d)'
        BY <1>1, <2>2, <2>4 DEF LookHolds, Switches
      <3> QED
        BY <1>1, <3>1, LockRests
    <2> QED
      BY <2>1, <2>3, <2>4
  <1> QED
    BY <1>3, <1>4

\* The steps that end a request, or send its message, without a switch.
LEMMA LockWhenDone ==
  ASSUME AccessInv, LockInv, NEW d \in Requests,
         \/ SignIn(d) \/ CreateStaff(d) \/ Duplicate(d) \/ Rotate(d)
         \/ WriteSetting(d) \/ Send(d) \/ Note(d)
  PROVE  LockInv'
  <1>1. /\ ~AtWork(d)' /\ \A e \in Requests \ {d} : txn'[e] = txn[e]
    BY IdleType DEF SignIn, CreateStaff, Duplicate, Rotate, WriteSetting, Send, Note,
                    Done, AtWork, AccessInv, AccessTypeOK, Txn
  <1>2. disturbed' = disturbed
    BY DEF SignIn, CreateStaff, Duplicate, Rotate, WriteSetting, Send, Note
  <1>3. accounts \in [Accounts -> Account]
    BY DEF AccessInv, AccessTypeOK
  <1>4. ASSUME NEW u \in Accounts
        PROVE  /\ accounts[u].exists => accounts'[u].exists
               /\ accounts'[u].active = accounts[u].active
    <2>1. CASE SignIn(d)
      <3>1. PICK t \in Tokens : accounts' = [accounts EXCEPT ![txn[d].user].session = t]
        BY <2>1 DEF SignIn
      <3> QED
        BY <1>3, <3>1 DEF Account
    <2>2. CASE CreateStaff(d)
      BY <1>3, <2>2 DEF CreateStaff, Account
    <2>3. CASE Note(d)
      BY <1>3, <2>3 DEF Note, Noted, Account
    <2>4. CASE Duplicate(d) \/ Rotate(d) \/ WriteSetting(d) \/ Send(d)
      BY <2>4 DEF Duplicate, Rotate, WriteSetting, Send
    <2> QED
      BY <2>1, <2>2, <2>3, <2>4
  <1> QED
    BY <1>1, <1>2, <1>4, LockRests

LEMMA LockWhenSignedUp ==
  ASSUME AccessInv, LockInv, NEW d \in Requests, SignUp(d)
  PROVE  LockInv'
  <1> DEFINE u == txn[d].user
  <1>1. u \in Accounts /\ txn[d].phase = "ready"
    BY DEF SignUp, Ready, AccessInv, WorkIsSound
  <1>2. PICK t \in Tokens : accounts' = [accounts EXCEPT ![u] =
                                [txn[d].row EXCEPT !.exists = TRUE, !.session = t]]
    BY DEF SignUp
  <1>3. ~AtWork(d)' /\ (\A e \in Requests \ {d} : txn'[e] = txn[e]) /\ disturbed' = disturbed
    BY IdleType DEF SignUp, NotifyOrDone, AtWork, AccessInv, AccessTypeOK, Txn
  <1>4. txn[d].row \in Account /\ accounts \in [Accounts -> Account]
    BY DEF AccessInv, AccessTypeOK, Txn
  <1>5. accounts'[u].exists /\ \A v \in Accounts \ {u} : accounts'[v] = accounts[v]
    BY <1>1, <1>2, <1>4 DEF Account
  <1>6. \A e \in Requests \ {d} : AtWork(e) /\ txn[e].user = u => u \in disturbed
    BY <1>1, NobodyElse DEF AtWork
  <1> HIDE DEF u
  <1>7. \A v \in Accounts : /\ accounts[v].exists => accounts'[v].exists
                            /\ accounts'[v].exists \/ accounts'[v].active
    BY <1>5 DEF LockInv
  <1>8. \A e \in Requests \ {d} :
            AtWork(e) /\ txn[e].user \in Accounts \ disturbed'
            => accounts'[txn[e].user].active = accounts[txn[e].user].active
    BY <1>3, <1>5, <1>6
  <1> QED
    BY <1>3, <1>7, <1>8, LockStep

LEMMA LockWhenSwitched ==
  ASSUME AccessInv, LockInv, NEW d \in Requests, Switch(d)
  PROVE  LockInv'
  <1> DEFINE u == txn[d].user
             row == [accounts[u] EXCEPT !.active = txn[d].value]
  <1>1. txn[d].phase = "ready" /\ txn[d].op \in Switches
    BY DEF Switch, Ready, Switches
  <1>2. u \in Accounts /\ accounts[u].exists
    BY <1>1 DEF AccessInv, WorkIsSound, LockInv, LookHolds, AtWork, Switches
  <1>3. ~AtWork(d)' /\ (\A e \in Requests \ {d} : txn'[e] = txn[e]) /\ disturbed' = disturbed
    BY IdleType DEF Switch, Done, AtWork, AccessInv, AccessTypeOK, Txn
  <1>4. accounts' = [accounts EXCEPT ![u] = row] \/ accounts' = accounts
    BY DEF Switch
  <1>5. accounts \in [Accounts -> Account] /\ row.exists = accounts[u].exists
    BY <1>2 DEF AccessInv, AccessTypeOK, Account
  <1>6. \A e \in Requests \ {d} : AtWork(e) /\ txn[e].user = u => u \in disturbed
    BY <1>1, <1>2, NobodyElse DEF AtWork
  <1> HIDE DEF row, u
  <1>7. accounts'[u].exists /\ \A v \in Accounts \ {u} : accounts'[v] = accounts[v]
    BY <1>2, <1>4, <1>5
  <1>8. \A v \in Accounts : /\ accounts[v].exists => accounts'[v].exists
                            /\ accounts'[v].exists \/ accounts'[v].active
    BY <1>7 DEF LockInv
  <1>9. \A e \in Requests \ {d} :
            AtWork(e) /\ txn[e].user \in Accounts \ disturbed'
            => accounts'[txn[e].user].active = accounts[txn[e].user].active
    BY <1>3, <1>6, <1>7
  <1> QED
    BY <1>3, <1>8, <1>9, LockStep

\* The requests that are one step, and those about the platform's switch.
LEMMA LockWhenElsewhere ==
  ASSUME AccessInv, LockInv, NEW d \in Requests,
         \/ CheckSetting(d)
         \/ \E t \in Tokens : Logout(d, t)
         \/ \E u \in Accounts : Approve(d, u) \/ UpdateProfile(d, u)
  PROVE  LockInv'
  <1>1. CASE CheckSetting(d)
    <2>1. PICK value \in BOOLEAN :
            txn' = [txn EXCEPT ![d] =
                       [Idle EXCEPT !.phase = "ready", !.op = "setting",
                                    !.loaded = setting, !.value = value]]
      BY <1>1 DEF CheckSetting
    <2>2. /\ txn'[d].user = Nobody /\ \A e \in Requests \ {d} : txn'[e] = txn[e]
      BY <2>1 DEF AccessInv, AccessTypeOK, Idle
    <2>3. accounts' = accounts /\ disturbed' = disturbed
      BY <1>1 DEF CheckSetting
    <2> QED
      BY <2>2, <2>3, AccessAssumption, LockRests
  <1>2. ASSUME NEW t \in Tokens, Logout(d, t) PROVE LockInv'
    <2>1. /\ txn' = txn /\ accounts' = accounts /\ disturbed \subseteq disturbed'
          /\ txn[d].phase = "idle"
      BY <1>2 DEF Logout, Touch
    <2> QED
      BY <2>1, LockRests DEF AtWork
  <1>3. ASSUME NEW u \in Accounts, Approve(d, u) \/ UpdateProfile(d, u) PROVE LockInv'
    <2>1. ~AtWork(d)' /\ (\A e \in Requests \ {d} : txn'[e] = txn[e])
          /\ disturbed \subseteq disturbed'
      <3> DEFINE sending == [Idle EXCEPT !.phase = "sending", !.user = u]
      <3>1. /\ txn' = txn \/ txn' = [txn EXCEPT ![d] = Idle] \/ txn' = [txn EXCEPT ![d] = sending]
            /\ txn[d].phase = "idle" /\ disturbed \subseteq disturbed'
        BY <1>3 DEF Approve, UpdateProfile, Touch
      <3>2. sending.phase = "sending"
        BY DEF Idle
      <3> HIDE DEF sending
      <3> QED
        BY <3>1, <3>2, IdleType DEF AtWork, AccessInv, AccessTypeOK
    <2>2. accounts \in [Accounts -> Account]
      BY DEF AccessInv, AccessTypeOK
    <2>3. ASSUME NEW v \in Accounts
          PROVE  /\ accounts[v].exists => accounts'[v].exists
                 /\ accounts'[v].active = accounts[v].active
      <3>1. CASE Approve(d, u)
        BY <2>2, <3>1 DEF Approve, Account
      <3>2. CASE UpdateProfile(d, u)
        <4>1. PICK phone \in {accounts[u].phone, TRUE} :
                 accounts' = [accounts EXCEPT ![u] = [accounts[u] EXCEPT !.phone = phone]]
          BY <3>2 DEF UpdateProfile
        <4> QED
          BY <2>2, <4>1 DEF Account
      <3> QED
        BY <1>3, <3>1, <3>2
    <2> QED
      BY <2>1, <2>3, LockRests
  <1> QED
    BY <1>1, <1>2, <1>3

LEMMA LockIsInductive ==
  AccessInv /\ LockInv /\ [AccessNext]_accessVars => LockInv'
  <1> SUFFICES ASSUME AccessInv, LockInv, [AccessNext]_accessVars PROVE LockInv'
    OBVIOUS
  <1>1. ASSUME NEW d \in Requests, Arrive(d) PROVE LockInv'
    BY <1>1, LockWhenChecked, LockWhenTokenChecked, LockWhenElsewhere DEF Arrive
  <1>2. ASSUME NEW d \in Requests, Proceed(d) PROVE LockInv'
    BY <1>2, LockWhenLooked, LockWhenDone, LockWhenSignedUp, LockWhenSwitched DEF Proceed
  <1>3. CASE Restart
    <2>1. accounts' = accounts /\ \A d \in Requests : txn'[d] = Idle
      BY <1>3 DEF Restart
    <2> QED
      BY <2>1, IdleType DEF LockInv, AtWork
  <1>4. CASE UNCHANGED accessVars
    BY <1>4 DEF accessVars, LockInv, LookHolds, AtWork
  <1> QED
    BY <1>1, <1>2, <1>3, <1>4 DEF AccessNext

\* The three steps that mint do so for an account that is not locked.
LEMMA MintsWhenActive ==
  ASSUME AccessInv, LockInv, [AccessNext]_accessVars,
         NEW t \in Tokens, tokens[t].owner = Nobody, tokens'[t].owner # Nobody,
         tokens'[t].owner \notin disturbed
  PROVE  accounts[tokens'[t].owner].active
  <1>1. ASSUME NEW d \in Requests, NEW u \in Accounts, NEW x \in Tokens, NEW sid,
               NEW revoked \in SUBSET Tokens, tokens' = Minted(x, u, sid, revoked),
               \A y \in revoked : tokens[y].owner = u
        PROVE  tokens'[t].owner = u
    <2>1. t \notin revoked
      BY <1>1, AccessAssumption
    <2>2. CASE t = x
      BY <1>1, <2>2 DEF Minted, Unminted
    <2>3. CASE t # x
      BY <1>1, <2>1, <2>3 DEF Minted
    <2> QED
      BY <2>2, <2>3
  <1>2. ASSUME NEW d \in Requests, SignIn(d) \/ SignUp(d) \/ Rotate(d)
        PROVE  accounts[tokens'[t].owner].active
    <2> DEFINE u == txn[d].user
    <2>1. /\ txn[d].phase = "ready" /\ txn[d].op \in {"login", "register", "refresh"}
          /\ u \in Accounts
      BY <1>2 DEF SignIn, SignUp, Rotate, Ready, AccessInv, WorkIsSound
    <2>2. txn[d].seen \in SUBSET Tokens /\ \A y \in txn[d].seen : tokens[y].owner = u
      BY <2>1 DEF AccessInv, AccessTypeOK, Txn, SeesItsOwn, AtWork
    <2>3. CASE SignIn(d)
      <3>1. PICK x \in Tokens : tokens' = Minted(x, u, x, txn[d].seen)
        BY <2>3 DEF SignIn
      <3>2. tokens'[t].owner = u
        BY <1>1, <2>1, <2>2, <3>1
      <3> QED
        BY <2>1, <2>3, <3>2 DEF SignIn, Ready, LockInv, LookHolds, AtWork
    <2>4. CASE SignUp(d)
      <3>1. PICK x \in Tokens : tokens' = Minted(x, u, x, {})
        BY <2>4 DEF SignUp
      <3>2. tokens'[t].owner = u
        BY <1>1, <2>1, <3>1
      <3> QED
        BY <2>1, <2>4, <3>2 DEF SignUp, EmailTaken, LockInv
    <2>5. CASE Rotate(d)
      <3>1. PICK x \in Tokens :
               tokens' = Minted(x, u, txn[d].row.session, {txn[d].token})
        BY <2>5 DEF Rotate
      <3>2. txn[d].token \in Tokens /\ tokens[txn[d].token].owner = u
        BY <2>1, <2>5 DEF Rotate, Ready, AccessInv, SeesItsOwn, AtWork
      <3>3. tokens'[t].owner = u
        BY <1>1, <2>1, <3>1, <3>2
      <3> QED
        BY <2>1, <2>5, <3>3 DEF Rotate, Ready, LockInv, LookHolds, AtWork
    <2> QED
      BY <1>2, <2>3, <2>4, <2>5
  <1>3. tokens[t] \in Token
    BY DEF AccessInv, AccessTypeOK
  <1>4. ASSUME NEW d \in Requests, Switch(d) PROVE FALSE
    <2>1. tokens'[t] \in {tokens[t], [tokens[t] EXCEPT !.revoked = TRUE]}
      BY <1>4 DEF Switch
    <2> QED
      BY <1>3, <2>1 DEF Token
  <1>5. ASSUME NEW d \in Requests, NEW x \in Tokens, Logout(d, x) PROVE FALSE
    BY <1>3, <1>5 DEF Logout, Token, AccessInv, AccessTypeOK
  <1>6. tokens' # tokens
    OBVIOUS
  <1>7. ASSUME NEW d \in Requests, Arrive(d) PROVE FALSE
    BY <1>5, <1>6, <1>7 DEF Arrive, CheckSignIn, CheckSignUp, CheckStaff, CheckReject,
       CheckSwitch, CheckToken, CheckSetting, Approve, UpdateProfile, Open
  <1>8. ASSUME NEW d \in Requests, Proceed(d)
        PROVE  SignIn(d) \/ SignUp(d) \/ Rotate(d)
    BY <1>4, <1>6, <1>8 DEF Proceed, LookSetting, LookTokens, LookAccount, Look,
       CreateStaff, Duplicate, WriteSetting, Send, Note
  <1>9. ~Restart /\ ~UNCHANGED accessVars
    BY <1>6 DEF Restart, accessVars
  <1> QED
    BY <1>2, <1>7, <1>8, <1>9 DEF AccessNext

\* A locked account is given no token, unless requests on it overlapped: the
\* is_active tests of login, sync_clerk_user and refresh hold until they mint.
THEOREM LockedIsShutOut == AccessSpec => LockedNeverMints
  <1>1. AccessInit => LockInv
    BY IdleType DEF AccessInit, LockInv, AtWork, Absent
  <1>2. AccessInv /\ LockInv /\ [AccessNext]_accessVars
        => [\A t \in Tokens :
               tokens[t].owner = Nobody /\ tokens'[t].owner # Nobody
               => accounts[tokens'[t].owner].active
                  \/ tokens'[t].owner \in disturbed]_accessVars
    BY MintsWhenActive
  <1> QED
    BY <1>1, <1>2, AccessInitially, AccessIsInductive, LockIsInductive, PTL
    DEF AccessSpec, LockedNeverMints

-----------------------------------------------------------------------------
(* One message for each name on the waitlist. *)

\* A message that was sent is noted, or its request is about to note it.
ToldInv ==
    /\ \A u \in Accounts : accounts[u].exists \/ messages[u] = 0
    /\ \A u \in Accounts \ disturbed :
           \/ messages[u] = 0
           \/ /\ messages[u] = 1
              /\ \/ accounts[u].told
                 \/ \E d \in Requests : txn[d].phase = "sent" /\ txn[d].user = u
    /\ \A d \in Requests : txn[d].phase \in {"sending", "sent"} =>
           /\ txn[d].user \in Accounts /\ accounts[txn[d].user].exists
           /\ txn[d].phase = "sending" /\ txn[d].user \notin disturbed
              => messages[txn[d].user] = 0

\* A step of d that neither begins, sends nor notes a message.
LEMMA ToldRests ==
  ASSUME ToldInv, NEW d \in Requests, messages' = messages,
         \A e \in Requests \ {d} : txn'[e] = txn[e],
         txn[d].phase \notin {"sending", "sent"},
         txn'[d].phase \notin {"sending", "sent"},
         disturbed \subseteq disturbed',
         \A u \in Accounts : accounts[u].exists =>
             accounts'[u].exists /\ (accounts[u].told => accounts'[u].told)
  PROVE  ToldInv'
  <1>1. ASSUME NEW u \in Accounts PROVE accounts'[u].exists \/ messages'[u] = 0
    BY DEF ToldInv
  <1>2. ASSUME NEW u \in Accounts \ disturbed', messages[u] # 0
        PROVE  /\ messages[u] = 1
               /\ \/ accounts'[u].told
                  \/ \E e \in Requests : txn'[e].phase = "sent" /\ txn'[e].user = u
    <2>1. messages[u] = 1 /\ accounts[u].exists
      BY <1>2 DEF ToldInv
    <2>2. CASE accounts[u].told
      BY <2>1, <2>2
    <2>3. CASE ~accounts[u].told
      <3>1. PICK e \in Requests : txn[e].phase = "sent" /\ txn[e].user = u
        BY <1>2, <2>3 DEF ToldInv
      <3> QED
        BY <2>1, <3>1
    <2> QED
      BY <2>2, <2>3
  <1>3. ASSUME NEW e \in Requests, txn'[e].phase \in {"sending", "sent"}
        PROVE  /\ txn'[e].user \in Accounts /\ accounts'[txn'[e].user].exists
               /\ txn'[e].phase = "sending" /\ txn'[e].user \notin disturbed'
                  => messages'[txn'[e].user] = 0
    <2>1. txn'[e] = txn[e]
      BY <1>3
    <2> QED
      BY <1>3, <2>1 DEF ToldInv
  <1> QED
    BY <1>1, <1>2, <1>3 DEF ToldInv

\* A request that begins.
LEMMA ToldWhenBegun ==
  ASSUME AccessInv, ToldInv, NEW d \in Requests, NEW new, Open(d, new),
         new.phase \in {"checked", "ready"}
  PROVE  ToldInv'
  <1>1. /\ txn' = [txn EXCEPT ![d] = new] /\ txn[d].phase = "idle"
        /\ accounts' = accounts /\ messages' = messages
        /\ disturbed \subseteq disturbed'
    BY DEF Open, Touch
  <1>2. txn'[d] = new /\ \A e \in Requests \ {d} : txn'[e] = txn[e]
    BY <1>1 DEF AccessInv, AccessTypeOK
  <1> QED
    BY <1>1, <1>2, ToldRests

LEMMA ToldWhenChecked ==
  ASSUME AccessInv, ToldInv, NEW d \in Requests,
         \/ \E u \in Accounts : \/ CheckSignIn(d, u) \/ CheckSignUp(d, u)
                                \/ CheckStaff(d, u) \/ CheckReject(d, u)
                                \/ CheckSwitch(d, u)
         \/ \E t \in Tokens : CheckToken(d, t)
  PROVE  ToldInv'
  <1>1. ASSUME NEW t \in Tokens, CheckToken(d, t) PROVE ToldInv'
    <2> DEFINE new == [Idle EXCEPT !.phase = "checked", !.op = "refresh",
                                   !.user = tokens[t].owner, !.token = t]
    <2>1. Open(d, new) /\ new.phase = "checked"
      BY <1>1 DEF CheckToken, Idle
    <2> HIDE DEF new
    <2> QED
      BY <2>1, ToldWhenBegun
  <1>2. ASSUME NEW u \in Accounts,
               \/ CheckSignIn(d, u) \/ CheckSignUp(d, u) \/ CheckStaff(d, u)
               \/ CheckReject(d, u) \/ CheckSwitch(d, u)
        PROVE  ToldInv'
    <2>1. PICK new : /\ Open(d, new) /\ new.user = u
                     /\ new.phase \in {"checked", "ready"} /\ new.op # "refresh"
                     /\ new.op \in Switches => accounts[u].exists
                     /\ new.op = "login" => accounts[u].active
      BY <1>2, ChecksOpen DEF Checks, Opened
    <2> QED
      BY <2>1, ToldWhenBegun
  <1> QED
    BY <1>1, <1>2

\* The steps that move on in a request, or end it, without an account or a message.
LEMMA ToldWhenWorking ==
  ASSUME AccessInv, ToldInv, NEW d \in Requests,
         \/ CheckSetting(d)
         \/ LookSetting(d) \/ LookTokens(d) \/ LookAccount(d)
         \/ Duplicate(d) \/ Rotate(d) \/ WriteSetting(d)
  PROVE  ToldInv'
  <1>1. /\ accounts' = accounts /\ messages' = messages /\ disturbed' = disturbed
        /\ txn[d].phase \notin {"sending", "sent"}
    BY DEF CheckSetting, LookSetting, LookTokens, LookAccount, Look,
           Duplicate, Rotate, WriteSetting, Ready
  <1>2. PICK new : txn' = [txn EXCEPT ![d] = new] /\ new.phase \in {"ready", "idle"}
    <2>0. txn[d] \in Txn
      BY DEF AccessInv, AccessTypeOK
    <2>1. CASE CheckSetting(d)
      <3>1. PICK value \in BOOLEAN :
              txn' = [txn EXCEPT ![d] =
                         [Idle EXCEPT !.phase = "ready", !.op = "setting",
                                      !.loaded = setting, !.value = value]]
        BY <2>1 DEF CheckSetting
      <3> DEFINE new == [Idle EXCEPT !.phase = "ready", !.op = "setting",
                                     !.loaded = setting, !.value = value]
      <3>2. new.phase = "ready" /\ txn' = [txn EXCEPT ![d] = new]
        BY <3>1 DEF Idle
      <3> HIDE DEF new
      <3> QED
        BY <3>2
    <2>2. CASE LookSetting(d)
      <3> DEFINE new == [txn[d] EXCEPT !.phase = "ready",
                                       !.row.approved = OpenRegistration]
      <3>1. new.phase = "ready" /\ txn' = [txn EXCEPT ![d] = new]
        BY <2>0, <2>2 DEF LookSetting, Look, Txn
      <3> HIDE DEF new
      <3> QED
        BY <3>1
    <2>5. CASE LookTokens(d)
      <3> DEFINE new == [txn[d] EXCEPT !.phase = "ready", !.seen = Live(txn[d].user)]
      <3>1. new.phase = "ready" /\ txn' = [txn EXCEPT ![d] = new]
        BY <2>0, <2>5 DEF LookTokens, Look, Txn
      <3> HIDE DEF new
      <3> QED
        BY <3>1
    <2>3. CASE LookAccount(d)
      <3> DEFINE new == [txn[d] EXCEPT !.phase = "ready",
                                       !.row.session = accounts[txn[d].user].session]
      <3>1. txn' = [txn EXCEPT ![d] = new] \/ txn' = [txn EXCEPT ![d] = Idle]
        BY <2>3 DEF LookAccount, Look
      <3>2. new.phase = "ready"
        BY <2>0 DEF Txn
      <3> HIDE DEF new
      <3> QED
        BY <3>1, <3>2, IdleType
    <2>4. CASE Duplicate(d) \/ Rotate(d) \/ WriteSetting(d)
      BY <2>4, IdleType DEF Duplicate, Rotate, WriteSetting, Done
    <2> QED
      BY <2>1, <2>2, <2>3, <2>4, <2>5
  <1>3. txn'[d] = new /\ \A e \in Requests \ {d} : txn'[e] = txn[e]
    BY <1>2 DEF AccessInv, AccessTypeOK
  <1> QED
    BY <1>1, <1>2, <1>3, ToldRests

\* The steps that write an account or a token, and none of them a note.
LEMMA ToldWhenWritten ==
  ASSUME AccessInv, ToldInv, NEW d \in Requests,
         \/ SignIn(d) \/ CreateStaff(d) \/ Switch(d)
         \/ \E t \in Tokens : Logout(d, t)
         \/ \E u \in Accounts : Approve(d, u)
  PROVE  ToldInv'
  <1>1. messages' = messages /\ disturbed \subseteq disturbed'
    BY DEF SignIn, CreateStaff, Switch, Logout, Approve, Touch
  <1>2. /\ txn[d].phase \notin {"sending", "sent"}
        /\ txn' = txn \/ txn' = [txn EXCEPT ![d] = Idle]
    BY DEF SignIn, CreateStaff, Switch, Logout, Approve, Ready, Done
  <1>3. /\ \A e \in Requests \ {d} : txn'[e] = txn[e]
        /\ txn'[d].phase \notin {"sending", "sent"}
    BY <1>2, IdleType DEF AccessInv, AccessTypeOK
  <1>4. accounts \in [Accounts -> Account]
    BY DEF AccessInv, AccessTypeOK
  <1>5. ASSUME NEW v \in Accounts, accounts[v].exists
        PROVE  accounts'[v].exists /\ (accounts[v].told => accounts'[v].told)
    <2>1. CASE SignIn(d)
      <3>1. PICK t \in Tokens : accounts' = [accounts EXCEPT ![txn[d].user].session = t]
        BY <2>1 DEF SignIn
      <3> QED
        BY <1>4, <1>5, <3>1 DEF Account
    <2>2. CASE CreateStaff(d)
      BY <1>4, <1>5, <2>2 DEF CreateStaff, Account
    <2>3. CASE Switch(d)
      <3>1. \/ accounts' = accounts
            \/ accounts' = [accounts EXCEPT ![txn[d].user].active = txn[d].value]
        BY <2>3 DEF Switch
      <3> QED
        BY <1>4, <1>5, <3>1 DEF Account
    <2>4. CASE \E t \in Tokens : Logout(d, t)
      BY <1>5, <2>4 DEF Logout
    <2>5. CASE \E u \in Accounts : Approve(d, u)
      BY <1>4, <1>5, <2>5 DEF Approve, Account
    <2> QED
      BY <2>1, <2>2, <2>3, <2>4, <2>5
  <1> QED
    BY <1>1, <1>2, <1>3, <1>5, ToldRests

\* A request of u begins or ends here, perhaps with a message to send; nothing
\* was sent of u yet, unless u is disturbed or the request sends nothing.
LEMMA ToldStarts ==
  ASSUME AccessInv, ToldInv, NEW d \in Requests, NEW u \in Accounts,
         messages' = messages, disturbed \subseteq disturbed',
         txn[d].phase \notin {"sending", "sent"},
         \A e \in Requests \ {d} : txn'[e] = txn[e],
         \/ txn'[d].phase = "idle"
         \/ /\ txn'[d].phase = "sending" /\ txn'[d].user = u
            /\ u \notin disturbed' => messages[u] = 0,
         \A v \in Accounts \ {u} : accounts'[v] = accounts[v],
         accounts'[u].exists,
         messages[u] = 0 \/ (accounts[u].told => accounts'[u].told)
  PROVE  ToldInv'
  <1>1. ASSUME NEW v \in Accounts PROVE accounts'[v].exists \/ messages'[v] = 0
    BY DEF ToldInv
  <1>2. ASSUME NEW v \in Accounts \ disturbed', messages[v] # 0
        PROVE  /\ messages[v] = 1
               /\ \/ accounts'[v].told
                  \/ \E e \in Requests : txn'[e].phase = "sent" /\ txn'[e].user = v
    <2>1. messages[v] = 1
      BY <1>2 DEF ToldInv
    <2>2. CASE accounts[v].told
      BY <1>2, <2>1, <2>2
    <2>3. CASE ~accounts[v].told
      <3>1. PICK e \in Requests : txn[e].phase = "sent" /\ txn[e].user = v
        BY <1>2, <2>3 DEF ToldInv
      <3> QED
        BY <2>1, <3>1
    <2> QED
      BY <2>2, <2>3
  <1>3. ASSUME NEW e \in Requests, txn'[e].phase \in {"sending", "sent"}
        PROVE  /\ txn'[e].user \in Accounts /\ accounts'[txn'[e].user].exists
               /\ txn'[e].phase = "sending" /\ txn'[e].user \notin disturbed'
                  => messages'[txn'[e].user] = 0
    <2>1. CASE e = d
      BY <1>3, <2>1
    <2>2. CASE e # d
      BY <1>3, <2>2 DEF ToldInv
    <2> QED
      BY <2>1, <2>2
  <1> QED
    BY <1>1, <1>2, <1>3 DEF ToldInv

LEMMA ToldWhenSignedUp ==
  ASSUME AccessInv, ToldInv, NEW d \in Requests, SignUp(d)
  PROVE  ToldInv'
  <1> DEFINE u == txn[d].user
             sending == [Idle EXCEPT !.phase = "sending", !.user = u]
  <1>1. u \in Accounts /\ txn[d].phase = "ready"
    BY DEF SignUp, Ready, AccessInv, WorkIsSound
  <1>2. PICK t \in Tokens : accounts' = [accounts EXCEPT ![u] =
                                [txn[d].row EXCEPT !.exists = TRUE, !.session = t]]
    BY DEF SignUp
  <1>3. txn[d].row \in Account /\ accounts \in [Accounts -> Account]
    BY DEF AccessInv, AccessTypeOK, Txn
  <1>4. accounts'[u].exists /\ \A v \in Accounts \ {u} : accounts'[v] = accounts[v]
    BY <1>1, <1>2, <1>3 DEF Account
  <1>5. messages[u] = 0
    BY <1>1 DEF SignUp, EmailTaken, ToldInv
  <1>6. /\ txn' = [txn EXCEPT ![d] = sending] \/ txn' = [txn EXCEPT ![d] = Idle]
        /\ messages' = messages /\ disturbed' = disturbed
    BY DEF SignUp, NotifyOrDone
  <1>7. sending.phase = "sending" /\ sending.user = u
    BY DEF Idle
  <1> HIDE DEF sending
  <1>8. /\ \A e \in Requests \ {d} : txn'[e] = txn[e]
        /\ txn'[d] \in {sending, Idle}
    BY <1>6 DEF AccessInv, AccessTypeOK
  <1> HIDE DEF u
  <1> QED
    BY <1>1, <1>4, <1>5, <1>6, <1>7, <1>8, IdleType, ToldStarts

LEMMA ToldWhenSaved ==
  ASSUME AccessInv, ToldInv, NEW d \in Requests, NEW u \in Accounts,
         UpdateProfile(d, u)
  PROVE  ToldInv'
  <1> DEFINE sending == [Idle EXCEPT !.phase = "sending", !.user = u]
  <1>1. PICK phone \in {accounts[u].phone, TRUE} :
          /\ accounts' = [accounts EXCEPT ![u] = [accounts[u] EXCEPT !.phone = phone]]
          /\ txn' = [txn EXCEPT ![d] =
                        IF NeedsTelling([accounts[u] EXCEPT !.phone = phone])
                        THEN sending ELSE Idle]
    BY DEF UpdateProfile
  <1> DEFINE row == [accounts[u] EXCEPT !.phone = phone]
  <1>2. accounts \in [Accounts -> Account] /\ accounts[u].exists
    <2>1. PICK t \in Tokens : tokens[t].owner = u
      BY DEF UpdateProfile, Accepts
    <2> QED
      BY <2>1 DEF AccessInv, AccessTypeOK, TokensOwned
  <1>3. row.exists /\ row.told = accounts[u].told
    BY <1>2 DEF Account
  <1>4. /\ txn[d].phase = "idle" /\ messages' = messages
        /\ disturbed' = IF Meets(d, u) THEN disturbed \cup {u} ELSE disturbed
    BY DEF UpdateProfile, Touch
  <1>5. sending.phase = "sending" /\ sending.user = u
    BY DEF Idle
  <1> HIDE DEF sending, row
  <1>6. /\ accounts'[u] = row /\ \A v \in Accounts \ {u} : accounts'[v] = accounts[v]
        /\ \A e \in Requests \ {d} : txn'[e] = txn[e]
        /\ txn'[d] = IF NeedsTelling(row) THEN sending ELSE Idle
    BY <1>1, <1>2 DEF row, AccessInv, AccessTypeOK
  <1>7. ASSUME NeedsTelling(row), u \notin disturbed' PROVE messages[u] = 0
    <2>1. ~accounts[u].told
      BY <1>3, <1>7 DEF NeedsTelling
    <2>2. ~Meets(d, u) /\ u \notin disturbed
      BY <1>4, <1>7
    <2>3. \A e \in Requests : ~(txn[e].phase = "sent" /\ txn[e].user = u)
      BY <1>4, <2>2 DEF Meets
    <2> QED
      BY <2>1, <2>2, <2>3 DEF ToldInv
  <1>8. disturbed \subseteq disturbed'
    BY <1>4
  <1> QED
    BY <1>3, <1>4, <1>5, <1>6, <1>7, <1>8, IdleType, ToldStarts

LEMMA ToldWhenSent ==
  ASSUME AccessInv, ToldInv, NEW d \in Requests, Send(d) \/ Note(d)
  PROVE  ToldInv'
  <1> DEFINE u == txn[d].user
  <1>1. u \in Accounts /\ accounts[u].exists /\ txn[d].phase \in {"sending", "sent"}
    BY DEF Send, Note, ToldInv
  <1>2. /\ accounts \in [Accounts -> Account] /\ messages \in [Accounts -> 0..2]
        /\ txn[d] \in Txn /\ txn \in [Requests -> Txn]
    BY DEF AccessInv, AccessTypeOK
  <1>3. \A e \in Requests \ {d} : txn[e].phase # "idle" /\ txn[e].user = u
                               => u \in disturbed
    BY <1>1, NobodyElse
  <1>4. CASE Send(d)
    <2> DEFINE new == [txn[d] EXCEPT !.phase = "sent"]
    <2>1. new.phase = "sent" /\ new.user = u
      BY <1>2 DEF Txn
    <2>2. /\ txn' = [txn EXCEPT ![d] = new] /\ txn[d].phase = "sending"
          /\ accounts' = accounts /\ disturbed' = disturbed
          /\ messages' = [messages EXCEPT ![u] = IF @ = 0 THEN 1 ELSE 2]
      BY <1>4 DEF Send
    <2>3. u \notin disturbed => messages[u] = 0
      BY <1>1, <2>2 DEF ToldInv
    <2> HIDE DEF new, u
    <2>4. /\ txn'[d] = new /\ \A e \in Requests \ {d} : txn'[e] = txn[e]
          /\ u \notin disturbed => messages'[u] = 1
          /\ \A v \in Accounts \ {u} : messages'[v] = messages[v]
      BY <1>1, <1>2, <2>2, <2>3
    <2>5. ASSUME NEW v \in Accounts PROVE accounts'[v].exists \/ messages'[v] = 0
      BY <1>1, <2>2, <2>4 DEF ToldInv
    <2>6. ASSUME NEW v \in Accounts \ disturbed, messages'[v] # 0
          PROVE  /\ messages'[v] = 1
                 /\ \/ accounts'[v].told
                    \/ \E e \in Requests : txn'[e].phase = "sent" /\ txn'[e].user = v
      <3>1. CASE v = u
        BY <2>1, <2>4, <2>6, <3>1
      <3>2. CASE v # u
        <4>1. \/ accounts[v].told
              \/ \E e \in Requests : txn[e].phase = "sent" /\ txn[e].user = v
          BY <2>4, <2>6, <3>2 DEF ToldInv
        <4>2. messages'[v] = 1
          BY <2>4, <2>6, <3>2 DEF ToldInv
        <4>3. \A e \in Requests : txn[e].phase = "sent" => txn'[e] = txn[e]
          BY <2>2, <2>4
        <4> QED
          BY <2>2, <4>1, <4>2, <4>3
      <3> QED
        BY <3>1, <3>2
    <2>7. ASSUME NEW e \in Requests, txn'[e].phase \in {"sending", "sent"}
          PROVE  /\ txn'[e].user \in Accounts /\ accounts'[txn'[e].user].exists
                 /\ txn'[e].phase = "sending" /\ txn'[e].user \notin disturbed'
                    => messages'[txn'[e].user] = 0
      <3>1. CASE e = d
        BY <1>1, <2>1, <2>2, <2>4, <3>1
      <3>2. CASE e # d
        BY <1>3, <2>2, <2>4, <2>7, <3>2 DEF ToldInv
      <3> QED
        BY <3>1, <3>2
    <2> QED
      BY <2>2, <2>5, <2>6, <2>7 DEF ToldInv
  <1>5. CASE Note(d)
    <2>1. /\ accounts' = [accounts EXCEPT ![u].told = TRUE]
          /\ txn' = [txn EXCEPT ![d] = Idle]
          /\ messages' = messages /\ disturbed' = disturbed
      BY <1>5 DEF Note, Noted, Done
    <2> HIDE DEF u
    <2>2. /\ txn'[d] = Idle /\ \A e \in Requests \ {d} : txn'[e] = txn[e]
          /\ \A v \in Accounts : /\ accounts'[v].exists = accounts[v].exists
                                 /\ accounts[v].told => accounts'[v].told
          /\ accounts'[u].told
      BY <1>1, <1>2, <2>1 DEF Account
    <2>3. ASSUME NEW v \in Accounts \ disturbed, messages[v] # 0
          PROVE  /\ messages[v] = 1
                 /\ \/ accounts'[v].told
                    \/ \E e \in Requests : txn'[e].phase = "sent" /\ txn'[e].user = v
      <3>1. messages[v] = 1
        BY <2>3 DEF ToldInv
      <3>2. CASE v = u \/ accounts[v].told
        BY <2>2, <3>1, <3>2
      <3>3. CASE v # u /\ ~accounts[v].told
        <4>1. PICK e \in Requests : txn[e].phase = "sent" /\ txn[e].user = v
          BY <2>3, <3>3 DEF ToldInv
        <4>2. e # d
          BY <3>3, <4>1 DEF u
        <4> QED
          BY <2>2, <3>1, <4>1, <4>2
      <3> QED
        BY <3>2, <3>3
    <2>4. ASSUME NEW e \in Requests, txn'[e].phase \in {"sending", "sent"}
          PROVE  /\ txn'[e].user \in Accounts /\ accounts'[txn'[e].user].exists
                 /\ txn'[e].phase = "sending" /\ txn'[e].user \notin disturbed'
                    => messages'[txn'[e].user] = 0
      <3>1. txn'[e] = txn[e]
        BY <2>2, <2>4, IdleType
      <3> QED
        BY <2>1, <2>2, <2>4, <3>1 DEF ToldInv
    <2>5. ASSUME NEW v \in Accounts PROVE accounts'[v].exists \/ messages'[v] = 0
      BY <2>1, <2>2 DEF ToldInv
    <2> QED
      BY <2>1, <2>3, <2>4, <2>5 DEF ToldInv
  <1> QED
    BY <1>4, <1>5

LEMMA ToldIsInductive ==
  AccessInv /\ ToldInv /\ [AccessNext]_accessVars => ToldInv'
  <1> SUFFICES ASSUME AccessInv, ToldInv, [AccessNext]_accessVars PROVE ToldInv'
    OBVIOUS
  <1>1. ASSUME NEW d \in Requests, Arrive(d) PROVE ToldInv'
    BY <1>1, ToldWhenChecked, ToldWhenWorking, ToldWhenWritten, ToldWhenSaved DEF Arrive
  <1>2. ASSUME NEW d \in Requests, Proceed(d) PROVE ToldInv'
    BY <1>2, ToldWhenWorking, ToldWhenWritten, ToldWhenSignedUp, ToldWhenSent DEF Proceed
  <1>3. CASE Restart
    <2>1. /\ accounts' = accounts /\ messages' = messages
          /\ \A d \in Requests : txn'[d] = Idle
          /\ disturbed' = disturbed \cup {u \in Accounts : \E d \in Requests :
                 txn[d].phase = "sent" /\ txn[d].user = u}
      BY <1>3 DEF Restart
    <2>2. \A d \in Requests : txn'[d].phase = "idle"
      BY <2>1, IdleType
    <2>3. ASSUME NEW u \in Accounts \ disturbed'
          PROVE  messages[u] = 0 \/ (messages[u] = 1 /\ accounts[u].told)
      BY <2>1 DEF ToldInv
    <2> QED
      BY <2>1, <2>2, <2>3 DEF ToldInv
  <1>4. CASE UNCHANGED accessVars
    BY <1>4 DEF accessVars, ToldInv
  <1> QED
    BY <1>1, <1>2, <1>3, <1>4 DEF AccessNext

\* The platform hears of a name once, unless requests of the account met or a
\* restart came between message and note (_notify_waitlist_if_needed).
THEOREM ToldOnce == AccessSpec => []WaitlistToldOnce
  <1>1. AccessInit => ToldInv
    BY IdleType DEF AccessInit, ToldInv
  <1>2. ToldInv => WaitlistToldOnce
    BY DEF ToldInv, WaitlistToldOnce
  <1> QED
    BY <1>1, <1>2, AccessInitially, AccessIsInductive, ToldIsInductive, PTL
    DEF AccessSpec
=============================================================================
