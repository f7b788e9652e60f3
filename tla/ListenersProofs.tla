---------------------------- MODULE ListenersProofs ----------------------------
(* The proofs about accounts and what a deletion leaves, for any users,        *)
(* addresses, limits and number of requests under way. First the accounts and  *)
(* their credentials, then what is left of an account that is deleted, then    *)
(* the table of failed sign-ins, then the sittings and completions that are    *)
(* recorded; each part ends with its theorems.                                 *)
EXTENDS Listeners, FiniteSetTheorems, TLAPS

--------------------------------------------------------------------------------
(* What is where.                                                              *)

\* The steps a request of each kind goes through.
Course(op) ==
  CASE op = "none" -> {"idle"}
    [] op = "signIn" -> {"admitted", "verified", "issuing", "sessions", "publish"}
    [] op = "change" -> {"users", "sessions", "publish", "agents"}
    [] op = "delete" -> {"users", "sessions", "publish", "agents", "places", "forget", "purge"}
    [] op \in {"role", "create"} -> {"users"}
    [] op = "agent" -> {"asked", "agents"}
    [] op = "signOut" -> {"sessions", "publish"}
    [] OTHER -> {"store", "activity", "fold", "rows", "complete"}

Ops == {"none", "signIn", "change", "delete", "role", "create", "agent", "signOut", "checkpoint"}

Fielded(q) ==
  DOMAIN q = {"op", "at", "user", "by", "boss", "session", "pw", "role", "name", "address",
              "runs", "index", "work"}

RequestShaped(q) ==
  /\ Fielded(q)
  /\ q.op \in Ops /\ q.at \in Course(q.op)
  /\ q.pw \in Int
  /\ q.op = "change" /\ q.at = "agents" => ~Self(q)
  /\ q.op \in {"change", "delete", "role", "create", "agent"} => q.user \in Users
  /\ q.op = "signIn" => q.at = "admitted" \/ q.user \in Users
  /\ q.op = "agent" => q.user = q.by
  /\ q.op = "delete" => q.by # q.user
  /\ q.op = "checkpoint" =>
       /\ DOMAIN q.work = {"spot", "seek", "at", "heard", "finished", "rows"}
       /\ \A row \in q.work.rows : row.user = q.by

AccountShaped(a) ==
  /\ DOMAIN a = {"role", "pw", "reset"}
  /\ a.pw \in Nat /\ a.reset \in Nat /\ a.pw < serial /\ a.reset <= a.pw

TableShaped(t) ==
  /\ DOMAIN t \subseteq Users
  /\ \A u \in DOMAIN t : AccountShaped(t[u])

SessionShaped(s) ==
  /\ DOMAIN s = {"n", "user", "at", "pw"}
  /\ s.pw \in Int /\ s.user \in Users

AgentShaped(t) ==
  /\ DOMAIN t = {"n", "user", "pw"}
  /\ t.pw \in Int /\ t.user \in Users

Shaped ==
  /\ serial \in Nat
  /\ DOMAIN requests = Requests
  /\ requests = [r \in Requests |-> requests[r]]
  /\ \A r \in Requests : RequestShaped(requests[r])
  /\ users = [mem |-> users.mem, disk |-> users.disk]
  /\ TableShaped(users.mem) /\ TableShaped(users.disk)
  /\ sessions = [mem |-> sessions.mem, disk |-> sessions.disk]
  /\ \A s \in sessions.mem \cup sessions.disk : SessionShaped(s)
  /\ agents = [mem |-> agents.mem, disk |-> agents.disk]
  /\ \A t \in agents.mem \cup agents.disk : AgentShaped(t)

\* Sittings under their listeners.
SittingShaped(x, u) ==
  /\ DOMAIN x = {"id", "user", "ended", "heard", "flushed", "interval", "dirty"}
  /\ x.user = u

OpenInv == \A u \in DOMAIN open : SittingShaped(open[u], u)

LinkInv ==
  /\ gate # None => gate \in Requests /\ requests[gate].at = "publish"
  /\ \A r \in Requests : requests[r].at = "publish" =>
       gate = r /\ requests[r].index = Numbers(sessions.mem)
  /\ LinksFollowSessions

\* Requests that issue or withdraw a credential hold the lock for it.
Issuing(q) ==
  \/ q.op = "change" /\ q.at # "users"
  \/ q.op = "signIn" /\ q.at \in {"sessions", "publish"}
  \/ q.op = "agent" /\ q.at = "agents"

LockInv == \A r \in Requests : Issuing(requests[r]) => issuance = r

\* Ids that have an account, or had one, and ids that may come to have one.
Seen ==
  DOMAIN users.mem \cup DOMAIN users.disk
    \cup {s.user : s \in sessions.mem \cup sessions.disk}
    \cup {t.user : t \in agents.mem \cup agents.disk}
    \cup {requests[r].user : r \in {x \in Requests : /\ requests[x].op = "signIn"
                                                     /\ requests[x].at # "admitted"}}
    \cup {requests[r].by : r \in {x \in Requests : requests[x].op = "agent"}}

IsCreating(r) == requests[r].op = "create"

NewInv ==
  /\ Seen \subseteq used
  /\ \A r \in Requests : IsCreating(r) =>
       /\ requests[r].user \in used /\ requests[r].user \notin Seen
       /\ \A x \in Requests : IsCreating(x) /\ requests[x].user = requests[r].user => x = r

Replacing(u) ==
  \E r \in Requests : /\ requests[r].op = "change" /\ requests[r].at = "sessions"
                      /\ requests[r].user = u
Resetting(u) ==
  \E r \in Requests : /\ requests[r].op = "change" /\ requests[r].at # "users"
                      /\ requests[r].user = u /\ ~Self(requests[r])

\* The account, in memory and on disk, is the one that has this password.
HasPassword(t, u, pw) == u \in DOMAIN t => t[u].pw = pw
IsPassword(u, pw) == HasPassword(users.mem, u, pw) /\ HasPassword(users.disk, u, pw)
IsAfterReset(u, pw) ==
  /\ u \in DOMAIN users.mem => pw >= users.mem[u].reset
  /\ u \in DOMAIN users.disk => pw >= users.disk[u].reset

Agreed(u) ==
  u \in DOMAIN users.mem /\ u \in DOMAIN users.disk =>
    users.mem[u].pw = users.disk[u].pw /\ users.mem[u].reset = users.disk[u].reset

CopiesInv == \A u \in Users \ halfway : Agreed(u)

SessionInv ==
  \A s \in sessions.mem \cup sessions.disk :
    s.user \in halfway \/ Replacing(s.user) \/ IsPassword(s.user, s.pw)

AgentInv ==
  /\ \A t \in agents.mem \cup agents.disk :
       t.user \in halfway \/ Resetting(t.user) \/ IsAfterReset(t.user, t.pw)
  /\ \A t \in agents.disk \ agents.mem : t.user \in halfway

\* What a request that issues or withdraws a credential relies on.
Ongoing(q) ==
  /\ q.op = "signIn" /\ q.at = "sessions" => q.user \in halfway \/ IsPassword(q.user, q.pw)
  /\ q.op = "agent" /\ q.at = "agents" => q.user \in halfway \/ IsAfterReset(q.user, q.pw)
  /\ q.op = "change" /\ q.at # "users" => Agreed(q.user)
  /\ q.op = "change" /\ q.at \in {"publish", "agents"} /\ ~Self(q) =>
       \A s \in sessions.mem \cup sessions.disk : s.user # q.user

OngoingInv == \A r \in Requests : Ongoing(requests[r])

AccountInv ==
  /\ Shaped /\ LinkInv /\ LockInv /\ NewInv
  /\ CopiesInv /\ SessionInv /\ AgentInv /\ OngoingInv

--------------------------------------------------------------------------------
(* Records.                                                                    *)

\* A request with another step, or another user and step.
LEMMA MovedRequest ==
  ASSUME NEW q, RequestShaped(q), NEW at
  PROVE  LET m == [q EXCEPT !.at = at] IN
         /\ Fielded(m)
         /\ m.at = at /\ m.op = q.op /\ m.user = q.user /\ m.by = q.by /\ m.boss = q.boss
         /\ m.session = q.session /\ m.pw = q.pw /\ m.role = q.role /\ m.index = q.index
         /\ m.work = q.work
BY DEF RequestShaped, Fielded

\* A free slot is a well-formed request.
LEMMA IdleRequest == RequestShaped(Idle) /\ Idle.op = "none" /\ Idle.at = "idle" /\ Idle.by = None
                     /\ Idle.user = None
BY DEF RequestShaped, Fielded, Idle, Course, Ops, Wrong

\* One request changes.
LEMMA OneRequest ==
  ASSUME Shaped, NEW r \in Requests, NEW q, requests' = [requests EXCEPT ![r] = q]
  PROVE  /\ DOMAIN requests' = Requests
         /\ requests' = [x \in Requests |-> requests'[x]]
         /\ requests'[r] = q
         /\ \A x \in Requests : x # r => requests'[x] = requests[x]
BY DEF Shaped

--------------------------------------------------------------------------------
(* Steps that leave the stores and the locks alone.                            *)

storeVars == <<users, sessions, agents, links, gate, issuance, halfway, unpublished, used>>

\* The request that changes has no part in a change of credentials.
Minor(p, q) ==
  /\ p.at # "publish" /\ q.at # "publish"
  /\ ~Issuing(p) /\ ~Issuing(q)
  /\ q.op # "create"
  /\ q.op = "signIn" => q.at = "admitted" \/ q.user \in Seen
  /\ q.op = "agent" => q.by \in Seen

\* Accounts stay well formed as numbers are used up.
LEMMA SerialGrows ==
  ASSUME NEW t, TableShaped(t), serial \in Nat, serial' \in Nat, serial' >= serial
  PROVE  /\ DOMAIN t \subseteq Users
         /\ \A u \in DOMAIN t : /\ DOMAIN t[u] = {"role", "pw", "reset"}
                                /\ t[u].pw \in Nat /\ t[u].reset \in Nat
                                /\ t[u].pw < serial' /\ t[u].reset <= t[u].pw
BY DEF TableShaped, AccountShaped

\* The stores stay well formed as long as they stay.
LEMMA StoresStayShaped ==
  ASSUME Shaped, serial' \in Nat, serial' >= serial, UNCHANGED <<users, sessions, agents>>,
         DOMAIN requests' = Requests, requests' = [x \in Requests |-> requests'[x]],
         \A x \in Requests : RequestShaped(requests'[x])
  PROVE  Shaped'
<1>1. TableShaped(users.mem)'
  BY SerialGrows DEF TableShaped, AccountShaped, Shaped
<1>2. TableShaped(users.disk)'
  BY SerialGrows DEF TableShaped, AccountShaped, Shaped
<1> QED BY <1>1, <1>2 DEF Shaped

\* Steps that change no credential, of requests that hold none.
LEMMA SmallSteps ==
  ASSUME AccountInv, UNCHANGED storeVars, serial' \in Nat, serial' >= serial,
         NEW r \in Requests, NEW q, requests' = [requests EXCEPT ![r] = q],
         RequestShaped(q), Minor(requests[r], q)
  PROVE  AccountInv'
<1>0. /\ UNCHANGED <<users, sessions, agents, links, gate, issuance, halfway, unpublished, used>>
      /\ DOMAIN requests' = Requests /\ requests' = [x \in Requests |-> requests'[x]]
      /\ requests'[r] = q /\ \A x \in Requests : x # r => requests'[x] = requests[x]
  BY OneRequest DEF AccountInv, storeVars
<1>1. Shaped'
  <2>1. \A x \in Requests : RequestShaped(requests'[x])
    BY <1>0 DEF AccountInv, Shaped
  <2> QED BY <1>0, <2>1, StoresStayShaped DEF AccountInv
<1>2. LinkInv'
  BY <1>0 DEF AccountInv, LinkInv, Minor, LinksFollowSessions, Numbers
<1>3. LockInv'
  BY <1>0 DEF AccountInv, LockInv, Minor
<1>4. Seen' \subseteq Seen
  BY <1>0 DEF Seen, Minor
<1>5. NewInv'
  BY <1>0, <1>4 DEF AccountInv, NewInv, IsCreating, Minor
<1>6. CopiesInv'
  BY <1>0 DEF AccountInv, CopiesInv, Agreed
<1>7. \A u \in Users : Replacing(u) => Replacing(u)'
  BY <1>0 DEF Replacing, Minor, Issuing
<1>8. \A u \in Users : Resetting(u) => Resetting(u)'
  BY <1>0 DEF Resetting, Minor, Issuing
<1>9. \A s \in sessions.mem \cup sessions.disk : s.user \in Users
  BY DEF AccountInv, Shaped, SessionShaped
<1>10. \A t \in agents.mem \cup agents.disk : t.user \in Users
  BY DEF AccountInv, Shaped, AgentShaped
<1>11. SessionInv'
  BY <1>0, <1>7, <1>9 DEF AccountInv, SessionInv, IsPassword, HasPassword
<1>12. AgentInv'
  BY <1>0, <1>8, <1>10 DEF AccountInv, AgentInv, IsAfterReset
<1>13. OngoingInv'
  BY <1>0 DEF AccountInv, OngoingInv, Ongoing, Minor, Issuing, IsPassword, HasPassword, IsAfterReset, Agreed
<1> QED BY <1>1, <1>2, <1>3, <1>5, <1>6, <1>11, <1>12, <1>13 DEF AccountInv

\* Nothing of all this changes.
LEMMA NoSteps ==
  ASSUME AccountInv, UNCHANGED storeVars, UNCHANGED <<requests, serial>>
  PROVE  AccountInv'
<1>0. UNCHANGED <<users, sessions, agents, links, gate, issuance, halfway, unpublished, used>>
  BY DEF storeVars
<1>1. Shaped'
  BY <1>0 DEF AccountInv, Shaped, TableShaped, AccountShaped
<1>2. LinkInv' /\ LockInv'
  BY <1>0 DEF AccountInv, LinkInv, LinksFollowSessions, Numbers, LockInv
<1>3. NewInv'
  BY <1>0 DEF AccountInv, NewInv, Seen, IsCreating
<1>4. CopiesInv' /\ OngoingInv'
  BY <1>0 DEF AccountInv, CopiesInv, OngoingInv, Ongoing, Agreed, IsPassword, HasPassword, IsAfterReset
<1>5. SessionInv' /\ AgentInv'
  BY <1>0 DEF AccountInv, SessionInv, AgentInv, Replacing, Resetting, IsPassword, HasPassword, IsAfterReset
<1> QED BY <1>1, <1>2, <1>3, <1>4, <1>5 DEF AccountInv

--------------------------------------------------------------------------------
(* The steps before a write, and of what a deletion and a checkpoint do to the *)
(* reading log.                                                                *)

\* A new request begins where none was.
LEMMA Beginnings ==
  ASSUME AccountInv, UNCHANGED storeVars, serial' \in Nat, serial' >= serial,
         NEW r \in Requests, NEW q, Begins(r, q), RequestShaped(q),
         q.at # "publish", ~Issuing(q), q.op # "create",
         q.op = "signIn" => q.at = "admitted", q.op = "agent" => q.by \in Seen
  PROVE  AccountInv'
<1>1. requests[r] = Idle /\ requests' = [requests EXCEPT ![r] = q]
  BY DEF Begins
<1>2. Minor(requests[r], q)
  BY <1>1 DEF Minor, Issuing, Idle
<1> QED BY <1>1, <1>2, SmallSteps

\* A request that has no part in a change of credentials ends.
LEMMA Endings ==
  ASSUME AccountInv, UNCHANGED storeVars, serial' \in Nat, serial' >= serial,
         NEW r \in Requests, Ends(r), requests[r].at # "publish", ~Issuing(requests[r])
  PROVE  AccountInv'
<1>1. requests' = [requests EXCEPT ![r] = Idle]
  BY DEF Ends
<1>2. Minor(requests[r], Idle)
  BY IdleRequest DEF Minor, Issuing
<1> QED BY <1>1, <1>2, IdleRequest, SmallSteps

\* A request goes on to a step that has no part in one.
LEMMA Movings ==
  ASSUME AccountInv, UNCHANGED storeVars, serial' \in Nat, serial' >= serial,
         NEW r \in Requests, NEW at, Moves(r, at), requests[r].at # "publish", at # "publish",
         ~Issuing(requests[r]), requests[r].op \notin {"change", "create", "agent"},
         at \in Course(requests[r].op), requests[r].op = "signIn" =>
            requests[r].at # "admitted" /\ at \in {"verified", "issuing"}
  PROVE  AccountInv'
<1> DEFINE q == [requests[r] EXCEPT !.at = at]
<1>0. RequestShaped(requests[r])
  BY DEF AccountInv, Shaped
<1>1. requests' = [requests EXCEPT ![r] = q]
  BY <1>0 DEF Moves
<1>2. /\ Fielded(q)
      /\ q.at = at /\ q.op = requests[r].op /\ q.user = requests[r].user
      /\ q.by = requests[r].by /\ q.pw = requests[r].pw /\ q.work = requests[r].work
  BY <1>0, MovedRequest
<1> HIDE DEF q
<1>3. RequestShaped(q)
  BY <1>0, <1>2 DEF RequestShaped
<1>4. Minor(requests[r], q)
  BY <1>2 DEF Minor, Issuing, Seen
<1> QED BY <1>1, <1>3, <1>4, SmallSteps

\* Everybody whose session there is has, or had, an account.
LEMMA SessionUsersSeen ==
  ASSUME AccountInv, NEW s \in sessions.mem
  PROVE  s.user \in Seen /\ s.user \in Users
BY DEF AccountInv, Shaped, SessionShaped, Seen

\* What is asked for, with the session it is asked with.
LEMMA Askings ==
  ASSUME AccountInv, UNCHANGED storeVars, serial' \in Nat, serial' >= serial,
         NEW r \in Requests, NEW s \in sessions.mem, NEW p, Asks(r, s, p), Fielded(p),
         p.op \in {"change", "delete", "role", "agent", "checkpoint"},
         p.at = CASE p.op = "agent" -> "asked" [] p.op = "checkpoint" -> "store" [] OTHER -> "users",
         p.pw \in Int,
         p.op # "checkpoint" => p.user \in Users,
         p.op = "agent" => p.user = s.user,
         p.op = "delete" => p.user # s.user,
         p.op = "checkpoint" =>
            /\ DOMAIN p.work = {"spot", "seek", "at", "heard", "finished", "rows"}
            /\ p.work.rows = {}
  PROVE  AccountInv'
<1> DEFINE q == [p EXCEPT !.by = s.user, !.session = s.n, !.boss = Role(s.user) = "owner"]
<1>1. Begins(r, q)
  BY DEF Asks
<1>2. /\ Fielded(q)
      /\ q.op = p.op /\ q.at = p.at /\ q.user = p.user /\ q.by = s.user /\ q.pw = p.pw
      /\ q.work = p.work
  <2> PICK boss : q = [p EXCEPT !.by = s.user, !.session = s.n, !.boss = boss]
    BY Zenon
  <2> HIDE DEF q
  <2> DEFINE m == [p EXCEPT !.by = s.user, !.session = s.n, !.boss = boss]
  <2>1. /\ Fielded(m)
        /\ m.op = p.op /\ m.at = p.at /\ m.user = p.user /\ m.by = s.user /\ m.pw = p.pw
        /\ m.work = p.work
    BY DEF Fielded
  <2>2. q = m
    OBVIOUS
  <2> HIDE DEF m
  <2> QED BY <2>1, <2>2
<1> HIDE DEF q
<1>3. s.user \in Seen
  BY SessionUsersSeen
<1>4. RequestShaped(q)
  BY <1>2 DEF RequestShaped, Ops, Course
<1> QED BY <1>1, <1>2, <1>3, <1>4, Beginnings DEF Issuing

\* Asking for something.
LEMMA AskSteps ==
  ASSUME AccountInv, NEW r \in Requests, NEW s \in sessions.mem, NEW u \in Users,
         NEW role \in {"reader", "admin", "owner"},
         \/ AskNewPassword(r, s, u) \/ AskDeletion(r, s, u) \/ AskRole(r, s, u, role)
         \/ AskAgent(r, s)
  PROVE  AccountInv'
<1>1. UNCHANGED storeVars /\ serial' \in Nat /\ serial' >= serial
  BY DEF AskNewPassword, AskDeletion, AskRole, AskAgent, storeVars, accountVars, AccountInv, Shaped
<1>2. CASE AskNewPassword(r, s, u)
  <2> DEFINE p == [Idle EXCEPT !.op = "change", !.at = "users", !.user = u, !.pw = users.mem[u].pw]
  <2>1. Asks(r, s, p)
    BY <1>2 DEF AskNewPassword
  <2>2. users.mem[u].pw \in Int
    BY <1>2 DEF AskNewPassword, AccountInv, Shaped, TableShaped, AccountShaped, Known
  <2>3. Fielded(p) /\ p.op = "change" /\ p.at = "users" /\ p.user = u /\ p.pw = users.mem[u].pw
    BY DEF Fielded, Idle
  <2> HIDE DEF p
  <2> QED BY <1>1, <2>1, <2>2, <2>3, Askings
<1>3. CASE AskDeletion(r, s, u)
  <2> DEFINE p == [Idle EXCEPT !.op = "delete", !.at = "users", !.user = u]
  <2>1. Asks(r, s, p) /\ s.user # u
    BY <1>3 DEF AskDeletion
  <2>2. Fielded(p) /\ p.op = "delete" /\ p.at = "users" /\ p.user = u /\ p.pw = -1
    BY DEF Fielded, Idle, Wrong
  <2> HIDE DEF p
  <2> QED BY <1>1, <2>1, <2>2, Askings
<1>4. CASE AskRole(r, s, u, role)
  <2> DEFINE p == [Idle EXCEPT !.op = "role", !.at = "users", !.user = u, !.role = role]
  <2>1. Asks(r, s, p)
    BY <1>4 DEF AskRole
  <2>2. Fielded(p) /\ p.op = "role" /\ p.at = "users" /\ p.user = u /\ p.pw = -1
    BY DEF Fielded, Idle, Wrong
  <2> HIDE DEF p
  <2> QED BY <1>1, <2>1, <2>2, Askings
<1>5. CASE AskAgent(r, s)
  <2> DEFINE p == [Idle EXCEPT !.op = "agent", !.at = "asked", !.user = s.user]
  <2>1. Asks(r, s, p)
    BY <1>5 DEF AskAgent
  <2>2. Fielded(p) /\ p.op = "agent" /\ p.at = "asked" /\ p.user = s.user /\ p.pw = -1
    BY DEF Fielded, Idle, Wrong
  <2>3. s.user \in Users
    BY SessionUsersSeen
  <2> HIDE DEF p
  <2> QED BY <1>1, <2>1, <2>2, <2>3, Askings
<1> QED BY <1>2, <1>3, <1>4, <1>5

\* Asking to sign out, and using a session that has expired.
LEMMA SignOutSteps ==
  ASSUME AccountInv, NEW r \in Requests, NEW s \in sessions.mem,
         AskSignOut(r, s) \/ UseExpired(r, s)
  PROVE  AccountInv'
<1>1. UNCHANGED storeVars /\ serial' \in Nat /\ serial' >= serial
  BY DEF AskSignOut, UseExpired, storeVars, accountVars, AccountInv, Shaped
<1> DEFINE q == [Idle EXCEPT !.op = "signOut", !.at = "sessions", !.session = s.n]
<1>2. Begins(r, q)
  BY DEF AskSignOut, UseExpired
<1>3. Fielded(q) /\ q.op = "signOut" /\ q.at = "sessions" /\ q.pw = -1
  BY DEF Fielded, Idle, Wrong
<1> HIDE DEF q
<1>4. RequestShaped(q)
  BY <1>3 DEF RequestShaped, Ops, Course
<1> QED BY <1>1, <1>2, <1>3, <1>4, Beginnings DEF Issuing

\* Asking to record a checkpoint.
LEMMA CheckpointAsked ==
  ASSUME AccountInv, NEW r \in Requests, NEW s \in sessions.mem, NEW spot, NEW seek,
         AskCheckpoint(r, s, spot, seek)
  PROVE  AccountInv'
<1>1. UNCHANGED storeVars /\ serial' \in Nat /\ serial' >= serial
  BY DEF AskCheckpoint, storeVars, accountVars, AccountInv, Shaped
<1> PICK no : no = FALSE
  OBVIOUS
<1> DEFINE w == [spot |-> spot, seek |-> seek, at |-> 0, heard |-> 0, finished |-> no, rows |-> {}]
           p == [Idle EXCEPT !.op = "checkpoint", !.at = "store", !.work = w]
<1>2. Asks(r, s, p)
  BY Zenon DEF AskCheckpoint
<1>3. DOMAIN w = {"spot", "seek", "at", "heard", "finished", "rows"} /\ w.rows = {}
  OBVIOUS
<1> HIDE DEF w
<1>4. Fielded(p) /\ p.op = "checkpoint" /\ p.at = "store" /\ p.pw = -1 /\ p.work = w
  BY DEF Fielded, Idle, Wrong
<1> HIDE DEF p
<1> QED BY <1>1, <1>2, <1>3, <1>4, Askings

\* Signing in, up to the second look at the account.
LEMMA SignInSteps ==
  ASSUME AccountInv, NEW r \in Requests, NEW name, NEW address, NEW pw \in Int,
         SignIn(r, name, address, pw)
  PROVE  AccountInv'
<1>1. UNCHANGED storeVars /\ serial \in Nat /\ serial' = serial + 1
  BY DEF SignIn, storeVars, AccountInv, Shaped
<1>2. PICK runs : Begins(r, [Idle EXCEPT !.op = "signIn", !.at = "admitted", !.pw = pw,
                                         !.session = serial, !.name = name, !.address = address,
                                         !.runs = runs])
  BY DEF SignIn
<1> DEFINE q == [Idle EXCEPT !.op = "signIn", !.at = "admitted", !.pw = pw,
                             !.session = serial, !.name = name, !.address = address,
                             !.runs = runs]
<1>3. Fielded(q) /\ q.op = "signIn" /\ q.at = "admitted" /\ q.pw = pw
  BY DEF Fielded, Idle
<1>4. Begins(r, q)
  BY <1>2
<1> HIDE DEF q
<1>5. RequestShaped(q)
  BY <1>3 DEF RequestShaped, Ops, Course
<1> QED BY <1>1, <1>3, <1>4, <1>5, Beginnings DEF Issuing

\* The password of a sign-in is compared with the account's.
LEMMA CheckSteps ==
  ASSUME AccountInv, NEW r \in Requests, CheckPassword(r)
  PROVE  AccountInv'
<1>1. UNCHANGED storeVars /\ serial' \in Nat /\ serial' >= serial
  <2>1. UNCHANGED accountVars
    BY DEF CheckPassword
  <2> QED BY <2>1 DEF storeVars, accountVars, AccountInv, Shaped
<1>2. requests[r].op = "signIn" /\ requests[r].at = "admitted"
  BY DEF CheckPassword
<1>3. CASE Ends(r)
  BY <1>1, <1>2, <1>3, Endings DEF Issuing
<1>4. ASSUME NEW u \in Known,
             requests' = [requests EXCEPT ![r].at = "verified", ![r].user = u]
      PROVE  AccountInv'
  <2> DEFINE q == [requests[r] EXCEPT !.at = "verified", !.user = u]
  <2>1. requests' = [requests EXCEPT ![r] = q]
    BY <1>4 DEF AccountInv, Shaped
  <2>2. RequestShaped(requests[r]) /\ u \in Users /\ u \in Seen
    BY DEF AccountInv, Shaped, TableShaped, Known, Seen
  <2>3. /\ Fielded(q) /\ q.op = "signIn" /\ q.at = "verified" /\ q.user = u
        /\ q.pw = requests[r].pw
    BY <1>2, <2>2 DEF RequestShaped, Fielded
  <2> HIDE DEF q
  <2>4. RequestShaped(q)
    BY <2>2, <2>3 DEF RequestShaped, Course, Ops
  <2>5. Minor(requests[r], q)
    BY <1>2, <2>2, <2>3 DEF Minor, Issuing
  <2> QED BY <1>1, <2>1, <2>4, <2>5, SmallSteps
<1> QED BY <1>3, <1>4 DEF CheckPassword

\* A sign-in whose password was right takes its charge back.
LEMMA ClearSteps ==
  ASSUME AccountInv, NEW r \in Requests, ClearCharge(r)
  PROVE  AccountInv'
<1>1. UNCHANGED storeVars /\ serial' \in Nat /\ serial' >= serial
  BY DEF ClearCharge, storeVars, accountVars, AccountInv, Shaped
<1>2. requests[r].at = "verified" /\ Moves(r, "issuing")
  BY DEF ClearCharge
<1>3. requests[r].op = "signIn"
  BY <1>2 DEF AccountInv, Shaped, RequestShaped, Ops, Course
<1> QED BY <1>1, <1>2, <1>3, Movings DEF Issuing, Course

\* A checkpoint's bookkeeping.
LEMMA Bookings ==
  ASSUME AccountInv, UNCHANGED storeVars, serial' \in Nat, serial' >= serial,
         NEW r \in Requests, requests[r].op = "checkpoint", NEW work, NEW at,
         at \in {"activity", "fold", "rows", "complete", "done"},
         DOMAIN work = {"spot", "seek", "at", "heard", "finished", "rows"},
         \A row \in work.rows : row.user = requests[r].by,
         Proceeds(r, work, at)
  PROVE  AccountInv'
<1>1. requests[r].at # "publish" /\ ~Issuing(requests[r])
  BY DEF AccountInv, Shaped, RequestShaped, Ops, Course, Issuing
<1>2. CASE at = "done"
  <2>1. Ends(r)
    BY <1>2 DEF Proceeds, Ends
  <2> QED BY <1>1, <2>1, Endings
<1>3. CASE at # "done"
  <2> DEFINE q == [requests[r] EXCEPT !.at = at, !.work = work]
  <2>1. requests' = [requests EXCEPT ![r] = q]
    BY <1>3 DEF Proceeds
  <2>2. RequestShaped(requests[r])
    BY DEF AccountInv, Shaped
  <2>3. /\ Fielded(q) /\ q.op = "checkpoint" /\ q.at = at /\ q.by = requests[r].by
        /\ q.pw = requests[r].pw /\ q.work = work
    BY <2>2 DEF RequestShaped, Fielded
  <2> HIDE DEF q
  <2>4. RequestShaped(q)
    BY <1>3, <2>2, <2>3 DEF RequestShaped, Course
  <2>5. Minor(requests[r], q)
    BY <1>1, <1>3, <2>3 DEF Minor, Issuing
  <2> QED BY <2>1, <2>4, <2>5, SmallSteps
<1> QED BY <1>2, <1>3
\* The steps of a checkpoint that are not about its sitting.
LEMMA BookingSteps ==
  ASSUME AccountInv, NEW r \in Requests,
         \/ StorePlace(r) \/ AddActivity(r) \/ WriteRows(r) \/ WriteCompletion(r)
         \/ LosesStatistic(r)
  PROVE  AccountInv'
<1> DEFINE q == requests[r]
<1>1. UNCHANGED storeVars /\ serial' \in Nat /\ serial' >= serial
  <2>1. UNCHANGED accountVars
    BY DEF StorePlace, AddActivity, WriteRows, WriteCompletion, LosesStatistic
  <2> QED BY <2>1 DEF storeVars, accountVars, AccountInv, Shaped
<1>2. /\ q.op = "checkpoint" /\ q.at # "publish" /\ ~Issuing(q)
      /\ DOMAIN q.work = {"spot", "seek", "at", "heard", "finished", "rows"}
      /\ \A row \in q.work.rows : row.user = q.by
  <2>1. q.at \in {"store", "activity", "rows", "complete"}
    BY DEF StorePlace, AddActivity, WriteRows, WriteCompletion, LosesStatistic
  <2>2. RequestShaped(q)
    BY DEF AccountInv, Shaped
  <2> QED BY <2>1, <2>2 DEF RequestShaped, Ops, Course, Issuing
<1>3. \A work : AfterFolding(work) \in {"complete", "done"}
  BY DEF AfterFolding
<1>4. \A work : AfterStoring(work) \in {"activity", "complete", "done"}
  BY <1>3 DEF AfterStoring
<1> HIDE DEF q
<1>5. CASE StorePlace(r)
  <2>1. CASE Ends(r)
    BY <1>1, <1>2, <2>1, Endings DEF q
  <2>2. CASE ~Ends(r)
    <3>1. PICK delta, finished :
             Proceeds(r, [q.work EXCEPT !.at = clock, !.heard = delta, !.finished = finished],
                      AfterStoring([q.work EXCEPT !.at = clock, !.heard = delta,
                                                  !.finished = finished]))
      BY <1>5, <2>2, Zenon DEF StorePlace, q
    <3> DEFINE work == [q.work EXCEPT !.at = clock, !.heard = delta, !.finished = finished]
    <3>2. DOMAIN work = DOMAIN q.work /\ work.rows = q.work.rows
      BY <1>2
    <3>3. Proceeds(r, work, AfterStoring(work))
      BY <3>1
    <3> HIDE DEF work
    <3> QED BY <1>1, <1>2, <1>4, <3>2, <3>3, Bookings DEF q
  <2> QED BY <2>1, <2>2
<1>6. CASE AddActivity(r)
  <2>1. Proceeds(r, q.work, "fold")
    BY <1>6 DEF AddActivity, q
  <2> QED BY <1>1, <1>2, <2>1, Bookings DEF q
<1>7. ASSUME NEW at \in {"fold", "complete", "done"}, Proceeds(r, [q.work EXCEPT !.rows = {}], at)
      PROVE  AccountInv'
  <2> DEFINE work == [q.work EXCEPT !.rows = {}]
  <2>1. DOMAIN work = DOMAIN q.work /\ work.rows = {}
    BY <1>2
  <2>2. Proceeds(r, work, at)
    BY <1>7
  <2> HIDE DEF work
  <2> QED BY <1>1, <1>2, <2>1, <2>2, Bookings DEF q
<1>8. CASE WriteRows(r)
  <2>1. Proceeds(r, [q.work EXCEPT !.rows = {}], AfterFolding(q.work))
    BY <1>8 DEF WriteRows, q
  <2> QED BY <1>3, <1>7, <2>1
<1>9. CASE WriteCompletion(r)
  BY <1>1, <1>2, <1>9, Endings DEF WriteCompletion, q
<1>10. CASE LosesStatistic(r)
  <2> DEFINE at == CASE q.at = "activity" -> "fold" [] q.at = "rows" -> AfterFolding(q.work)
                     [] OTHER -> "done"
  <2>1. Proceeds(r, [q.work EXCEPT !.rows = {}], at)
    BY <1>10 DEF LosesStatistic, q
  <2>2. at \in {"fold", "complete", "done"}
    BY <1>3
  <2> QED BY <1>7, <2>1, <2>2
<1> QED BY <1>5, <1>6, <1>8, <1>9, <1>10

\* Folding a checkpoint in gives out rows of its listener alone.
LEMMA RecordedIsShaped ==
  ASSUME OpenInv, NEW u, NEW at, NEW more, NEW id
  PROVE  LET result == Recorded(open, u, at, more, id) IN
         /\ \A x \in DOMAIN result.open : SittingShaped(result.open[x], x)
         /\ DOMAIN result.open = DOMAIN open \cup {u}
         /\ \A x \in DOMAIN open : x # u => result.open[x] = open[x]
         /\ \A row \in result.rows : row.user = u
<1> DEFINE result == Recorded(open, u, at, more, id)
           Goal == /\ \A x \in DOMAIN result.open : SittingShaped(result.open[x], x)
                   /\ DOMAIN result.open = DOMAIN open \cup {u}
                   /\ \A x \in DOMAIN open : x # u => result.open[x] = open[x]
                   /\ \A row \in result.rows : row.user = u
<1> SUFFICES Goal
  OBVIOUS
<1> HIDE DEF Goal
<1>1. CASE u \in DOMAIN open /\ Accepts(open[u], at)
  <2> PICK longer : longer = [open[u] EXCEPT !.ended = at, !.heard = @ + more, !.dirty = TRUE]
    OBVIOUS
  <2>1. SittingShaped(longer, u)
    <3>1. PICK sum, yes : longer = [open[u] EXCEPT !.ended = at, !.heard = sum, !.dirty = yes]
      BY Zenon
    <3> QED BY <1>1, <3>1 DEF OpenInv, SittingShaped
  <2> PICK due : due = (Since(at, longer.flushed) >= longer.interval /\ IsSubstantive(longer))
    OBVIOUS
  <2> PICK next : next = IF due THEN Flushed(longer, at) ELSE longer
    OBVIOUS
  <2>2. SittingShaped(next, u)
    <3>1. CASE due
      <4>1. PICK no, wait : next = [longer EXCEPT !.flushed = at, !.dirty = no, !.interval = wait]
        BY <3>1, Zenon DEF Flushed
      <4> QED BY <2>1, <4>1 DEF SittingShaped
    <3> QED BY <2>1, <3>1
  <2>3. result = [open |-> [open EXCEPT ![u] = next],
                  rows |-> IF due THEN {RowOf(longer)} ELSE {}]
    BY <1>1, Zenon DEF Recorded
  <2>4. result.open = [open EXCEPT ![u] = next]
        /\ result.rows = IF due THEN {RowOf(longer)} ELSE {}
    BY <2>3
  <2>5. RowOf(longer).user = u
    BY <2>1 DEF RowOf, SittingShaped
  <2> HIDE DEF result
  <2>6. \A x \in DOMAIN result.open : SittingShaped(result.open[x], x)
    BY <1>1, <2>2, <2>4 DEF OpenInv
  <2> QED BY <1>1, <2>4, <2>5, <2>6 DEF Goal
<1>2. CASE ~(u \in DOMAIN open /\ Accepts(open[u], at))
  <2> PICK yes : yes = TRUE
    OBVIOUS
  <2> DEFINE new == [id |-> id, user |-> u, ended |-> at, heard |-> more, flushed |-> at,
                     interval |-> FlushFirst, dirty |-> yes]
  <2>1. result = [open |-> [x \in DOMAIN open \cup {u} |-> IF x = u THEN new ELSE open[x]],
                  rows |-> ClosedRows(open, DOMAIN open \cap {u})]
    BY <1>2, Zenon DEF Recorded
  <2>2. SittingShaped(new, u)
    BY DEF SittingShaped
  <2> HIDE DEF new
  <2>3. result.open = [x \in DOMAIN open \cup {u} |-> IF x = u THEN new ELSE open[x]]
        /\ result.rows = ClosedRows(open, DOMAIN open \cap {u})
    BY <2>1
  <2>4. \A row \in ClosedRows(open, DOMAIN open \cap {u}) : row.user = u
    BY DEF ClosedRows, RowOf, OpenInv, SittingShaped
  <2> HIDE DEF result
  <2>5. \A x \in DOMAIN result.open : SittingShaped(result.open[x], x)
    BY <2>2, <2>3 DEF OpenInv
  <2> QED BY <2>3, <2>4, <2>5 DEF Goal
<1> QED BY <1>1, <1>2

\* A checkpoint is folded into its listener's sitting.
LEMMA FoldSteps ==
  ASSUME AccountInv, OpenInv, NEW r \in Requests, FoldIn(r)
  PROVE  AccountInv' /\ OpenInv'
<1> DEFINE q == requests[r]
<1> PICK result : result = Recorded(open, q.by, q.work.at, q.work.heard, serial)
  OBVIOUS
<1>1. UNCHANGED storeVars /\ serial' \in Nat /\ serial' >= serial
  <2>1. serial' = serial + 1
    BY Zenon DEF FoldIn
  <2>2. serial \in Nat
    BY Zenon DEF AccountInv, Shaped
  <2>3. UNCHANGED storeVars
    BY Zenon DEF FoldIn, storeVars
  <2> QED BY <2>1, <2>2, <2>3
<1>2. q.at = "fold" /\ RequestShaped(q)
  BY DEF FoldIn, AccountInv, Shaped
<1>3. /\ q.op = "checkpoint"
      /\ DOMAIN q.work = {"spot", "seek", "at", "heard", "finished", "rows"}
  BY <1>2 DEF RequestShaped, Ops, Course
<1>4. /\ \A x \in DOMAIN result.open : SittingShaped(result.open[x], x)
      /\ \A row \in result.rows : row.user = q.by
  BY RecordedIsShaped
<1>5. /\ open' = result.open
      /\ Proceeds(r, [q.work EXCEPT !.rows = result.rows],
                  IF result.rows # {} THEN "rows" ELSE AfterFolding(q.work))
  BY DEF FoldIn
<1> DEFINE work == [q.work EXCEPT !.rows = result.rows]
           at == IF result.rows # {} THEN "rows" ELSE AfterFolding(q.work)
<1>6. DOMAIN work = DOMAIN q.work /\ work.rows = result.rows
  BY <1>3
<1>7. at \in {"rows", "complete", "done"}
  BY DEF AfterFolding
<1>8. Proceeds(r, work, at)
  BY <1>5
<1> HIDE DEF work, at, q
<1>9. AccountInv'
  BY <1>1, <1>3, <1>4, <1>6, <1>7, <1>8, Bookings DEF q
<1> QED BY <1>4, <1>5, <1>9 DEF OpenInv

\* What a deletion does to the reading log.
LEMMA ForgetSteps ==
  ASSUME AccountInv, NEW r \in Requests, ForgetPart(r)
  PROVE  AccountInv'
<1> DEFINE q == requests[r]
<1>1. UNCHANGED storeVars /\ serial' \in Nat /\ serial' >= serial
  BY DEF ForgetPart, storeVars, AccountInv, Shaped
<1>2. q.op = "delete" /\ q.at \in {"places", "forget", "purge"}
  BY DEF ForgetPart
<1>3. CASE Ends(r)
  BY <1>1, <1>2, <1>3, Endings DEF Issuing
<1>4. CASE Moves(r, NextPart(q.at)) /\ NextPart(q.at) # "done"
  <2>1. NextPart(q.at) \in {"forget", "purge"}
    BY <1>2, <1>4 DEF NextPart
  <2> QED BY <1>1, <1>2, <1>4, <2>1, Movings DEF Issuing, Course
<1> QED BY <1>3, <1>4 DEF ForgetPart

\* The client goes away while the listening record is written.
LEMMA DiskRecordSteps ==
  ASSUME AccountInv, NEW r \in Requests, RecordsOnlyOnDisk(r)
  PROVE  AccountInv'
<1>1. UNCHANGED storeVars /\ serial' \in Nat /\ serial' >= serial
  <2>1. UNCHANGED accountVars
    BY DEF RecordsOnlyOnDisk
  <2> QED BY <2>1 DEF storeVars, accountVars, AccountInv, Shaped
<1>2. requests[r].at \in {"activity", "rows", "complete"} /\ Ends(r)
  BY DEF RecordsOnlyOnDisk
<1>3. ~Issuing(requests[r])
  BY <1>2 DEF AccountInv, Shaped, RequestShaped, Ops, Course, Issuing
<1> QED BY <1>1, <1>2, <1>3, Endings

--------------------------------------------------------------------------------
(* Ids that may come to have an account.                                       *)

LEMMA AccountAsked ==
  ASSUME AccountInv, NEW r \in Requests, NEW s \in sessions.mem, NEW u \in Users,
         NEW role \in {"reader", "admin", "owner"}, AskAccount(r, s, u, role)
  PROVE  AccountInv'
<1> DEFINE p == [Idle EXCEPT !.op = "create", !.at = "users", !.user = u, !.role = role]
<1>1. /\ UNCHANGED <<users, sessions, agents, links, gate, issuance, halfway, unpublished, serial>>
      /\ u \notin used /\ used' = used \cup {u} /\ Asks(r, s, p)
  BY DEF AskAccount
<1>2. Fielded(p) /\ p.op = "create" /\ p.at = "users" /\ p.user = u /\ p.pw = -1
  BY DEF Fielded, Idle, Wrong
<1> HIDE DEF p
<1>3. PICK boss : /\ requests[r] = Idle
                  /\ requests' = [requests EXCEPT ![r] =
                        [p EXCEPT !.by = s.user, !.session = s.n, !.boss = boss]]
  BY <1>1 DEF Asks, Begins
<1> DEFINE q == [p EXCEPT !.by = s.user, !.session = s.n, !.boss = boss]
<1>4. /\ Fielded(q) /\ q.op = "create" /\ q.at = "users" /\ q.user = u /\ q.pw = -1
  BY <1>2 DEF Fielded
<1>5. requests' = [requests EXCEPT ![r] = q]
  BY <1>3
<1> HIDE DEF q
<1>6. RequestShaped(q)
  BY <1>4 DEF RequestShaped, Ops, Course
<1>7. /\ DOMAIN requests' = Requests /\ requests' = [x \in Requests |-> requests'[x]]
      /\ requests'[r] = q /\ \A x \in Requests : x # r => requests'[x] = requests[x]
  BY <1>5, OneRequest DEF AccountInv
<1>8. Shaped'
  <2>1. \A x \in Requests : RequestShaped(requests'[x])
    BY <1>6, <1>7 DEF AccountInv, Shaped
  <2>2. serial' \in Nat /\ serial' >= serial
    BY <1>1 DEF AccountInv, Shaped
  <2> QED BY <1>1, <1>7, <2>1, <2>2, StoresStayShaped DEF AccountInv
<1>9. requests[r].at = "idle" /\ requests[r].op = "none"
  BY <1>3 DEF Idle
<1>10. LinkInv'
  BY <1>1, <1>4, <1>7, <1>9 DEF AccountInv, LinkInv, LinksFollowSessions, Numbers
<1>11. LockInv'
  BY <1>1, <1>4, <1>7 DEF AccountInv, LockInv, Issuing
<1>12. Seen' \subseteq Seen
  BY <1>1, <1>4, <1>7 DEF Seen
<1>13. NewInv'
  BY <1>1, <1>4, <1>7, <1>12 DEF AccountInv, NewInv, IsCreating
<1>14. CopiesInv'
  BY <1>1 DEF AccountInv, CopiesInv, Agreed
<1>15. \A x \in Users : (Replacing(x) => Replacing(x)') /\ (Resetting(x) => Resetting(x)')
  BY <1>7, <1>9 DEF Replacing, Resetting
<1>16. /\ \A x \in sessions.mem \cup sessions.disk : x.user \in Users
       /\ \A t \in agents.mem \cup agents.disk : t.user \in Users
  BY DEF AccountInv, Shaped, SessionShaped, AgentShaped
<1>17. SessionInv'
  BY <1>1, <1>15, <1>16 DEF AccountInv, SessionInv, IsPassword, HasPassword
<1>18. AgentInv'
  BY <1>1, <1>15, <1>16 DEF AccountInv, AgentInv, IsAfterReset
<1>19. OngoingInv'
  BY <1>1, <1>4, <1>7 DEF AccountInv, OngoingInv, Ongoing, IsPassword, HasPassword, IsAfterReset, Agreed
<1> QED BY <1>8, <1>10, <1>11, <1>13, <1>14, <1>17, <1>18, <1>19 DEF AccountInv

--------------------------------------------------------------------------------
(* Taking the lock for issuing a credential.                                   *)

\* While nobody holds the lock nothing is issued or withdrawn.
LEMMA NobodyIssues ==
  ASSUME AccountInv, issuance = None
  PROVE  /\ \A r \in Requests : ~Issuing(requests[r])
         /\ \A u \in Users : ~Replacing(u) /\ ~Resetting(u)
BY AccountsAssumption DEF AccountInv, LockInv, Replacing, Resetting, Issuing

\* A request takes the credential lock, with its second look at the account
\* or the session behind it.
LEMMA Lockings ==
  ASSUME AccountInv, UNCHANGED <<users, sessions, agents, links, gate, halfway, unpublished,
                                 used, serial>>,
         issuance = None, NEW r \in Requests, issuance' = r, NEW q,
         requests' = [requests EXCEPT ![r] = q], RequestShaped(q),
         \/ /\ requests[r].op = "signIn" /\ requests[r].at = "issuing"
            /\ q.op = "signIn" /\ q.at = "sessions" /\ q.user = requests[r].user
            /\ q.user \in halfway \/ IsPassword(q.user, q.pw)
         \/ /\ requests[r].op = "agent" /\ requests[r].at = "asked"
            /\ q.op = "agent" /\ q.at = "agents" /\ q.by = requests[r].by
            /\ q.user \in halfway \/ IsAfterReset(q.user, q.pw)
  PROVE  AccountInv'
<1>1. /\ DOMAIN requests' = Requests /\ requests' = [x \in Requests |-> requests'[x]]
      /\ requests'[r] = q /\ \A x \in Requests : x # r => requests'[x] = requests[x]
  BY OneRequest DEF AccountInv
<1>2. /\ \A x \in Requests : ~Issuing(requests[x])
      /\ \A u \in Users : ~Replacing(u) /\ ~Resetting(u)
  BY NobodyIssues
<1>3. Shaped'
  <2>1. \A x \in Requests : RequestShaped(requests'[x])
    BY <1>1 DEF AccountInv, Shaped
  <2>2. serial' \in Nat /\ serial' >= serial
    BY DEF AccountInv, Shaped
  <2> QED BY <1>1, <2>1, <2>2, StoresStayShaped DEF AccountInv
<1>4. LinkInv'
  BY <1>1 DEF AccountInv, LinkInv, LinksFollowSessions, Numbers
<1>5. LockInv'
  BY <1>1, <1>2 DEF AccountInv, LockInv
<1>6. Seen' \subseteq Seen
  BY <1>1 DEF Seen
<1>7. NewInv'
  BY <1>1, <1>6 DEF AccountInv, NewInv, IsCreating
<1>8. CopiesInv'
  BY DEF AccountInv, CopiesInv, Agreed
<1>9. /\ \A x \in sessions.mem \cup sessions.disk : x.user \in Users
      /\ \A t \in agents.mem \cup agents.disk : t.user \in Users
  BY DEF AccountInv, Shaped, SessionShaped, AgentShaped
<1>10. SessionInv'
  BY <1>2, <1>9 DEF AccountInv, SessionInv, IsPassword, HasPassword
<1>11. AgentInv'
  BY <1>2, <1>9 DEF AccountInv, AgentInv, IsAfterReset
<1>12. OngoingInv'
  BY <1>1 DEF AccountInv, OngoingInv, Ongoing, IsPassword, HasPassword, IsAfterReset, Agreed
<1> QED BY <1>3, <1>4, <1>5, <1>7, <1>8, <1>10, <1>11, <1>12 DEF AccountInv

\* A sign-in looks at its account again.
LEMMA FinishSteps ==
  ASSUME AccountInv, NEW r \in Requests, FinishSignIn(r)
  PROVE  AccountInv'
<1> DEFINE p == requests[r]
           q == [p EXCEPT !.at = "sessions"]
<1>1. /\ UNCHANGED <<users, sessions, agents, links, gate, halfway, unpublished, used, serial>>
      /\ p.at = "issuing" /\ issuance = None
  BY DEF FinishSignIn
<1>2. RequestShaped(p)
  BY DEF AccountInv, Shaped
<1>3. p.op = "signIn" /\ p.user \in Users
  BY <1>1, <1>2 DEF RequestShaped, Ops, Course
<1>4. CASE StillTrue(p)
  <2>1. issuance' = r /\ requests' = [requests EXCEPT ![r] = q]
    BY <1>4 DEF FinishSignIn, Moves
  <2>2. Fielded(q) /\ q.at = "sessions" /\ q.op = p.op /\ q.user = p.user /\ q.pw = p.pw
    BY <1>2 DEF RequestShaped, Fielded
  <2> HIDE DEF q
  <2>3. RequestShaped(q)
    BY <1>2, <1>3, <2>2 DEF RequestShaped, Ops, Course
  <2>4. q.user \in halfway \/ IsPassword(q.user, q.pw)
    BY <1>3, <1>4, <2>2 DEF StillTrue, Known, AccountInv, CopiesInv, Agreed, IsPassword, HasPassword
  <2> QED BY <1>1, <1>3, <2>1, <2>2, <2>3, <2>4, Lockings
<1>5. CASE ~StillTrue(p)
  <2>1. UNCHANGED storeVars /\ Ends(r) /\ serial' \in Nat /\ serial' >= serial
    BY <1>1, <1>5 DEF FinishSignIn, storeVars, AccountInv, Shaped
  <2> QED BY <1>1, <1>3, <2>1, Endings DEF Issuing
<1> QED BY <1>4, <1>5

\* The session that asks for a token is looked at again.
LEMMA AgentSteps ==
  ASSUME AccountInv, NEW r \in Requests, CheckAgent(r)
  PROVE  AccountInv'
<1> DEFINE p == requests[r]
<1>1. /\ UNCHANGED <<users, sessions, agents, links, gate, halfway, unpublished, used, serial>>
      /\ p.op = "agent" /\ p.at = "asked" /\ issuance = None
  BY DEF CheckAgent
<1>2. RequestShaped(p)
  BY DEF AccountInv, Shaped
<1>3. ASSUME NEW s \in sessions.mem, s.user = p.by, issuance' = r,
             requests' = [requests EXCEPT ![r].at = "agents", ![r].pw = s.pw]
      PROVE  AccountInv'
  <2> DEFINE q == [p EXCEPT !.at = "agents", !.pw = s.pw]
  <2>1. requests' = [requests EXCEPT ![r] = q]
    BY <1>3 DEF AccountInv, Shaped
  <2>2. /\ Fielded(q) /\ q.at = "agents" /\ q.op = p.op /\ q.user = p.user /\ q.by = p.by
        /\ q.pw = s.pw
    BY <1>2 DEF RequestShaped, Fielded
  <2> HIDE DEF q
  <2>3. s.pw \in Int
    BY DEF AccountInv, Shaped, SessionShaped
  <2>4. RequestShaped(q) /\ q.user = s.user
    BY <1>1, <1>2, <1>3, <2>2, <2>3 DEF RequestShaped, Ops, Course
  <2>5. q.user \in halfway \/ IsPassword(q.user, q.pw)
    BY <1>1, <2>2, <2>4, NobodyIssues DEF AccountInv, SessionInv, RequestShaped
  <2>6. q.user \in halfway \/ IsAfterReset(q.user, q.pw)
    <3>1. /\ \A u \in DOMAIN users.mem : users.mem[u].reset <= users.mem[u].pw
          /\ \A u \in DOMAIN users.disk : users.disk[u].reset <= users.disk[u].pw
      BY DEF AccountInv, Shaped, TableShaped, AccountShaped
    <3> QED BY <2>5, <3>1 DEF IsPassword, HasPassword, IsAfterReset
  <2>7. /\ requests[r].op = "agent" /\ requests[r].at = "asked"
        /\ q.op = "agent" /\ q.at = "agents" /\ q.by = requests[r].by
    BY <1>1, <2>2
  <2> QED BY <1>1, <1>3, <2>1, <2>4, <2>6, <2>7, Lockings
<1>4. CASE UNCHANGED issuance /\ Ends(r)
  <2>1. UNCHANGED storeVars /\ serial' \in Nat /\ serial' >= serial
    BY <1>1, <1>4 DEF storeVars, AccountInv, Shaped
  <2> QED BY <1>1, <1>4, <2>1, Endings DEF Issuing
<1> QED BY <1>3, <1>4 DEF CheckAgent

--------------------------------------------------------------------------------
(* Writing the accounts.                                                       *)

\* What a write makes of the accounts: the user of the request has what it was
\* given or is gone, and the others what they had.
LEMMA UsersAfterIs ==
  ASSUME AccountInv, NEW r \in Requests, requests[r].at = "users", MayWrite(requests[r])
  PROVE  LET q == requests[r]
             t == UsersAfter(q)
         IN /\ q.op \in {"change", "delete", "role", "create"} /\ q.user \in Users
            /\ DOMAIN t \subseteq Known \cup {q.user}
            /\ \A u \in DOMAIN t : u # q.user => u \in Known /\ t[u] = users.mem[u]
            /\ \A u \in DOMAIN t :
                 /\ DOMAIN t[u] = {"role", "pw", "reset"}
                 /\ t[u].pw \in Nat /\ t[u].reset \in Nat
                 /\ t[u].pw <= serial /\ t[u].reset <= t[u].pw
            /\ q.op = "delete" => q.user \notin DOMAIN t
            /\ q.op \in {"change", "role"} => q.user \in Known
            /\ q.op = "role" => t[q.user].pw = users.mem[q.user].pw
                                /\ t[q.user].reset = users.mem[q.user].reset
            /\ q.op = "change" /\ Self(q) => t[q.user].reset = users.mem[q.user].reset
                                             /\ t[q.user].pw = serial
<1> DEFINE q == requests[r]
           t == UsersAfter(q)
<1>1. RequestShaped(q) /\ q.at = "users"
  BY DEF AccountInv, Shaped
<1>2. q.op \in {"change", "delete", "role", "create"} /\ q.user \in Users
  BY <1>1 DEF RequestShaped, Ops, Course
<1>3. /\ serial \in Nat
      /\ \A u \in Known :
           /\ DOMAIN users.mem[u] = {"role", "pw", "reset"}
           /\ users.mem[u].pw \in Nat /\ users.mem[u].reset \in Nat
           /\ users.mem[u].pw <= serial /\ users.mem[u].reset <= users.mem[u].pw
           /\ users.mem[u].reset <= serial
  BY DEF AccountInv, Shaped, TableShaped, AccountShaped, Known
<1> HIDE DEF q
<1>4. CASE q.op = "change"
  <2>1. q.user \in Known
    BY <1>4, Zenon DEF MayWrite, MayChange, q
  <2> PICK self : self = Self(q)
    OBVIOUS
  <2>2. t = [users.mem EXCEPT ![q.user] =
               [role |-> @.role, pw |-> serial, reset |-> IF self THEN @.reset ELSE serial]]
    BY <1>4, Zenon DEF UsersAfter
  <2> DEFINE new == [role |-> users.mem[q.user].role, pw |-> serial,
                     reset |-> IF self THEN users.mem[q.user].reset ELSE serial]
  <2>3. /\ DOMAIN new = {"role", "pw", "reset"} /\ new.pw = serial
        /\ new.reset = IF self THEN users.mem[q.user].reset ELSE serial
    OBVIOUS
  <2>4. t = [users.mem EXCEPT ![q.user] = new]
    BY <2>2
  <2> HIDE DEF t, new
  <2>5. DOMAIN t = Known /\ t[q.user] = new /\ \A u \in Known : u # q.user => t[u] = users.mem[u]
    BY <2>1, <2>4 DEF Known
  <2> QED BY <1>2, <1>3, <1>4, <2>1, <2>3, <2>5 DEF t, q
<1>5. CASE q.op = "delete"
  <2>1. t = Restrict(users.mem, Known \ {q.user})
    BY <1>5, Zenon DEF UsersAfter
  <2> HIDE DEF t
  <2>2. DOMAIN t = Known \ {q.user} /\ \A u \in DOMAIN t : t[u] = users.mem[u]
    BY <2>1 DEF Restrict
  <2> QED BY <1>2, <1>3, <1>5, <2>2 DEF t, q
<1>6. CASE q.op = "role"
  <2>1. q.user \in Known
    BY <1>6, Zenon DEF MayWrite, MaySetRole, q
  <2>2. t = [users.mem EXCEPT ![q.user].role = q.role]
    BY <1>6, Zenon DEF UsersAfter
  <2> DEFINE new == [users.mem[q.user] EXCEPT !.role = q.role]
  <2>3. /\ DOMAIN new = {"role", "pw", "reset"} /\ new.pw = users.mem[q.user].pw
        /\ new.reset = users.mem[q.user].reset
    BY <1>3, <2>1
  <2>4. t = [users.mem EXCEPT ![q.user] = new]
    BY <2>2
  <2> HIDE DEF t, new
  <2>5. DOMAIN t = Known /\ t[q.user] = new /\ \A u \in Known : u # q.user => t[u] = users.mem[u]
    BY <2>1, <2>4 DEF Known
  <2> QED BY <1>2, <1>3, <1>6, <2>1, <2>3, <2>5 DEF t, q
<1>7. CASE q.op = "create"
  <2> DEFINE new == [role |-> q.role, pw |-> serial, reset |-> serial]
  <2>1. t = [u \in Known \cup {q.user} |-> IF u = q.user THEN new ELSE users.mem[u]]
    BY <1>7, Zenon DEF UsersAfter
  <2>2. DOMAIN new = {"role", "pw", "reset"} /\ new.pw = serial /\ new.reset = serial
    OBVIOUS
  <2> HIDE DEF t, new
  <2>3. DOMAIN t = Known \cup {q.user} /\ t[q.user] = new
        /\ \A u \in Known : u # q.user => t[u] = users.mem[u]
    BY <2>1
  <2> QED BY <1>2, <1>3, <1>7, <2>2, <2>3 DEF t, q
<1> QED BY <1>2, <1>4, <1>5, <1>6, <1>7
\* The accounts are written, for whichever request comes to it.
LEMMA WriteUsersSteps ==
  ASSUME AccountInv, NEW r \in Requests, WriteUsers(r)
  PROVE  AccountInv'
<1> DEFINE p == requests[r]
<1>1. RequestShaped(p) /\ p.at = "users" /\ serial \in Nat
  BY DEF WriteUsers, AccountInv, Shaped
<1>2. ~Issuing(p) /\ p.op \in {"change", "delete", "role", "create"}
  BY <1>1 DEF RequestShaped, Ops, Course, Issuing
<1>3. CASE ~MayWrite(p)
  <2>1. Ends(r) /\ UNCHANGED storeVars /\ serial' = serial
    BY <1>3 DEF WriteUsers, storeVars
  <2> QED BY <1>1, <1>2, <2>1, Endings
<1>4. CASE MayWrite(p)
  <2> PICK t : t = UsersAfter(p)
    OBVIOUS
  <2>1. /\ p.user \in Users
        /\ DOMAIN t \subseteq Known \cup {p.user}
        /\ \A u \in DOMAIN t : u # p.user => u \in Known /\ t[u] = users.mem[u]
        /\ \A u \in DOMAIN t :
             /\ DOMAIN t[u] = {"role", "pw", "reset"}
             /\ t[u].pw \in Nat /\ t[u].reset \in Nat
             /\ t[u].pw <= serial /\ t[u].reset <= t[u].pw
        /\ p.op = "delete" => p.user \notin DOMAIN t
        /\ p.op \in {"change", "role"} => p.user \in Known
        /\ p.op = "role" => t[p.user].pw = users.mem[p.user].pw
                            /\ t[p.user].reset = users.mem[p.user].reset
        /\ p.op = "change" /\ Self(p) => t[p.user].reset = users.mem[p.user].reset
                                         /\ t[p.user].pw = serial
    BY <1>1, <1>4, UsersAfterIs
  <2>2. /\ users' = Both(t) /\ serial' = serial + 1
        /\ UNCHANGED <<sessions, agents, links, gate, halfway, used, unpublished>>
        /\ p.op = "change" => issuance = None /\ issuance' = r
        /\ p.op # "change" => issuance' = issuance
        /\ p.op \in {"change", "delete"} => Moves(r, "sessions")
        /\ p.op \in {"role", "create"} => Ends(r)
    BY <1>4, <1>2 DEF WriteUsers
  <2> HIDE DEF p
  <2>3. users'.mem = t /\ users'.disk = t /\ users' = [mem |-> users'.mem, disk |-> users'.disk]
    BY <2>2 DEF Both
  <2>4. PICK q : /\ requests' = [requests EXCEPT ![r] = q]
                 /\ RequestShaped(q) /\ q.at # "publish" /\ q.op \notin {"create", "signIn", "agent"}
                 /\ p.op \in {"change", "delete"} =>
                      q.op = p.op /\ q.at = "sessions" /\ q.user = p.user /\ Self(q) = Self(p)
                 /\ p.op \in {"role", "create"} => q = Idle
    <3>1. CASE p.op \in {"change", "delete"}
      <4> DEFINE q == [p EXCEPT !.at = "sessions"]
      <4>1. requests' = [requests EXCEPT ![r] = q]
        BY <2>2, <3>1 DEF Moves, p
      <4>2. /\ Fielded(q) /\ q.op = p.op /\ q.at = "sessions" /\ q.user = p.user /\ q.by = p.by
            /\ q.pw = p.pw
        BY <1>1 DEF RequestShaped, Fielded, p
      <4> HIDE DEF q
      <4>3. RequestShaped(q)
        BY <1>1, <3>1, <4>2 DEF RequestShaped, Ops, Course, p
      <4>4. Self(q) = Self(p)
        BY <4>2 DEF Self
      <4> QED BY <3>1, <4>1, <4>2, <4>3, <4>4
    <3>2. CASE p.op \in {"role", "create"}
      BY <2>2, <3>2, IdleRequest DEF Ends
    <3> QED BY <1>2, <3>1, <3>2 DEF p
  <2>5. /\ DOMAIN requests' = Requests /\ requests' = [x \in Requests |-> requests'[x]]
        /\ requests'[r] = q /\ \A x \in Requests : x # r => requests'[x] = requests[x]
    BY <2>4, OneRequest DEF AccountInv
  <2>6. Shaped'
    <3>1. \A x \in Requests : RequestShaped(requests'[x])
      BY <2>4, <2>5 DEF AccountInv, Shaped
    <3>2. DOMAIN t \subseteq Users
      BY <2>1 DEF AccountInv, Shaped, TableShaped, Known
    <3>3. TableShaped(users.mem)' /\ TableShaped(users.disk)'
      BY <1>1, <2>1, <2>2, <2>3, <3>2 DEF TableShaped, AccountShaped
    <3>4. serial' \in Nat
      BY <1>1, <2>2
    <3> QED BY <2>2, <2>3, <2>5, <3>1, <3>3, <3>4 DEF AccountInv, Shaped
  <2>7. p = requests[r]
    BY DEF p
  <2>8. LinkInv'
    BY <1>1, <2>2, <2>4, <2>5, <2>7 DEF AccountInv, LinkInv, LinksFollowSessions, Numbers
  <2>9. LockInv'
    <3>1. CASE p.op = "change"
      BY <2>2, <2>4, <2>5, <3>1, NobodyIssues DEF LockInv
    <3>2. CASE p.op # "change"
      BY <2>2, <2>4, <2>5, <3>2, <1>2, IdleRequest DEF AccountInv, LockInv, Issuing, p
    <3> QED BY <3>1, <3>2
  <2>10. Seen' \subseteq Seen \cup (IF IsCreating(r) THEN {p.user} ELSE {})
    BY <1>2, <2>1, <2>2, <2>3, <2>4, <2>5, <2>7 DEF Seen, Known, IsCreating
  <2>11. NewInv'
    BY <2>2, <2>4, <2>5, <2>7, <2>10 DEF AccountInv, NewInv, IsCreating
  <2>12. CopiesInv'
    BY <2>3 DEF CopiesInv, Agreed
  <2>13. \A u \in Seen : \A pw : IsPassword(u, pw) /\ ~(p.op = "change" /\ u = p.user) => IsPassword(u, pw)'
    BY <1>2, <2>1, <2>3, <2>7 DEF IsPassword, HasPassword, Known, AccountInv, NewInv, IsCreating
  <2>14. \A u \in Seen : \A pw : IsAfterReset(u, pw) /\ ~(p.op = "change" /\ u = p.user /\ ~Self(p))
            => IsAfterReset(u, pw)'
    BY <1>2, <2>1, <2>3, <2>7 DEF IsAfterReset, Known, AccountInv, NewInv, IsCreating
  <2>15. \A u \in Users : /\ Replacing(u) => Replacing(u)'
                          /\ Resetting(u) => Resetting(u)'
                          /\ p.op = "change" /\ u = p.user => Replacing(u)'
                          /\ p.op = "change" /\ u = p.user /\ ~Self(p) => Resetting(u)'
    BY <1>1, <2>4, <2>5, <2>7 DEF Replacing, Resetting
  <2>16. /\ \A x \in sessions.mem \cup sessions.disk : x.user \in Users /\ x.user \in Seen
         /\ \A a \in agents.mem \cup agents.disk : a.user \in Users /\ a.user \in Seen
    BY DEF AccountInv, Shaped, SessionShaped, AgentShaped, Seen
  <2>17. SessionInv'
    BY <2>2, <2>13, <2>15, <2>16 DEF AccountInv, SessionInv
  <2>18. AgentInv'
    BY <2>2, <2>14, <2>15, <2>16 DEF AccountInv, AgentInv
  <2>19. OngoingInv'
    <3> SUFFICES ASSUME NEW x \in Requests, NEW y, y = requests'[x]
                 PROVE  Ongoing(y)'
      BY DEF OngoingInv
    <3>1. CASE x = r
      BY <1>2, <2>3, <2>4, <2>5, <3>1, IdleRequest DEF Ongoing, Agreed
    <3>2. CASE x # r
      <4>1. requests[x] = y
        BY <2>5, <3>2
      <4>2. y.op = "signIn" /\ y.at = "sessions" =>
              y.user \in Seen /\ p.op # "change" /\ (y.user \in halfway \/ IsPassword(y.user, y.pw))
        BY <2>2, <4>1, NobodyIssues DEF AccountInv, OngoingInv, Ongoing, Seen, Issuing
      <4>3. y.op = "agent" /\ y.at = "agents" =>
              y.user \in Seen /\ p.op # "change" /\ (y.user \in halfway \/ IsAfterReset(y.user, y.pw))
        <5> SUFFICES ASSUME y.op = "agent", y.at = "agents"
                     PROVE  /\ y.user \in Seen /\ p.op # "change"
                            /\ y.user \in halfway \/ IsAfterReset(y.user, y.pw)
          OBVIOUS
        <5>1. y.user = y.by
          BY <4>1 DEF AccountInv, Shaped, RequestShaped
        <5>2. y.user \in Seen
          BY <4>1, <5>1 DEF Seen
        <5>3. p.op # "change"
          BY <2>2, <4>1, NobodyIssues DEF Issuing
        <5> QED BY <4>1, <5>2, <5>3 DEF AccountInv, OngoingInv, Ongoing
      <4>4. y.op = "change" /\ y.at \in {"publish", "agents"} /\ ~Self(y) =>
              \A s \in sessions.mem \cup sessions.disk : s.user # y.user
        BY <4>1 DEF AccountInv, OngoingInv, Ongoing
      <4> QED BY <2>2, <2>3, <2>13, <2>14, <4>2, <4>3, <4>4 DEF Agreed, Ongoing
    <3> QED BY <3>1, <3>2
  <2> QED BY <2>6, <2>8, <2>9, <2>11, <2>12, <2>17, <2>18, <2>19 DEF AccountInv
<1> QED BY <1>3, <1>4

--------------------------------------------------------------------------------
(* Requests that are cut short.                                                *)

LEMMA Dropping ==
  ASSUME AccountInv, NEW r \in Requests, Ends(r), issuance' = Freed(issuance, r),
         halfway \subseteq halfway',
         Owing(requests[r]) => requests[r].user \in halfway'
  PROVE  /\ DOMAIN requests' = Requests /\ requests' = [x \in Requests |-> requests'[x]]
         /\ requests'[r] = Idle /\ \A x \in Requests : x # r => requests'[x] = requests[x]
         /\ \A x \in Requests : RequestShaped(requests'[x])
         /\ LockInv'
         /\ \A u \in Users : /\ Replacing(u) => Replacing(u)' \/ u \in halfway'
                             /\ Resetting(u) => Resetting(u)' \/ u \in halfway'
<1>1. /\ DOMAIN requests' = Requests /\ requests' = [x \in Requests |-> requests'[x]]
      /\ requests'[r] = Idle /\ \A x \in Requests : x # r => requests'[x] = requests[x]
  BY OneRequest DEF AccountInv, Ends
<1>2. \A x \in Requests : RequestShaped(requests'[x])
  BY <1>1, IdleRequest DEF AccountInv, Shaped
<1>3. LockInv'
  BY <1>1, IdleRequest DEF AccountInv, LockInv, Issuing, Freed
<1>4. \A u \in Users : Replacing(u) => Replacing(u)' \/ u \in halfway'
  BY <1>1 DEF Replacing, Owing
<1>5. \A u \in Users : Resetting(u) => Resetting(u)' \/ u \in halfway'
  <2> SUFFICES ASSUME NEW u \in Users, Resetting(u), u \notin halfway'
               PROVE  Resetting(u)'
    OBVIOUS
  <2> PICK x \in Requests : /\ requests[x].op = "change" /\ requests[x].at # "users"
                            /\ requests[x].user = u /\ ~Self(requests[x])
    BY DEF Resetting
  <2>1. Owing(requests[x])
    BY DEF Owing, AccountInv, Shaped, RequestShaped, Course
  <2>2. x # r
    BY <2>1
  <2> QED BY <1>1, <2>2 DEF Resetting
<1> QED BY <1>1, <1>2, <1>3, <1>4, <1>5

\* A request ends early: its write is refused, or its client goes away.
LEMMA GivingUpSteps ==
  ASSUME AccountInv, NEW r \in Requests, GivesUp(r)
  PROVE  AccountInv'
<1>1. /\ UNCHANGED <<users, sessions, agents, links, serial, used>>
      /\ Ends(r) /\ issuance' = Freed(issuance, r) /\ gate' = Freed(gate, r)
      /\ halfway \subseteq halfway'
      /\ Owing(requests[r]) => requests[r].user \in halfway'
      /\ unpublished' = (unpublished \/ requests[r].at = "publish")
  BY DEF GivesUp
<1>2. /\ DOMAIN requests' = Requests /\ requests' = [x \in Requests |-> requests'[x]]
      /\ requests'[r] = Idle /\ \A x \in Requests : x # r => requests'[x] = requests[x]
      /\ \A x \in Requests : RequestShaped(requests'[x])
      /\ LockInv'
      /\ \A u \in Users : /\ Replacing(u) => Replacing(u)' \/ u \in halfway'
                          /\ Resetting(u) => Resetting(u)' \/ u \in halfway'
  BY <1>1, Dropping
<1>3. Shaped'
  <2>1. serial' \in Nat /\ serial' >= serial
    BY <1>1 DEF AccountInv, Shaped
  <2> QED BY <1>1, <1>2, <2>1, StoresStayShaped DEF AccountInv
<1>4. LinkInv'
  <2>1. CASE requests[r].at = "publish"
    <3>1. gate = r /\ gate' = None /\ unpublished'
      BY <1>1, <2>1 DEF AccountInv, LinkInv, Freed
    <3> QED BY <1>2, <3>1, IdleRequest DEF AccountInv, LinkInv, LinksFollowSessions
  <2>2. CASE requests[r].at # "publish"
    <3>1. gate' = gate /\ gate # r
      BY <1>1, <2>2, AccountsAssumption DEF AccountInv, LinkInv, Freed
    <3>2. unpublished => unpublished'
      BY <1>1
    <3> QED BY <1>1, <1>2, <3>1, <3>2, IdleRequest DEF AccountInv, LinkInv, LinksFollowSessions, Numbers
  <2> QED BY <2>1, <2>2
<1>5. Seen' \subseteq Seen
  BY <1>1, <1>2, IdleRequest DEF Seen
<1>6. NewInv'
  BY <1>1, <1>2, <1>5, IdleRequest DEF AccountInv, NewInv, IsCreating
<1>7. CopiesInv'
  BY <1>1 DEF AccountInv, CopiesInv, Agreed
<1>8. /\ \A x \in sessions.mem \cup sessions.disk : x.user \in Users
      /\ \A t \in agents.mem \cup agents.disk : t.user \in Users
  BY DEF AccountInv, Shaped, SessionShaped, AgentShaped
<1>9. SessionInv'
  BY <1>1, <1>2, <1>8 DEF AccountInv, SessionInv, IsPassword, HasPassword
<1>10. AgentInv'
  BY <1>1, <1>2, <1>8 DEF AccountInv, AgentInv, IsAfterReset
<1>11. OngoingInv'
  <2> SUFFICES ASSUME NEW x \in Requests, NEW y, y = requests'[x]
               PROVE  Ongoing(y)'
    BY DEF OngoingInv
  <2>1. CASE x = r
    BY <1>2, <2>1, IdleRequest DEF Ongoing
  <2>2. CASE x # r
    BY <1>1, <1>2, <2>2 DEF AccountInv, OngoingInv, Ongoing, IsPassword, HasPassword, IsAfterReset, Agreed
  <2> QED BY <2>1, <2>2
<1> QED BY <1>2, <1>3, <1>4, <1>6, <1>7, <1>9, <1>10, <1>11 DEF AccountInv

\* The client goes away while the accounts are written.
LEMMA DiskUsersSteps ==
  ASSUME AccountInv, NEW r \in Requests, WritesOnlyDisk(r), requests[r].at = "users"
  PROVE  AccountInv'
<1> DEFINE p == requests[r]
<1>1. RequestShaped(p) /\ p.at = "users" /\ serial \in Nat
  BY DEF AccountInv, Shaped
<1>2. ~Issuing(p) /\ ~Owing(p) /\ p.op \in {"change", "delete", "role", "create"}
  BY <1>1 DEF RequestShaped, Ops, Course, Issuing, Owing
<1>3. /\ MayWrite(p) /\ (p.op = "change" => issuance = None)
      /\ users' = OnDisk(users, UsersAfter(p)) /\ UNCHANGED <<sessions, agents>>
      /\ Ends(r) /\ issuance' = Freed(issuance, r) /\ serial' = serial + 1
      /\ halfway \subseteq halfway' /\ (p.op \in {"change", "delete"} => p.user \in halfway')
      /\ UNCHANGED <<links, gate, used, unpublished>>
  BY <1>1 DEF WritesOnlyDisk
<1> PICK t : t = UsersAfter(p)
  OBVIOUS
<1>4. /\ p.user \in Users
      /\ DOMAIN t \subseteq Known \cup {p.user}
      /\ \A u \in DOMAIN t : u # p.user => u \in Known /\ t[u] = users.mem[u]
      /\ \A u \in DOMAIN t :
           /\ DOMAIN t[u] = {"role", "pw", "reset"}
           /\ t[u].pw \in Nat /\ t[u].reset \in Nat
           /\ t[u].pw <= serial /\ t[u].reset <= t[u].pw
      /\ p.op = "role" => t[p.user].pw = users.mem[p.user].pw
                          /\ t[p.user].reset = users.mem[p.user].reset
      /\ p.op = "delete" => p.user \notin DOMAIN t
      /\ p.op \in {"change", "role"} => p.user \in Known
  BY <1>1, <1>3, UsersAfterIs
<1>5. /\ DOMAIN requests' = Requests /\ requests' = [x \in Requests |-> requests'[x]]
      /\ requests'[r] = Idle /\ \A x \in Requests : x # r => requests'[x] = requests[x]
      /\ \A x \in Requests : RequestShaped(requests'[x])
      /\ LockInv'
      /\ \A u \in Users : /\ Replacing(u) => Replacing(u)' \/ u \in halfway'
                          /\ Resetting(u) => Resetting(u)' \/ u \in halfway'
  BY <1>2, <1>3, Dropping
<1>6. users'.mem = users.mem /\ users'.disk = t /\ users' = [mem |-> users'.mem, disk |-> users'.disk]
  BY <1>3 DEF OnDisk, AccountInv, Shaped
<1> HIDE DEF p
<1>7. Shaped'
  <2>1. DOMAIN t \subseteq Users
    BY <1>4 DEF AccountInv, Shaped, TableShaped, Known
  <2>2. serial' \in Nat /\ serial' >= serial
    BY <1>1, <1>3
  <2>3. TableShaped(users.mem)'
    BY <1>1, <1>6, <2>2, SerialGrows DEF TableShaped, AccountShaped, AccountInv, Shaped
  <2>4. TableShaped(users.disk)'
    BY <1>1, <1>3, <1>4, <1>6, <2>1 DEF TableShaped, AccountShaped
  <2> QED BY <1>3, <1>5, <1>6, <2>2, <2>3, <2>4 DEF AccountInv, Shaped
<1>8. p = requests[r]
  BY DEF p
<1>9. LinkInv'
  BY <1>1, <1>3, <1>5, <1>8, IdleRequest DEF AccountInv, LinkInv, LinksFollowSessions, Numbers
<1>10. Seen' \subseteq Seen \cup (IF IsCreating(r) THEN {p.user} ELSE {})
  BY <1>2, <1>3, <1>4, <1>5, <1>6, <1>8, IdleRequest DEF Seen, Known, IsCreating
<1>11. NewInv'
  BY <1>3, <1>5, <1>8, <1>10, IdleRequest DEF AccountInv, NewInv, IsCreating
<1>12. \A u \in Users : u \notin halfway /\ u \in DOMAIN t /\ u \in Known =>
          \/ u = p.user /\ p.op = "change"
          \/ t[u].pw = users.mem[u].pw /\ t[u].reset = users.mem[u].reset
  BY <1>2, <1>4, <1>8 DEF AccountInv, NewInv, IsCreating, Seen, Known
<1>13. CopiesInv'
  BY <1>3, <1>6, <1>12 DEF CopiesInv, Agreed, Known
<1>14. \A u \in Seen : \A pw : IsPassword(u, pw) /\ ~(p.op = "change" /\ u = p.user) => IsPassword(u, pw)'
  BY <1>2, <1>4, <1>6, <1>8 DEF IsPassword, HasPassword, Known, AccountInv, NewInv, IsCreating
<1>15. \A u \in Seen : \A pw : IsAfterReset(u, pw) /\ ~(p.op = "change" /\ u = p.user)
          => IsAfterReset(u, pw)'
  BY <1>2, <1>4, <1>6, <1>8 DEF IsAfterReset, Known, AccountInv, NewInv, IsCreating
<1>16. /\ \A x \in sessions.mem \cup sessions.disk : x.user \in Users /\ x.user \in Seen
       /\ \A a \in agents.mem \cup agents.disk : a.user \in Users /\ a.user \in Seen
  BY DEF AccountInv, Shaped, SessionShaped, AgentShaped, Seen
<1>17. SessionInv'
  BY <1>3, <1>5, <1>14, <1>16 DEF AccountInv, SessionInv
<1>18. AgentInv'
  BY <1>3, <1>5, <1>15, <1>16 DEF AccountInv, AgentInv
<1>19. OngoingInv'
  <2> SUFFICES ASSUME NEW x \in Requests, NEW y, y = requests'[x]
               PROVE  Ongoing(y)'
    BY DEF OngoingInv
  <2>1. CASE x = r
    BY <1>5, <2>1, IdleRequest DEF Ongoing
  <2>2. CASE x # r
    <3>1. requests[x] = y /\ Ongoing(y) /\ RequestShaped(y)
      BY <1>5, <2>2 DEF AccountInv, OngoingInv, Shaped
    <3>2. Issuing(y) => p.op # "change"
      BY <1>3, <3>1, NobodyIssues DEF Issuing
    <3>3. y.op = "signIn" /\ y.at = "sessions" => y.user \in Seen
      BY <3>1 DEF Seen
    <3>4. y.op = "agent" /\ y.at = "agents" => y.user \in Seen
      BY <3>1 DEF Seen, RequestShaped
    <3>5. y.op = "change" /\ y.at # "users" => Agreed(y.user)'
      <4> SUFFICES ASSUME y.op = "change", y.at # "users"
                   PROVE  Agreed(y.user)'
        OBVIOUS
      <4>1. p.op # "change"
        BY <3>2 DEF Issuing
      <4> QED BY <1>2, <1>4, <1>6, <1>8, <4>1 DEF Agreed, AccountInv, NewInv, IsCreating, Seen, Known
    <3> QED BY <1>3, <1>14, <1>15, <3>1, <3>2, <3>3, <3>4, <3>5 DEF Ongoing, Issuing
  <2> QED BY <2>1, <2>2
<1> QED BY <1>5, <1>7, <1>9, <1>11, <1>13, <1>17, <1>18, <1>19 DEF AccountInv

--------------------------------------------------------------------------------
(* Writing the sessions.                                                       *)

\* What a write makes of the sessions: each was there before, is the one signed
\* in to, or the one in which its listener changed the password.
LEMMA SessionsAfterAre ==
  ASSUME AccountInv, NEW r \in Requests, requests[r].at = "sessions",
         NEW new, new \in SessionsAfter(requests[r])
  PROVE  LET p == requests[r] IN
         /\ p.op \in {"signIn", "change", "delete", "signOut"}
         /\ \A s \in new :
              \/ s \in sessions.mem /\ (p.op \in {"change", "delete"} => s.user # p.user)
              \/ /\ DOMAIN s = {"n", "user", "at", "pw"} /\ s.user = p.user
                 /\ \/ p.op = "signIn" /\ s.pw = p.pw
                    \/ p.op = "change" /\ Self(p) /\ p.user \in Known /\ s.pw = users.mem[p.user].pw
<1> DEFINE p == requests[r]
<1>1. p.op \in {"signIn", "change", "delete", "signOut"}
  BY DEF AccountInv, Shaped, RequestShaped, Ops, Course
<1>2. CASE p.op = "signIn"
  <2> DEFINE one == [n |-> serial, user |-> p.user, at |-> clock, pw |-> p.pw]
  <2>1. new \in Opened(sessions.mem, p.user, one)
    BY <1>2 DEF SessionsAfter
  <2>2. DOMAIN one = {"n", "user", "at", "pw"} /\ one.user = p.user /\ one.pw = p.pw
    OBVIOUS
  <2> HIDE DEF one
  <2>3. \A s \in new : s \in sessions.mem \/ s = one
    <3> PICK live : live = {s \in sessions.mem : ~Expired(s)}
      OBVIOUS
    <3> PICK owns : owns = Oldest(live, {s \in live : s.user = p.user}, MaxPerUser)
      OBVIOUS
    <3>1. PICK own \in owns :
            new \in {((live \ own) \ oldest) \cup {one} :
                        oldest \in Oldest(live \ own, live \ own, MaxSessions)}
      BY <2>1 DEF Opened
    <3>2. PICK oldest : new = ((live \ own) \ oldest) \cup {one}
      BY <3>1
    <3> QED BY <3>2
  <2> QED BY <1>2, <2>2, <2>3
<1>3. CASE p.op = "change"
  <2>1. new = Revoked(sessions.mem, p)
    BY <1>3 DEF SessionsAfter
  <2>2. ASSUME NEW s \in new
        PROVE  \/ s \in sessions.mem /\ s.user # p.user
               \/ /\ DOMAIN s = {"n", "user", "at", "pw"} /\ s.user = p.user
                  /\ Self(p) /\ p.user \in Known /\ s.pw = users.mem[p.user].pw
    <3>1. CASE s \in {x \in sessions.mem : x.user # p.user}
      BY <3>1
    <3>2. ASSUME NEW x \in sessions.mem, p.user \in Known, x.user = p.user, Self(p),
                 s = [x EXCEPT !.pw = users.mem[p.user].pw]
          PROVE  /\ DOMAIN s = {"n", "user", "at", "pw"} /\ s.user = p.user
                 /\ s.pw = users.mem[p.user].pw
      BY <3>2 DEF AccountInv, Shaped, SessionShaped
    <3> QED BY <2>1, <3>1, <3>2 DEF Revoked
  <2> QED BY <1>3, <2>2
<1>4. CASE p.op = "delete"
  <2>1. new = {s \in sessions.mem : s.user # p.user}
    BY <1>4 DEF SessionsAfter
  <2> QED BY <1>4, <2>1
<1>5. CASE p.op = "signOut"
  <2>1. new = {s \in sessions.mem : s.n # p.session}
    BY <1>5 DEF SessionsAfter
  <2> QED BY <1>5, <2>1
<1> QED BY <1>1, <1>2, <1>3, <1>4, <1>5

\* The sessions it makes are in order, but for an account a fault has touched.
LEMMA SessionsAfterAreCurrent ==
  ASSUME AccountInv, NEW r \in Requests, requests[r].at = "sessions",
         NEW new, new \in SessionsAfter(requests[r])
  PROVE  \A s \in new :
           /\ SessionShaped(s) /\ s.user \in Seen
           /\ \/ s.user \in halfway \/ IsPassword(s.user, s.pw)
              \/ \E x \in Requests \ {r} :
                   /\ requests[x].op = "change" /\ requests[x].at = "sessions"
                   /\ requests[x].user = s.user
<1> DEFINE p == requests[r]
<1> SUFFICES ASSUME NEW s \in new
             PROVE  /\ SessionShaped(s) /\ s.user \in Seen
                    /\ \/ s.user \in halfway \/ IsPassword(s.user, s.pw)
                       \/ \E x \in Requests \ {r} :
                            /\ requests[x].op = "change" /\ requests[x].at = "sessions"
                            /\ requests[x].user = s.user
  OBVIOUS
<1>1. RequestShaped(p) /\ p.op \in {"signIn", "change", "delete", "signOut"}
  BY DEF AccountInv, Shaped, RequestShaped, Ops, Course
<1>2. CASE s \in sessions.mem /\ (p.op \in {"change", "delete"} => s.user # p.user)
  <2>1. SessionShaped(s) /\ s.user \in Seen
    BY <1>2 DEF AccountInv, Shaped, Seen
  <2>2. s.user \in halfway \/ Replacing(s.user) \/ IsPassword(s.user, s.pw)
    BY <1>2 DEF AccountInv, SessionInv
  <2> QED BY <1>2, <2>1, <2>2 DEF Replacing
<1>3. CASE DOMAIN s = {"n", "user", "at", "pw"} /\ s.user = p.user /\ p.op = "signIn" /\ s.pw = p.pw
  <2>1. p.user \in Users /\ p.pw \in Int /\ p.user \in Seen
    BY <1>1, <1>3 DEF RequestShaped, Seen
  <2>2. p.user \in halfway \/ IsPassword(p.user, p.pw)
    BY <1>3 DEF AccountInv, OngoingInv, Ongoing
  <2> QED BY <1>3, <2>1, <2>2 DEF SessionShaped
<1>4. CASE /\ DOMAIN s = {"n", "user", "at", "pw"} /\ s.user = p.user /\ p.op = "change"
           /\ Self(p) /\ p.user \in Known /\ s.pw = users.mem[p.user].pw
  <2>1. p.user \in Users /\ p.user \in Seen /\ s.pw \in Int
    BY <1>4 DEF AccountInv, Shaped, TableShaped, AccountShaped, Known, Seen
  <2>2. Agreed(p.user)
    BY <1>4 DEF AccountInv, OngoingInv, Ongoing
  <2>3. IsPassword(p.user, s.pw)
    BY <1>4, <2>2 DEF IsPassword, HasPassword, Agreed, Known
  <2> QED BY <1>4, <2>1, <2>3 DEF SessionShaped
<1> QED BY <1>2, <1>3, <1>4, SessionsAfterAre
\* The sessions are written, for whichever request comes to it.
LEMMA WriteSessionsSteps ==
  ASSUME AccountInv, NEW r \in Requests, WriteSessions(r)
  PROVE  AccountInv'
<1> DEFINE p == requests[r]
<1>1. PICK new : /\ new \in SessionsAfter(p)
                 /\ sessions' = Both(new)
                 /\ requests' = [requests EXCEPT ![r].at = "publish", ![r].index = Numbers(new)]
  BY DEF WriteSessions
<1>2. /\ RequestShaped(p) /\ p.at = "sessions" /\ serial \in Nat /\ gate = None /\ gate' = r
      /\ serial' \in Nat /\ serial' >= serial
      /\ UNCHANGED <<users, agents, links, issuance, halfway, used, unpublished>>
  BY DEF WriteSessions, GateIsFree, AccountInv, Shaped
<1>3. p.op \in {"signIn", "change", "delete", "signOut"}
  BY <1>2 DEF RequestShaped, Ops, Course
<1>4. \A s \in new : /\ SessionShaped(s) /\ s.user \in Seen
                     /\ \/ s.user \in halfway \/ IsPassword(s.user, s.pw)
                        \/ \E x \in Requests \ {r} :
                             /\ requests[x].op = "change" /\ requests[x].at = "sessions"
                             /\ requests[x].user = s.user
  BY <1>1, <1>2, SessionsAfterAreCurrent
<1> DEFINE q == [p EXCEPT !.at = "publish", !.index = Numbers(new)]
<1>5. requests' = [requests EXCEPT ![r] = q]
  BY <1>1 DEF AccountInv, Shaped
<1>6. /\ Fielded(q) /\ q.at = "publish" /\ q.index = Numbers(new) /\ q.op = p.op
      /\ q.user = p.user /\ q.by = p.by /\ q.pw = p.pw
  BY <1>2 DEF RequestShaped, Fielded
<1>7. sessions'.mem = new /\ sessions'.disk = new
      /\ sessions' = [mem |-> sessions'.mem, disk |-> sessions'.disk]
  BY <1>1 DEF Both
<1> HIDE DEF q
<1>8. RequestShaped(q)
  BY <1>2, <1>3, <1>6 DEF RequestShaped, Ops, Course
<1>9. /\ DOMAIN requests' = Requests /\ requests' = [x \in Requests |-> requests'[x]]
      /\ requests'[r] = q /\ \A x \in Requests : x # r => requests'[x] = requests[x]
  BY <1>5, OneRequest DEF AccountInv
<1>10. Shaped'
  <2>1. \A x \in Requests : RequestShaped(requests'[x])
    BY <1>8, <1>9 DEF AccountInv, Shaped
  <2>2. TableShaped(users.mem)' /\ TableShaped(users.disk)'
    BY <1>2, SerialGrows DEF TableShaped, AccountShaped, AccountInv, Shaped
  <2> QED BY <1>2, <1>4, <1>7, <1>9, <2>1, <2>2 DEF AccountInv, Shaped
<1>11. LinkInv'
  BY <1>2, <1>6, <1>7, <1>9, AccountsAssumption DEF AccountInv, LinkInv, LinksFollowSessions
<1>12. LockInv'
  BY <1>2, <1>3, <1>6, <1>9 DEF AccountInv, LockInv, Issuing
<1>13. Seen' \subseteq Seen
  BY <1>2, <1>3, <1>4, <1>6, <1>7, <1>9 DEF Seen
<1>14. NewInv'
  BY <1>2, <1>3, <1>6, <1>9, <1>13 DEF AccountInv, NewInv, IsCreating
<1>15. CopiesInv'
  BY <1>2 DEF AccountInv, CopiesInv, Agreed
<1>16. SessionInv'
  BY <1>2, <1>4, <1>7, <1>9 DEF SessionInv, Replacing, IsPassword, HasPassword
<1>17. \A u \in Users : Resetting(u) => Resetting(u)'
  BY <1>2, <1>6, <1>9 DEF Resetting, Self
<1>18. AgentInv'
  BY <1>2, <1>17 DEF AccountInv, AgentInv, IsAfterReset, Shaped, AgentShaped
<1>19. OngoingInv'
  <2> SUFFICES ASSUME NEW x \in Requests, NEW y, y = requests'[x]
               PROVE  Ongoing(y)'
    BY DEF OngoingInv
  <2>1. CASE x = r
    <3>1. y = q
      BY <1>9, <2>1
    <3>2. p.op = "change" => Agreed(p.user)
      BY <1>2 DEF AccountInv, OngoingInv, Ongoing
    <3>3. p.op = "change" /\ ~Self(p) => \A s \in new : s.user # p.user
      BY <1>1, <1>2, SessionsAfterAre
    <3> QED BY <1>2, <1>3, <1>6, <1>7, <3>1, <3>2, <3>3 DEF Ongoing, Agreed, Self
  <2>2. CASE x # r
    <3>1. requests[x] = y /\ Ongoing(y)
      BY <1>9, <2>2 DEF AccountInv, OngoingInv
    <3>2. y.op = "change" /\ y.at \in {"publish", "agents"} /\ ~Self(y) =>
            \A s \in new : s.user # y.user
      <4> SUFFICES ASSUME y.op = "change", y.at \in {"publish", "agents"}, ~Self(y),
                          NEW s \in new, s.user = y.user
                   PROVE  FALSE
        OBVIOUS
      <4>1. s \in sessions.mem \/ p.op \in {"signIn", "change"}
        BY <1>1, <1>2, SessionsAfterAre
      <4>2. issuance = x
        BY <3>1 DEF AccountInv, LockInv, Issuing
      <4>3. p.op \notin {"signIn", "change"}
        BY <1>2, <2>2, <4>2 DEF AccountInv, LockInv, Issuing
      <4> QED BY <3>1, <4>1, <4>3 DEF Ongoing
    <3> QED BY <1>2, <1>7, <3>1, <3>2 DEF Ongoing, Agreed, IsPassword, HasPassword, IsAfterReset
  <2> QED BY <2>1, <2>2
<1> QED BY <1>10, <1>11, <1>12, <1>14, <1>15, <1>16, <1>18, <1>19 DEF AccountInv

\* The client goes away while the sessions are written.
LEMMA DiskSessionsSteps ==
  ASSUME AccountInv, NEW r \in Requests, WritesOnlyDisk(r), requests[r].at = "sessions"
  PROVE  AccountInv'
<1> DEFINE p == requests[r]
<1>1. RequestShaped(p) /\ p.at = "sessions" /\ serial \in Nat
  BY DEF AccountInv, Shaped
<1>2. p.op \in {"signIn", "change", "delete", "signOut"}
  BY <1>1 DEF RequestShaped, Ops, Course
<1>3. /\ \E new \in SessionsAfter(p) : sessions' = OnDisk(sessions, new)
      /\ UNCHANGED <<users, agents>>
      /\ Ends(r) /\ issuance' = Freed(issuance, r) /\ serial' = serial + 1
      /\ halfway \subseteq halfway' /\ (p.op \in {"change", "delete"} => p.user \in halfway')
      /\ UNCHANGED <<links, gate, used, unpublished>>
  BY <1>1 DEF WritesOnlyDisk
<1>4. PICK new \in SessionsAfter(p) : sessions' = OnDisk(sessions, new)
  BY <1>3
<1>5. \A s \in new : /\ SessionShaped(s) /\ s.user \in Seen
                     /\ \/ s.user \in halfway \/ IsPassword(s.user, s.pw)
                        \/ \E x \in Requests \ {r} :
                             /\ requests[x].op = "change" /\ requests[x].at = "sessions"
                             /\ requests[x].user = s.user
  BY <1>1, <1>4, SessionsAfterAreCurrent
<1>6. /\ DOMAIN requests' = Requests /\ requests' = [x \in Requests |-> requests'[x]]
      /\ requests'[r] = Idle /\ \A x \in Requests : x # r => requests'[x] = requests[x]
      /\ \A x \in Requests : RequestShaped(requests'[x])
      /\ LockInv'
      /\ \A u \in Users : /\ Replacing(u) => Replacing(u)' \/ u \in halfway'
                          /\ Resetting(u) => Resetting(u)' \/ u \in halfway'
  <2>1. Owing(p) => p.user \in halfway'
    BY <1>3 DEF Owing
  <2> QED BY <1>3, <2>1, Dropping
<1>7. sessions'.mem = sessions.mem /\ sessions'.disk = new
      /\ sessions' = [mem |-> sessions'.mem, disk |-> sessions'.disk]
  BY <1>4 DEF OnDisk, AccountInv, Shaped
<1>8. Shaped'
  <2>1. serial' \in Nat /\ serial' >= serial
    BY <1>1, <1>3
  <2>2. TableShaped(users.mem)' /\ TableShaped(users.disk)'
    BY <1>1, <1>3, <2>1, SerialGrows DEF TableShaped, AccountShaped, AccountInv, Shaped
  <2> QED BY <1>3, <1>5, <1>6, <1>7, <2>1, <2>2 DEF AccountInv, Shaped
<1>9. LinkInv'
  BY <1>1, <1>3, <1>6, <1>7, IdleRequest DEF AccountInv, LinkInv, LinksFollowSessions, Numbers
<1>10. Seen' \subseteq Seen
  BY <1>3, <1>5, <1>6, <1>7, IdleRequest DEF Seen
<1>11. NewInv'
  BY <1>3, <1>6, <1>10, IdleRequest DEF AccountInv, NewInv, IsCreating
<1>12. CopiesInv'
  BY <1>3 DEF AccountInv, CopiesInv, Agreed
<1>13. SessionInv'
  <2>1. \A s \in sessions.mem : s.user \in halfway' \/ Replacing(s.user)' \/ IsPassword(s.user, s.pw)
    BY <1>3, <1>6 DEF AccountInv, SessionInv, Shaped, SessionShaped
  <2>2. \A s \in new : s.user \in halfway' \/ Replacing(s.user)' \/ IsPassword(s.user, s.pw)
    BY <1>3, <1>5, <1>6 DEF Replacing
  <2> QED BY <1>3, <1>7, <2>1, <2>2 DEF SessionInv, IsPassword, HasPassword
<1>14. AgentInv'
  BY <1>3, <1>6 DEF AccountInv, AgentInv, IsAfterReset, Shaped, AgentShaped
<1>15. OngoingInv'
  <2> SUFFICES ASSUME NEW x \in Requests, NEW y, y = requests'[x]
               PROVE  Ongoing(y)'
    BY DEF OngoingInv
  <2>1. CASE x = r
    BY <1>6, <2>1, IdleRequest DEF Ongoing
  <2>2. CASE x # r
    <3>1. requests[x] = y /\ Ongoing(y)
      BY <1>6, <2>2 DEF AccountInv, OngoingInv
    <3>2. y.op = "change" /\ y.at \in {"publish", "agents"} /\ ~Self(y) =>
            \A s \in new : s.user # y.user
      <4> SUFFICES ASSUME y.op = "change", y.at \in {"publish", "agents"}, ~Self(y),
                          NEW s \in new, s.user = y.user
                   PROVE  FALSE
        OBVIOUS
      <4>1. s \in sessions.mem \/ p.op \in {"signIn", "change"}
        BY <1>1, <1>4, SessionsAfterAre
      <4>2. issuance = x
        BY <3>1 DEF AccountInv, LockInv, Issuing
      <4>3. p.op \notin {"signIn", "change"}
        BY <1>1, <2>2, <4>2 DEF AccountInv, LockInv, Issuing
      <4> QED BY <3>1, <4>1, <4>3 DEF Ongoing
    <3> QED BY <1>3, <1>7, <3>1, <3>2 DEF Ongoing, Agreed, IsPassword, HasPassword, IsAfterReset
  <2> QED BY <2>1, <2>2
<1> QED BY <1>6, <1>8, <1>9, <1>11, <1>12, <1>13, <1>14, <1>15 DEF AccountInv

--------------------------------------------------------------------------------
(* After the sessions: the links and the agent tokens.                         *)

LEMMA PublishSteps ==
  ASSUME AccountInv, NEW r \in Requests, PublishLinks(r)
  PROVE  AccountInv'
<1> DEFINE p == requests[r]
           goesOn == p.op = "delete" \/ (p.op = "change" /\ ~Self(p))
<1>1. /\ p.at = "publish" /\ links' = p.index /\ gate' = Freed(gate, r) /\ unpublished' = FALSE
      /\ UNCHANGED <<users, sessions, agents, serial, halfway, used>>
      /\ goesOn => Moves(r, "agents") /\ UNCHANGED issuance
      /\ ~goesOn => Ends(r) /\ issuance' = Freed(issuance, r)
  BY DEF PublishLinks
<1>2. RequestShaped(p) /\ p.op \in {"signIn", "change", "delete", "signOut"}
  BY <1>1 DEF AccountInv, Shaped, RequestShaped, Ops, Course
<1>3. gate = r /\ gate' = None /\ links' = Numbers(sessions.mem)
  BY <1>1 DEF AccountInv, LinkInv, Freed
<1>4. PICK q : /\ requests' = [requests EXCEPT ![r] = q] /\ RequestShaped(q)
               /\ q.at # "publish" /\ q.op \notin {"create", "signIn", "agent"}
               /\ goesOn => q.op = p.op /\ q.at = "agents" /\ q.user = p.user /\ Self(q) = Self(p)
               /\ ~goesOn => q.op = "none"
  <2>1. CASE goesOn
    <3> DEFINE q == [p EXCEPT !.at = "agents"]
    <3>1. requests' = [requests EXCEPT ![r] = q]
      BY <1>1, <2>1 DEF Moves
    <3>2. /\ Fielded(q) /\ q.op = p.op /\ q.at = "agents" /\ q.user = p.user /\ q.by = p.by
          /\ q.pw = p.pw
      BY <1>2 DEF RequestShaped, Fielded
    <3> HIDE DEF q
    <3>3. Self(q) = Self(p)
      BY <3>2 DEF Self
    <3>4. RequestShaped(q)
      BY <1>2, <2>1, <3>2, <3>3 DEF RequestShaped, Ops, Course
    <3> QED BY <1>2, <2>1, <3>1, <3>2, <3>3, <3>4
  <2>2. CASE ~goesOn
    BY <1>1, <2>2, IdleRequest DEF Ends
  <2> QED BY <2>1, <2>2
<1>5. /\ DOMAIN requests' = Requests /\ requests' = [x \in Requests |-> requests'[x]]
      /\ requests'[r] = q /\ \A x \in Requests : x # r => requests'[x] = requests[x]
  BY <1>4, OneRequest DEF AccountInv
<1>6. q.op \in {"none", "delete"} \/ (q.op = "change" /\ goesOn /\ p.op = "change")
  BY <1>4
<1>7. Shaped'
  <2>1. \A x \in Requests : RequestShaped(requests'[x])
    BY <1>4, <1>5 DEF AccountInv, Shaped
  <2>2. serial' \in Nat /\ serial' >= serial
    BY <1>1 DEF AccountInv, Shaped
  <2> QED BY <1>1, <1>5, <2>1, <2>2, StoresStayShaped DEF AccountInv
<1>8. LinkInv'
  <2>1. \A x \in Requests : requests'[x].at # "publish"
    BY <1>3, <1>4, <1>5 DEF AccountInv, LinkInv
  <2> QED BY <1>1, <1>3, <2>1 DEF LinkInv, LinksFollowSessions, Numbers
<1>9. LockInv'
  <2> SUFFICES ASSUME NEW x \in Requests, Issuing(requests'[x])
               PROVE  issuance' = x
    BY DEF LockInv, Issuing
  <2>1. CASE x = r
    <3>1. goesOn /\ p.op = "change"
      BY <1>4, <1>5, <1>6, <2>1 DEF Issuing
    <3> QED BY <1>1, <2>1, <3>1 DEF AccountInv, LockInv, Issuing
  <2>2. CASE x # r
    <3>1. issuance = x
      BY <1>5, <2>2 DEF AccountInv, LockInv
    <3> QED BY <1>1, <2>2, <3>1 DEF Freed
  <2> QED BY <2>1, <2>2
<1>10. Seen' \subseteq Seen
  BY <1>1, <1>4, <1>5 DEF Seen
<1>11. NewInv'
  BY <1>1, <1>4, <1>5, <1>10 DEF AccountInv, NewInv, IsCreating
<1>12. CopiesInv'
  BY <1>1 DEF AccountInv, CopiesInv, Agreed
<1>13. \A u \in Users : Replacing(u) => Replacing(u)'
  BY <1>1, <1>5 DEF Replacing
<1>14. \A u \in Users : Resetting(u) => Resetting(u)'
  BY <1>4, <1>5 DEF Resetting
<1>15. /\ \A x \in sessions.mem \cup sessions.disk : x.user \in Users
       /\ \A t \in agents.mem \cup agents.disk : t.user \in Users
  BY DEF AccountInv, Shaped, SessionShaped, AgentShaped
<1>16. SessionInv'
  BY <1>1, <1>13, <1>15 DEF AccountInv, SessionInv, IsPassword, HasPassword
<1>17. AgentInv'
  BY <1>1, <1>14, <1>15 DEF AccountInv, AgentInv, IsAfterReset
<1>18. OngoingInv'
  <2> SUFFICES ASSUME NEW x \in Requests, NEW y, y = requests'[x]
               PROVE  Ongoing(y)'
    BY DEF OngoingInv
  <2>1. CASE x = r
    <3>1. p.op = "change" /\ goesOn =>
            Agreed(p.user) /\ \A s \in sessions.mem \cup sessions.disk : s.user # p.user
      BY <1>1 DEF AccountInv, OngoingInv, Ongoing
    <3> QED BY <1>1, <1>4, <1>5, <1>6, <2>1, <3>1 DEF Ongoing, Agreed
  <2>2. CASE x # r
    BY <1>1, <1>5, <2>2 DEF AccountInv, OngoingInv, Ongoing, IsPassword, HasPassword, IsAfterReset, Agreed
  <2> QED BY <2>1, <2>2
<1> QED BY <1>7, <1>8, <1>9, <1>11, <1>12, <1>16, <1>17, <1>18 DEF AccountInv

\* A new token is of somebody seen, and after the last reset.
LEMMA NewAgentsAre ==
  ASSUME AccountInv, NEW r \in Requests, requests[r].op = "agent", requests[r].at = "agents"
  PROVE  LET p == requests[r] IN
         /\ p.user \in Users /\ p.user \in Seen
         /\ \A t \in NewAgents(p) :
              \/ t \in agents.mem
              \/ AgentShaped(t) /\ t.user = p.user
                 /\ (p.user \in halfway \/ IsAfterReset(p.user, t.pw))
<1> DEFINE p == requests[r]
           one == [n |-> serial, user |-> p.by, pw |-> p.pw]
<1>1. RequestShaped(p) /\ p.user = p.by /\ p.user \in Users /\ p.pw \in Int
  BY DEF AccountInv, Shaped, RequestShaped
<1>2. p.user \in Seen
  BY <1>1 DEF Seen
<1>3. DOMAIN one = {"n", "user", "pw"} /\ one.user = p.user /\ one.pw = p.pw
  BY <1>1
<1>4. p.user \in halfway \/ IsAfterReset(p.user, p.pw)
  BY DEF AccountInv, OngoingInv, Ongoing
<1>5. NewAgents(p) = agents.mem \cup {one}
  BY DEF NewAgents
<1> HIDE DEF one
<1>6. AgentShaped(one)
  BY <1>1, <1>3 DEF AgentShaped
<1> QED BY <1>1, <1>2, <1>3, <1>4, <1>5, <1>6

\* A new agent token is written.
LEMMA NewAgentSteps ==
  ASSUME AccountInv, NEW r \in Requests, WriteNewAgent(r)
  PROVE  AccountInv'
<1> DEFINE p == requests[r]
<1>1. /\ p.op = "agent" /\ p.at = "agents"
      /\ agents' = IF HasAgentRoom(p) THEN Both(NewAgents(p)) ELSE agents
      /\ serial' = serial + 1 /\ issuance' = Freed(issuance, r) /\ Ends(r)
      /\ UNCHANGED <<users, sessions, links, gate, halfway, used, unpublished>>
  BY DEF WriteNewAgent
<1>2. /\ p.user \in Users /\ p.user \in Seen
      /\ \A t \in NewAgents(p) :
           \/ t \in agents.mem
           \/ AgentShaped(t) /\ t.user = p.user
              /\ (p.user \in halfway \/ IsAfterReset(p.user, t.pw))
  BY <1>1, NewAgentsAre
<1>3. /\ DOMAIN requests' = Requests /\ requests' = [x \in Requests |-> requests'[x]]
      /\ requests'[r] = Idle /\ \A x \in Requests : x # r => requests'[x] = requests[x]
      /\ \A x \in Requests : RequestShaped(requests'[x])
      /\ LockInv'
      /\ \A u \in Users : /\ Replacing(u) => Replacing(u)' \/ u \in halfway'
                          /\ Resetting(u) => Resetting(u)' \/ u \in halfway'
  <2>1. ~Owing(p)
    BY <1>1 DEF Owing
  <2> QED BY <1>1, <2>1, Dropping
<1>4. agents' = agents \/ (agents'.mem = NewAgents(p) /\ agents'.disk = NewAgents(p)
                           /\ agents' = [mem |-> agents'.mem, disk |-> agents'.disk])
  BY <1>1 DEF Both
<1> HIDE DEF p
<1>5. Shaped'
  <2>1. serial' \in Nat /\ serial' >= serial
    BY <1>1 DEF AccountInv, Shaped
  <2>2. TableShaped(users.mem)' /\ TableShaped(users.disk)'
    BY <1>1, <2>1, SerialGrows DEF TableShaped, AccountShaped, AccountInv, Shaped
  <2>3. agents' = [mem |-> agents'.mem, disk |-> agents'.disk]
        /\ \A t \in agents'.mem \cup agents'.disk : AgentShaped(t)
    BY <1>2, <1>4 DEF AccountInv, Shaped
  <2> QED BY <1>1, <1>3, <2>1, <2>2, <2>3 DEF AccountInv, Shaped
<1>6. p = requests[r]
  BY DEF p
<1>7. LinkInv'
  BY <1>1, <1>3, <1>6, IdleRequest DEF AccountInv, LinkInv, LinksFollowSessions, Numbers
<1>8. Seen' \subseteq Seen
  BY <1>1, <1>2, <1>3, <1>4, IdleRequest DEF Seen
<1>9. NewInv'
  BY <1>1, <1>3, <1>8, IdleRequest DEF AccountInv, NewInv, IsCreating
<1>10. CopiesInv'
  BY <1>1 DEF AccountInv, CopiesInv, Agreed
<1>11. SessionInv'
  BY <1>1, <1>3 DEF AccountInv, SessionInv, IsPassword, HasPassword, Shaped, SessionShaped
<1>12. AgentInv'
  <2>1. \A t \in agents.mem \cup agents.disk :
          t.user \in halfway' \/ Resetting(t.user)' \/ IsAfterReset(t.user, t.pw)
    BY <1>1, <1>3 DEF AccountInv, AgentInv, Shaped, AgentShaped
  <2>2. \A t \in agents.disk \ agents.mem : t.user \in halfway
    BY DEF AccountInv, AgentInv
  <2>3. \A t \in agents'.mem \cup agents'.disk :
          t.user \in halfway' \/ Resetting(t.user)' \/ IsAfterReset(t.user, t.pw)
    BY <1>1, <1>2, <1>4, <2>1
  <2>4. \A t \in agents'.disk \ agents'.mem : t.user \in halfway
    BY <1>4, <2>2
  <2> QED BY <1>1, <2>3, <2>4 DEF AgentInv, IsAfterReset
<1>13. OngoingInv'
  <2> SUFFICES ASSUME NEW x \in Requests, NEW y, y = requests'[x]
               PROVE  Ongoing(y)'
    BY DEF OngoingInv
  <2>1. CASE x = r
    BY <1>3, <2>1, IdleRequest DEF Ongoing
  <2>2. CASE x # r
    BY <1>1, <1>3, <2>2 DEF AccountInv, OngoingInv, Ongoing, IsPassword, HasPassword, IsAfterReset, Agreed
  <2> QED BY <2>1, <2>2
<1> QED BY <1>3, <1>5, <1>7, <1>9, <1>10, <1>11, <1>12, <1>13 DEF AccountInv

\* A listener's agent tokens are revoked: the last step of a reset.
LEMMA RevokingSteps ==
  ASSUME AccountInv, NEW r \in Requests, RevokeAgents(r)
  PROVE  AccountInv'
<1> DEFINE p == requests[r]
<1>1. /\ p.op \in {"change", "delete"} /\ p.at = "agents"
      /\ agents' = IF OthersAgents(p) = agents.mem THEN agents ELSE Both(OthersAgents(p))
      /\ UNCHANGED <<users, sessions, links, gate, serial, used, unpublished>>
      /\ p.op = "delete" => Moves(r, "places") /\ UNCHANGED <<issuance, halfway>>
      /\ p.op = "change" =>
           /\ Ends(r) /\ issuance' = Freed(issuance, r)
           /\ halfway' = IF agents'.disk = agents'.mem THEN halfway \ {p.user} ELSE halfway
  BY DEF RevokeAgents
<1>2. RequestShaped(p) /\ (p.op = "change" => ~Self(p)) /\ p.user \in Users
  BY <1>1 DEF AccountInv, Shaped, RequestShaped
<1>3. PICK q : /\ requests' = [requests EXCEPT ![r] = q] /\ RequestShaped(q)
               /\ q.op \in {"none", "delete"} /\ q.at # "publish"
  <2>1. CASE p.op = "delete"
    <3> DEFINE q == [p EXCEPT !.at = "places"]
    <3>1. requests' = [requests EXCEPT ![r] = q]
      BY <1>1, <2>1 DEF Moves
    <3>2. /\ Fielded(q) /\ q.op = p.op /\ q.at = "places" /\ q.user = p.user /\ q.by = p.by
          /\ q.pw = p.pw
      BY <1>2 DEF RequestShaped, Fielded
    <3> HIDE DEF q
    <3>3. RequestShaped(q)
      BY <1>2, <2>1, <3>2 DEF RequestShaped, Ops, Course
    <3> QED BY <2>1, <3>1, <3>2, <3>3
  <2>2. CASE p.op = "change"
    BY <1>1, <2>2, IdleRequest DEF Ends
  <2> QED BY <1>1, <2>1, <2>2
<1>4. /\ DOMAIN requests' = Requests /\ requests' = [x \in Requests |-> requests'[x]]
      /\ requests'[r] = q /\ \A x \in Requests : x # r => requests'[x] = requests[x]
  BY <1>3, OneRequest DEF AccountInv
<1>5. \/ agents' = agents /\ \A t \in agents.mem : t.user # p.user
      \/ /\ agents' = [mem |-> agents'.mem, disk |-> agents'.disk]
         /\ agents'.mem = agents'.disk
         /\ \A t \in agents'.mem : t \in agents.mem /\ t.user # p.user
  BY <1>1 DEF Both, OthersAgents
<1>6. /\ agents' = [mem |-> agents'.mem, disk |-> agents'.disk]
      /\ \A t \in agents'.mem \cup agents'.disk : t \in agents.mem \cup agents.disk
      /\ \A t \in agents'.mem : t.user # p.user
      /\ \A t \in agents'.disk \ agents'.mem : t \in agents.disk \ agents.mem
      /\ agents'.disk # agents'.mem => agents' = agents
  BY <1>5 DEF AccountInv, Shaped
<1>7. p.op = "change" =>
        /\ issuance = r /\ issuance' = None
        /\ Agreed(p.user)
        /\ \A s \in sessions.mem \cup sessions.disk : s.user # p.user
  BY <1>1, <1>2 DEF AccountInv, LockInv, Issuing, Freed, OngoingInv, Ongoing
<1>8. p = requests[r]
  OBVIOUS
<1>9. halfway' = halfway \/ (halfway' = halfway \ {p.user} /\ p.op = "change" /\ agents'.disk = agents'.mem)
  BY <1>1
<1> HIDE DEF p
<1>10. Shaped'
  <2>1. \A x \in Requests : RequestShaped(requests'[x])
    BY <1>3, <1>4 DEF AccountInv, Shaped
  <2>2. TableShaped(users.mem)' /\ TableShaped(users.disk)'
    BY <1>1 DEF TableShaped, AccountShaped, AccountInv, Shaped
  <2>3. \A t \in agents'.mem \cup agents'.disk : AgentShaped(t)
    BY <1>6 DEF AccountInv, Shaped
  <2> QED BY <1>1, <1>4, <1>6, <2>1, <2>2, <2>3 DEF AccountInv, Shaped
<1>11. LinkInv'
  BY <1>1, <1>3, <1>4, <1>8 DEF AccountInv, LinkInv, LinksFollowSessions, Numbers
<1>12. LockInv'
  <2> SUFFICES ASSUME NEW x \in Requests, Issuing(requests'[x])
               PROVE  issuance' = x
    BY DEF LockInv
  <2>1. x # r
    BY <1>3, <1>4 DEF Issuing
  <2>2. issuance = x
    BY <1>4, <2>1 DEF AccountInv, LockInv
  <2> QED BY <1>1, <1>7, <2>1, <2>2
<1>13. Seen' \subseteq Seen
  BY <1>1, <1>3, <1>4, <1>6 DEF Seen
<1>14. NewInv'
  BY <1>1, <1>3, <1>4, <1>13 DEF AccountInv, NewInv, IsCreating
<1>15. CopiesInv'
  BY <1>1, <1>7, <1>9 DEF AccountInv, CopiesInv, Agreed
<1>16. \A u \in Users : Replacing(u) => Replacing(u)'
  BY <1>1, <1>4, <1>8 DEF Replacing
<1>17. \A u \in Users \ {p.user} : Resetting(u) => Resetting(u)'
  BY <1>4, <1>8 DEF Resetting
<1>19. SessionInv'
  BY <1>1, <1>7, <1>9, <1>16 DEF AccountInv, SessionInv, IsPassword, HasPassword, Shaped, SessionShaped
<1>20. AgentInv'
  <2>1. \A t \in agents'.disk \ agents'.mem : t.user \in halfway'
    BY <1>6, <1>9 DEF AccountInv, AgentInv
  <2>2. ASSUME NEW t \in agents'.mem \cup agents'.disk, t.user \notin halfway'
        PROVE  Resetting(t.user)' \/ IsAfterReset(t.user, t.pw)
    <3>1. t \in agents'.mem /\ t.user # p.user
      BY <1>6, <2>1, <2>2
    <3>2. t \in agents.mem \cup agents.disk /\ t.user \in Users /\ t.user \notin halfway
      BY <1>6, <1>9, <2>2, <3>1 DEF AccountInv, Shaped, AgentShaped
    <3> QED BY <1>17, <3>1, <3>2 DEF AccountInv, AgentInv
  <2> QED BY <1>1, <2>1, <2>2 DEF AgentInv, IsAfterReset
<1>21. OngoingInv'
  <2> SUFFICES ASSUME NEW x \in Requests, NEW y, y = requests'[x]
               PROVE  Ongoing(y)'
    BY DEF OngoingInv
  <2>1. CASE x = r
    BY <1>3, <1>4, <2>1 DEF Ongoing
  <2>2. CASE x # r
    <3>1. requests[x] = y /\ Ongoing(y)
      BY <1>4, <2>2 DEF AccountInv, OngoingInv
    <3>2. Issuing(y) => issuance = x
      BY <3>1 DEF AccountInv, LockInv
    <3>3. CASE halfway' = halfway
      BY <1>1, <3>1, <3>3 DEF Ongoing, IsPassword, HasPassword, IsAfterReset, Agreed
    <3>4. CASE halfway' # halfway
      <4>1. ~Issuing(y)
        BY <1>7, <1>9, <2>2, <3>2, <3>4
      <4> QED BY <1>1, <3>1, <4>1 DEF Ongoing, Issuing, Agreed
    <3> QED BY <3>3, <3>4
  <2> QED BY <2>1, <2>2
<1> QED BY <1>10, <1>11, <1>12, <1>14, <1>15, <1>19, <1>20, <1>21 DEF AccountInv

\* A listener takes back one of their own tokens.
LEMMA TakingBackSteps ==
  ASSUME AccountInv, NEW s \in sessions.mem, NEW t \in agents.mem, RevokeAgent(s, t)
  PROVE  AccountInv'
<1>1. /\ agents' = Both(agents.mem \ {t})
      /\ UNCHANGED <<requests, users, sessions, links, issuance, gate, serial, halfway, used, unpublished>>
  BY DEF RevokeAgent
<1>2. /\ agents'.mem = agents.mem \ {t} /\ agents'.disk = agents.mem \ {t}
      /\ agents' = [mem |-> agents'.mem, disk |-> agents'.disk]
  BY <1>1 DEF Both
<1>3. Shaped'
  <2>1. \A x \in agents'.mem \cup agents'.disk : AgentShaped(x)
    BY <1>2 DEF AccountInv, Shaped
  <2>2. TableShaped(users.mem)' /\ TableShaped(users.disk)'
    BY <1>1 DEF TableShaped, AccountShaped, AccountInv, Shaped
  <2> QED BY <1>1, <1>2, <2>1, <2>2 DEF AccountInv, Shaped
<1>4. LinkInv' /\ LockInv'
  BY <1>1 DEF AccountInv, LinkInv, LinksFollowSessions, Numbers, LockInv
<1>5. Seen' \subseteq Seen
  BY <1>1, <1>2 DEF Seen
<1>6. NewInv'
  BY <1>1, <1>5 DEF AccountInv, NewInv, IsCreating
<1>7. CopiesInv' /\ OngoingInv'
  BY <1>1 DEF AccountInv, CopiesInv, OngoingInv, Ongoing, Agreed, IsPassword, HasPassword, IsAfterReset
<1>8. SessionInv'
  BY <1>1 DEF AccountInv, SessionInv, Replacing, IsPassword, HasPassword
<1>9. AgentInv'
  BY <1>1, <1>2 DEF AccountInv, AgentInv, Resetting, IsAfterReset
<1> QED BY <1>3, <1>4, <1>6, <1>7, <1>8, <1>9 DEF AccountInv

\* The client goes away while the agent tokens are written.
LEMMA DiskAgentsSteps ==
  ASSUME AccountInv, NEW r \in Requests, WritesOnlyDisk(r), requests[r].at = "agents"
  PROVE  AccountInv'
<1> DEFINE p == requests[r]
<1>1. RequestShaped(p) /\ p.at = "agents" /\ serial \in Nat
  BY DEF AccountInv, Shaped
<1>2. p.op \in {"change", "delete", "agent"}
  BY <1>1 DEF RequestShaped, Ops, Course
<1>3. /\ agents' = OnDisk(agents, IF p.op = "agent" THEN NewAgents(p) ELSE OthersAgents(p))
      /\ UNCHANGED <<users, sessions, links, gate, used, unpublished>>
      /\ Ends(r) /\ issuance' = Freed(issuance, r) /\ serial' = serial + 1
      /\ halfway \subseteq halfway' /\ p.user \in halfway'
  BY <1>1, <1>2 DEF WritesOnlyDisk
<1>4. p.op = "agent" =>
        /\ p.user \in Users /\ p.user \in Seen
        /\ \A t \in NewAgents(p) :
             \/ t \in agents.mem
             \/ AgentShaped(t) /\ t.user = p.user
                /\ (p.user \in halfway \/ IsAfterReset(p.user, t.pw))
  BY <1>1, NewAgentsAre
<1>5. PICK new : /\ agents' = OnDisk(agents, new)
                 /\ \A t \in new : t \in agents.mem \/ (AgentShaped(t) /\ t.user = p.user /\ p.user \in Seen)
  BY <1>2, <1>3, <1>4 DEF OthersAgents
<1>6. /\ DOMAIN requests' = Requests /\ requests' = [x \in Requests |-> requests'[x]]
      /\ requests'[r] = Idle /\ \A x \in Requests : x # r => requests'[x] = requests[x]
      /\ \A x \in Requests : RequestShaped(requests'[x])
      /\ LockInv'
      /\ \A u \in Users : /\ Replacing(u) => Replacing(u)' \/ u \in halfway'
                          /\ Resetting(u) => Resetting(u)' \/ u \in halfway'
  BY <1>3, Dropping
<1>7. agents'.mem = agents.mem /\ agents'.disk = new
      /\ agents' = [mem |-> agents'.mem, disk |-> agents'.disk]
  BY <1>5 DEF OnDisk, AccountInv, Shaped
<1> HIDE DEF p
<1>8. p = requests[r]
  BY DEF p
<1>9. Shaped'
  <2>1. serial' \in Nat /\ serial' >= serial
    BY <1>1, <1>3
  <2>2. TableShaped(users.mem)' /\ TableShaped(users.disk)'
    BY <1>1, <1>3, <2>1, SerialGrows DEF TableShaped, AccountShaped, AccountInv, Shaped
  <2>3. \A t \in agents'.mem \cup agents'.disk : AgentShaped(t)
    BY <1>5, <1>7 DEF AccountInv, Shaped
  <2> QED BY <1>3, <1>6, <1>7, <2>1, <2>2, <2>3 DEF AccountInv, Shaped
<1>10. LinkInv'
  BY <1>1, <1>3, <1>6, <1>8, IdleRequest DEF AccountInv, LinkInv, LinksFollowSessions, Numbers
<1>11. Seen' \subseteq Seen
  BY <1>3, <1>5, <1>6, <1>7, IdleRequest DEF Seen
<1>12. NewInv'
  BY <1>3, <1>6, <1>11, IdleRequest DEF AccountInv, NewInv, IsCreating
<1>13. CopiesInv'
  BY <1>3 DEF AccountInv, CopiesInv, Agreed
<1>14. SessionInv'
  BY <1>3, <1>6 DEF AccountInv, SessionInv, IsPassword, HasPassword, Shaped, SessionShaped
<1>15. AgentInv'
  <2>1. \A t \in agents.mem : t.user \in halfway' \/ Resetting(t.user)' \/ IsAfterReset(t.user, t.pw)
    BY <1>3, <1>6 DEF AccountInv, AgentInv, Shaped, AgentShaped
  <2>2. \A t \in new : t.user \in halfway' \/ t \in agents.mem
    BY <1>3, <1>5
  <2> QED BY <1>3, <1>7, <2>1, <2>2 DEF AgentInv, IsAfterReset
<1>16. OngoingInv'
  <2> SUFFICES ASSUME NEW x \in Requests, NEW y, y = requests'[x]
               PROVE  Ongoing(y)'
    BY DEF OngoingInv
  <2>1. CASE x = r
    BY <1>6, <2>1, IdleRequest DEF Ongoing
  <2>2. CASE x # r
    BY <1>3, <1>6, <2>2 DEF AccountInv, OngoingInv, Ongoing, IsPassword, HasPassword, IsAfterReset, Agreed
  <2> QED BY <2>1, <2>2
<1> QED BY <1>6, <1>9, <1>10, <1>12, <1>13, <1>14, <1>15, <1>16 DEF AccountInv

--------------------------------------------------------------------------------
(* Restarts.                                                                   *)

\* After a start everything is what the disk had, and nothing is under way.
LEMMA RestartSteps ==
  ASSUME AccountInv, RestartAccounts
  PROVE  AccountInv'
<1>1. /\ users' = Both(users.disk) /\ sessions' = Both(sessions.disk)
      /\ agents' = Both(agents.disk) /\ links' = Numbers(sessions.disk)
      /\ issuance' = None /\ gate' = None /\ requests' = [r \in Requests |-> Idle]
      /\ halfway \subseteq halfway'
      /\ \A r \in Requests : Owing(requests[r]) => requests[r].user \in halfway'
      /\ UNCHANGED <<serial, used>>
  BY DEF RestartAccounts
<1>2. /\ users'.mem = users.disk /\ users'.disk = users.disk
      /\ users' = [mem |-> users'.mem, disk |-> users'.disk]
      /\ sessions'.mem = sessions.disk /\ sessions'.disk = sessions.disk
      /\ sessions' = [mem |-> sessions'.mem, disk |-> sessions'.disk]
      /\ agents'.mem = agents.disk /\ agents'.disk = agents.disk
      /\ agents' = [mem |-> agents'.mem, disk |-> agents'.disk]
  BY <1>1 DEF Both
<1>3. \A r \in Requests : requests'[r] = Idle
  BY <1>1
<1>4. Shaped'
  <2>1. TableShaped(users.mem)' /\ TableShaped(users.disk)'
    BY <1>1, <1>2 DEF TableShaped, AccountShaped, AccountInv, Shaped
  <2>2. \A r \in Requests : RequestShaped(requests'[r])
    BY <1>3, IdleRequest
  <2>3. DOMAIN requests' = Requests /\ requests' = [r \in Requests |-> requests'[r]]
    BY <1>1
  <2> QED BY <1>1, <1>2, <2>1, <2>2, <2>3 DEF AccountInv, Shaped
<1>5. LinkInv'
  BY <1>1, <1>2, <1>3, IdleRequest DEF LinkInv, LinksFollowSessions, Numbers
<1>6. LockInv'
  BY <1>3, IdleRequest DEF LockInv, Issuing
<1>7. Seen' \subseteq Seen
  BY <1>2, <1>3, IdleRequest DEF Seen
<1>8. NewInv'
  BY <1>1, <1>3, <1>7, IdleRequest DEF AccountInv, NewInv, IsCreating
<1>9. CopiesInv'
  BY <1>2 DEF CopiesInv, Agreed
<1>10. \A u \in Users : Replacing(u) \/ Resetting(u) => u \in halfway'
  <2> SUFFICES ASSUME NEW u \in Users, Replacing(u) \/ Resetting(u)
               PROVE  u \in halfway'
    OBVIOUS
  <2> PICK x \in Requests : requests[x].op = "change" /\ requests[x].at # "users" /\ requests[x].user = u
    BY DEF Replacing, Resetting
  <2>1. Owing(requests[x])
    BY DEF Owing, AccountInv, Shaped, RequestShaped, Course
  <2> QED BY <1>1, <2>1
<1>11. SessionInv'
  BY <1>1, <1>2, <1>10 DEF AccountInv, SessionInv, IsPassword, HasPassword, Shaped, SessionShaped
<1>12. AgentInv'
  BY <1>1, <1>2, <1>10 DEF AccountInv, AgentInv, IsAfterReset, Shaped, AgentShaped
<1>13. OngoingInv'
  BY <1>3, IdleRequest DEF OngoingInv, Ongoing
<1> QED BY <1>4, <1>5, <1>6, <1>8, <1>9, <1>11, <1>12, <1>13 DEF AccountInv

--------------------------------------------------------------------------------
(* The beginning.                                                              *)

LEMMA Beginning ==
  ASSUME ListenersInit
  PROVE  AccountInv /\ OpenInv
<1> DEFINE first == [role |-> "owner", pw |-> 0, reset |-> 0]
<1>1. /\ \A r \in Requests : requests[r] = Idle
      /\ DOMAIN requests = Requests /\ requests = [r \in Requests |-> requests[r]]
      /\ issuance = None /\ gate = None /\ serial = 3 /\ halfway = {}
      /\ agents = Both({}) /\ links = Numbers(sessions.mem)
      /\ used = DOMAIN users.mem
  BY DEF ListenersInit, AccountsInit, Known
<1>2. /\ users = [mem |-> users.mem, disk |-> users.disk] /\ users.mem = users.disk
      /\ DOMAIN users.mem = {Root} \cup Readers
      /\ \A u \in DOMAIN users.mem :
           /\ DOMAIN users.mem[u] = {"role", "pw", "reset"}
           /\ users.mem[u].pw = 0 /\ users.mem[u].reset = 0
  BY DEF ListenersInit, AccountsInit, Both
<1>3. /\ sessions = [mem |-> sessions.mem, disk |-> sessions.disk] /\ sessions.mem = sessions.disk
      /\ \A s \in sessions.mem : /\ DOMAIN s = {"n", "user", "at", "pw"}
                                 /\ s.pw = 0 /\ s.user \in {Root} \cup Readers
  BY DEF ListenersInit, AccountsInit, Both
<1>4. agents = [mem |-> agents.mem, disk |-> agents.disk] /\ agents.mem = {} /\ agents.disk = {}
  BY <1>1 DEF Both
<1>5. Root \in Users /\ Readers \subseteq Users
  BY AccountsAssumption
<1>6. Shaped
  <2>1. TableShaped(users.mem) /\ TableShaped(users.disk)
    BY <1>1, <1>2, <1>5 DEF TableShaped, AccountShaped
  <2>2. \A s \in sessions.mem \cup sessions.disk : SessionShaped(s)
    BY <1>3, <1>5 DEF SessionShaped
  <2> QED BY <1>1, <1>2, <1>3, <1>4, <2>1, <2>2, IdleRequest DEF Shaped
<1>7. LinkInv /\ LockInv
  BY <1>1, IdleRequest DEF LinkInv, LinksFollowSessions, LockInv, Issuing
<1>8. NewInv
  BY <1>1, <1>2, <1>3, <1>4, IdleRequest DEF NewInv, Seen, IsCreating
<1>9. CopiesInv
  BY <1>2 DEF CopiesInv, Agreed
<1>10. SessionInv /\ AgentInv
  BY <1>2, <1>3, <1>4 DEF SessionInv, AgentInv, IsPassword, HasPassword
<1>11. OngoingInv
  BY <1>1, IdleRequest DEF OngoingInv, Ongoing
<1>12. OpenInv
  BY DEF ListenersInit, NoSittings, OpenInv
<1> QED BY <1>6, <1>7, <1>8, <1>9, <1>10, <1>11, <1>12 DEF AccountInv

--------------------------------------------------------------------------------
(* All steps together.                                                         *)

\* A step of the accounts.
LEMMA AccountsSteps ==
  ASSUME AccountInv, AccountsStep
  PROVE  AccountInv'
<1>1. ASSUME NEW name \in allowed.names, NEW address \in allowed.from, SignInRefused(name, address)
      PROVE  AccountInv'
  BY <1>1, NoSteps DEF SignInRefused, storeVars
<1>2. ASSUME NEW r \in Requests, NEW name \in allowed.names, NEW address \in allowed.from,
             NEW pw \in Tried(name), SignIn(r, name, address, pw)
      PROVE  AccountInv'
  <2>1. pw \in Int
    BY DEF Tried, Wrong, AccountInv, Shaped, TableShaped, AccountShaped
  <2> QED BY <1>2, <2>1, SignInSteps
<1>3. ASSUME NEW r \in Requests,
             \/ CheckPassword(r) \/ ClearCharge(r) \/ FinishSignIn(r) \/ CheckAgent(r)
             \/ WriteUsers(r) \/ WriteSessions(r) \/ PublishLinks(r) \/ WriteNewAgent(r)
             \/ RevokeAgents(r)
      PROVE  AccountInv'
  BY <1>3, CheckSteps, ClearSteps, FinishSteps, AgentSteps, WriteUsersSteps, WriteSessionsSteps,
     PublishSteps, NewAgentSteps, RevokingSteps
<1>4. ASSUME NEW r \in Requests, NEW s \in sessions.mem, NEW u \in Users,
             AskNewPassword(r, s, u) \/ AskDeletion(r, s, u)
      PROVE  AccountInv'
  BY <1>4, AskSteps
<1>5. ASSUME NEW r \in Requests, NEW s \in sessions.mem, NEW u \in Users,
             NEW role \in {"reader", "admin", "owner"},
             AskRole(r, s, u, role) \/ AskAccount(r, s, u, role)
      PROVE  AccountInv'
  BY <1>5, AskSteps, AccountAsked
<1>6. ASSUME NEW r \in Requests, NEW s \in sessions.mem,
             AskAgent(r, s) \/ AskSignOut(r, s) \/ UseExpired(r, s)
      PROVE  AccountInv'
  <2>1. s.user \in Users
    BY SessionUsersSeen
  <2> QED BY <1>6, <2>1, AskSteps, SignOutSteps
<1>7. ASSUME NEW s \in sessions.mem, NEW t \in agents.mem, RevokeAgent(s, t)
      PROVE  AccountInv'
  BY <1>7, TakingBackSteps
<1> QED BY <1>1, <1>2, <1>3, <1>4, <1>5, <1>6, <1>7 DEF AccountsStep

\* A write that reaches only the disk.
LEMMA DiskSteps ==
  ASSUME AccountInv, NEW r \in Requests, WritesOnlyDisk(r)
  PROVE  AccountInv'
<1>1. requests[r].at \in {"users", "sessions", "agents"}
  BY DEF WritesOnlyDisk
<1> QED BY <1>1, DiskUsersSteps, DiskSessionsSteps, DiskAgentsSteps

\* Sittings stay under their listeners when some are taken away.
LEMMA OpenStays ==
  ASSUME OpenInv, \/ UNCHANGED open
                  \/ open' = NoSittings
                  \/ \E gone : open' = Without(open, gone)
  PROVE  OpenInv'
<1>1. CASE UNCHANGED open
  BY <1>1 DEF OpenInv, SittingShaped
<1>2. CASE open' = NoSittings
  BY <1>2 DEF OpenInv, NoSittings
<1>3. CASE \E gone : open' = Without(open, gone)
  <2> PICK gone : open' = Without(open, gone)
    BY <1>3
  <2>1. DOMAIN open' \subseteq DOMAIN open /\ \A u \in DOMAIN open' : open'[u] = open[u]
    BY DEF Without, Restrict
  <2> QED BY <2>1 DEF OpenInv, SittingShaped
<1> QED BY <1>1, <1>2, <1>3

\* A checkpoint's steps and the sweeper.
LEMMA ListeningSteps ==
  ASSUME AccountInv, OpenInv,
         \/ \E r \in Requests, s \in sessions.mem, spot \in 0 .. BookEnd, seek \in BOOLEAN :
              AskCheckpoint(r, s, spot, seek)
         \/ \E r \in Requests : \/ StorePlace(r) \/ AddActivity(r) \/ FoldIn(r) \/ WriteRows(r)
                                \/ WriteCompletion(r) \/ LosesStatistic(r) \/ ForgetPart(r)
                                \/ RecordsOnlyOnDisk(r)
         \/ TakeQuiet \/ WriteQuiet
  PROVE  AccountInv' /\ OpenInv'
<1>1. ASSUME NEW r \in Requests, NEW s \in sessions.mem, NEW spot, NEW seek,
             AskCheckpoint(r, s, spot, seek)
      PROVE  AccountInv' /\ OpenInv'
  BY <1>1, CheckpointAsked, OpenStays DEF AskCheckpoint, listenVars, recordVars
<1>2. ASSUME NEW r \in Requests, StorePlace(r) \/ AddActivity(r) \/ WriteRows(r)
                                 \/ WriteCompletion(r) \/ LosesStatistic(r)
      PROVE  AccountInv' /\ OpenInv'
  <2>1. UNCHANGED open
    BY <1>2 DEF StorePlace, AddActivity, WriteRows, WriteCompletion, LosesStatistic, recordVars
  <2> QED BY <1>2, <2>1, BookingSteps, OpenStays
<1>3. ASSUME NEW r \in Requests, FoldIn(r)
      PROVE  AccountInv' /\ OpenInv'
  BY <1>3, FoldSteps
<1>4. ASSUME NEW r \in Requests, ForgetPart(r)
      PROVE  AccountInv' /\ OpenInv'
  <2>1. UNCHANGED open \/ open' = Without(open, {requests[r].user})
    BY <1>4 DEF ForgetPart
  <2> QED BY <1>4, <2>1, ForgetSteps, OpenStays
<1>5. ASSUME NEW r \in Requests, RecordsOnlyOnDisk(r)
      PROVE  AccountInv' /\ OpenInv'
  <2>1. UNCHANGED open
    BY <1>5 DEF RecordsOnlyOnDisk
  <2> QED BY <1>5, <2>1, DiskRecordSteps, OpenStays
<1>6. CASE TakeQuiet \/ WriteQuiet
  <2>1. UNCHANGED vars /\ (UNCHANGED open \/ \E gone : open' = Without(open, gone))
    BY <1>6 DEF TakeQuiet, WriteQuiet
  <2>2. UNCHANGED storeVars /\ UNCHANGED <<requests, serial>>
    BY <2>1 DEF vars, accountVars, storeVars
  <2> QED BY <2>1, <2>2, NoSteps, OpenStays
<1> QED BY <1>1, <1>2, <1>3, <1>4, <1>5, <1>6

\* Every step keeps the accounts, their credentials and the links to them in order.
LEMMA NextSteps ==
  ASSUME AccountInv, OpenInv, ListenersNext
  PROVE  AccountInv' /\ OpenInv'
<1>1. CASE AccountsStep /\ UNCHANGED listenVars
  BY <1>1, AccountsSteps, OpenStays DEF listenVars, recordVars
<1>2. CASE Stop \/ PowerGoes
  <2>1. RestartAccounts /\ open' = NoSittings
    BY <1>2 DEF Stop, PowerGoes, Crash
  <2> QED BY <2>1, RestartSteps, OpenStays
<1>3. ASSUME NEW r \in Requests, GivesUpListening(r)
      PROVE  AccountInv' /\ OpenInv'
  BY <1>3, GivingUpSteps, OpenStays DEF GivesUpListening
<1>4. ASSUME NEW r \in Requests, WritesOnlyDisk(r), UNCHANGED listenVars
      PROVE  AccountInv' /\ OpenInv'
  BY <1>4, DiskSteps, OpenStays DEF listenVars, recordVars
<1>5. CASE Minute
  <2>1. UNCHANGED storeVars /\ UNCHANGED <<requests, serial>> /\ UNCHANGED open
    BY <1>5 DEF Minute, Tick, accountVars, storeVars, listenVars, recordVars
  <2> QED BY <2>1, NoSteps, OpenStays
<1>6. ASSUME \/ \E r \in Requests, s \in sessions.mem, spot \in 0 .. BookEnd, seek \in BOOLEAN :
                  AskCheckpoint(r, s, spot, seek)
             \/ \E r \in Requests : \/ StorePlace(r) \/ AddActivity(r) \/ FoldIn(r) \/ WriteRows(r)
                                    \/ WriteCompletion(r) \/ LosesStatistic(r) \/ ForgetPart(r)
                                    \/ RecordsOnlyOnDisk(r)
             \/ TakeQuiet \/ WriteQuiet
      PROVE  AccountInv' /\ OpenInv'
  BY <1>6, ListeningSteps
<1> QED BY <1>1, <1>2, <1>3, <1>4, <1>5, <1>6 DEF ListenersNext

\* Whatever requests of several people interleave, fail or are cut short by a
\* restart: requests hold the locks their steps rely on, the links are published
\* in order, and credentials belong to the password their account has.
THEOREM AccountsAreSound == ListenersSpec => [](AccountInv /\ OpenInv)
<1>1. ListenersInit => AccountInv /\ OpenInv
  BY Beginning
<1>2. AccountInv /\ OpenInv /\ [ListenersNext]_allVars => (AccountInv /\ OpenInv)'
  <2> SUFFICES ASSUME AccountInv, OpenInv, [ListenersNext]_allVars
               PROVE  (AccountInv /\ OpenInv)'
    OBVIOUS
  <2>1. CASE ListenersNext
    BY <2>1, NextSteps
  <2>2. CASE UNCHANGED allVars
    <3>1. UNCHANGED storeVars /\ UNCHANGED <<requests, serial>> /\ UNCHANGED open
      BY <2>2 DEF allVars, vars, accountVars, storeVars, listenVars, recordVars
    <3> QED BY <3>1, NoSteps, OpenStays
  <2> QED BY <2>1, <2>2
<1> QED BY <1>1, <1>2, PTL DEF ListenersSpec

\* While no session change is under way and none was cut short, the media links
\* lead to exactly the sessions there are, however many changes overlap.
THEOREM LinksFollow == ListenersSpec => []LinksFollowSessions
<1>1. AccountInv => LinksFollowSessions
  BY DEF AccountInv, LinkInv
<1> QED BY <1>1, AccountsAreSound, PTL

\* After a password was changed no session opened with the former one is left,
\* and after a reset no agent token from before it, save where a fault came
\* between the writes.
THEOREM CredentialsStayCurrent == ListenersSpec => []CredentialsAreCurrent
<1>1. AccountInv => CredentialsAreCurrent
  <2> SUFFICES ASSUME AccountInv, NEW u \in Known \ Halfway
               PROVE  /\ \A s \in sessions.mem : s.user = u => s.pw = users.mem[u].pw
                      /\ \A t \in agents.mem : t.user = u => t.pw >= users.mem[u].reset
    BY DEF CredentialsAreCurrent
  <2>1. u \notin halfway /\ ~Replacing(u) /\ ~Resetting(u)
    <3>1. \A r \in Requests : requests[r].op = "change" /\ requests[r].at # "users" =>
            Owing(requests[r])
      BY DEF Owing, AccountInv, Shaped, RequestShaped, Course
    <3> QED BY <3>1 DEF Halfway, Replacing, Resetting
  <2>2. ASSUME NEW s \in sessions.mem, s.user = u
        PROVE  s.pw = users.mem[u].pw
    BY <2>1, <2>2 DEF AccountInv, SessionInv, IsPassword, HasPassword, Known
  <2>3. ASSUME NEW t \in agents.mem, t.user = u
        PROVE  t.pw >= users.mem[u].reset
    BY <2>1, <2>3 DEF AccountInv, AgentInv, IsAfterReset, Known
  <2> QED BY <2>2, <2>3
<1> QED BY <1>1, AccountsAreSound, PTL

--------------------------------------------------------------------------------
(* What is left of an account while it is deleted, and afterwards.             *)

AfterUsers == {"sessions", "publish", "agents", "places", "forget", "purge"}
AfterSessions == {"publish", "agents", "places", "forget", "purge"}
AfterAgents == {"places", "forget", "purge"}
AfterPlaces == {"forget", "purge"}
AfterForget == {"purge"}

\* The deletion of this account has come to one of these steps, or ended.
Past(u, steps) ==
  \/ u \in forgotten
  \/ \E r \in Requests : /\ requests[r].op = "delete" /\ requests[r].user = u
                         /\ requests[r].at \in steps

AccountLeft(u) ==
  /\ u \notin DOMAIN users.mem /\ u \notin DOMAIN users.disk
  /\ u \in used
  /\ \A r \in Requests : IsCreating(r) => requests[r].user # u
  /\ u \notin lingering => \A r \in Requests : /\ requests[r].by # u
                                               /\ requests[r].op = "signIn" => requests[r].user # u

SessionsLeft(u) == \A s \in sessions.mem \cup sessions.disk : s.user # u
AgentsLeft(u) == u \in halfway \/ \A t \in agents.mem \cup agents.disk : t.user # u
PlaceLeft(u) == places[u] = None
SittingsLeft(u) == u \notin DOMAIN open /\ \A row \in sweep : row.user # u
HistoryLeft(u) ==
  /\ \A row \in history.mem.rows \cup history.disk.rows : row.user # u
  /\ history.mem.done[u] = 0 /\ history.disk.done[u] = 0

RecordShaped ==
  /\ forgotten \subseteq Users
  /\ DOMAIN places = Users
  /\ history = [mem |-> history.mem, disk |-> history.disk]
  /\ DOMAIN history.mem = {"rows", "done"} /\ DOMAIN history.disk = {"rows", "done"}
  /\ DOMAIN history.mem.done = Users /\ DOMAIN history.disk.done = Users

GoneInv ==
  /\ RecordShaped
  /\ \A u \in Users : Past(u, AfterUsers) => AccountLeft(u)
  /\ \A u \in Users \ lingering :
       /\ Past(u, AfterSessions) => SessionsLeft(u)
       /\ Past(u, AfterAgents) => AgentsLeft(u)
       /\ Past(u, AfterPlaces) => PlaceLeft(u)
       /\ Past(u, AfterForget) => SittingsLeft(u)
       /\ u \in forgotten => HistoryLeft(u)

--------------------------------------------------------------------------------
(* How requests change in a step.                                              *)

\* A request comes to name nobody new but people there are, whoever signs in is
\* there too, and a new account has an id that was never taken.
Follows(p, q) ==
  /\ q.by = p.by \/ q.by \in Known \cup {None}
  /\ q.op = "signIn" => (p.op = "signIn" /\ q.user = p.user) \/ q.user \in Known \cup {None}
  /\ q.op = "create" => q = p \/ q.user \notin used

\* A deletion stays at its step.
Stands(p, q) ==
  q.op = "delete" /\ q.at # "users" => p.op = "delete" /\ p.user = q.user /\ p.at = q.at

FollowAll == \A x \in Requests : Follows(requests[x], requests'[x])
StandAll == \A x \in Requests : Stands(requests[x], requests'[x])

\* One request changes, as it may.
LEMMA OneFollows ==
  ASSUME AccountInv, NEW r \in Requests, NEW q, requests' = [requests EXCEPT ![r] = q],
         Follows(requests[r], q)
  PROVE  FollowAll /\ (Stands(requests[r], q) => StandAll)
<1>1. requests'[r] = q /\ \A x \in Requests : x # r => requests'[x] = requests[x]
  BY OneRequest DEF AccountInv
<1> QED BY <1>1 DEF FollowAll, StandAll, Follows, Stands

\* A request ends.
LEMMA EndsFollow ==
  ASSUME AccountInv, NEW r \in Requests, Ends(r)
  PROVE  FollowAll /\ StandAll
<1>1. Follows(requests[r], Idle) /\ Stands(requests[r], Idle)
  BY IdleRequest DEF Follows, Stands
<1> QED BY <1>1, OneFollows DEF Ends

\* A request moves to another step.
LEMMA MovesFollow ==
  ASSUME AccountInv, NEW r \in Requests, NEW at, Moves(r, at), requests[r].op # "create"
  PROVE  FollowAll /\ (requests[r].op # "delete" => StandAll)
<1> DEFINE q == [requests[r] EXCEPT !.at = at]
<1>1. requests' = [requests EXCEPT ![r] = q]
  BY DEF Moves
<1>2. q.op = requests[r].op /\ q.user = requests[r].user /\ q.by = requests[r].by
  BY MovedRequest DEF AccountInv, Shaped
<1> HIDE DEF q
<1>3. Follows(requests[r], q) /\ (requests[r].op # "delete" => Stands(requests[r], q))
  BY <1>2 DEF Follows, Stands
<1> QED BY <1>1, <1>3, OneFollows

\* A checkpoint proceeds.
LEMMA ProceedsFollow ==
  ASSUME AccountInv, NEW r \in Requests, NEW work, NEW at, Proceeds(r, work, at),
         requests[r].op = "checkpoint"
  PROVE  FollowAll /\ StandAll
<1>1. CASE at = "done"
  BY <1>1, EndsFollow DEF Proceeds, Ends
<1>2. CASE at # "done"
  <2> DEFINE q == [requests[r] EXCEPT !.at = at, !.work = work]
  <2>1. requests' = [requests EXCEPT ![r] = q]
    BY <1>2 DEF Proceeds
  <2>2. Fielded(requests[r])
    BY DEF AccountInv, Shaped, RequestShaped
  <2>3. q.op = "checkpoint" /\ q.by = requests[r].by
    BY <2>2 DEF Fielded
  <2> HIDE DEF q
  <2>4. Follows(requests[r], q) /\ Stands(requests[r], q)
    BY <2>3 DEF Follows, Stands
  <2> QED BY <2>1, <2>4, OneFollows
<1> QED BY <1>1, <1>2

\* Somebody who is there asks for something.
LEMMA AskedFollows ==
  ASSUME AccountInv, NEW r \in Requests, NEW s \in sessions.mem, NEW p, Asks(r, s, p), Live(s),
         Fielded(p), p.op # "signIn", p.op = "delete" => p.at = "users",
         p.op = "create" => p.user \notin used
  PROVE  FollowAll /\ StandAll
<1>1. PICK boss : requests' = [requests EXCEPT ![r] =
                                  [p EXCEPT !.by = s.user, !.session = s.n, !.boss = boss]]
  BY DEF Asks, Begins
<1> DEFINE q == [p EXCEPT !.by = s.user, !.session = s.n, !.boss = boss]
<1>2. q.op = p.op /\ q.at = p.at /\ q.user = p.user /\ q.by = s.user
  BY DEF Fielded
<1>3. requests' = [requests EXCEPT ![r] = q]
  BY <1>1
<1> HIDE DEF q
<1>4. Follows(requests[r], q) /\ Stands(requests[r], q)
  BY <1>2 DEF Follows, Stands, Live
<1> QED BY <1>3, <1>4, OneFollows

\* The steps of a sign-in, of an agent and of a sign-out.
LEMMA SignInFollows ==
  ASSUME AccountInv, NEW r \in Requests,
         \/ \E name, address, pw : SignIn(r, name, address, pw)
         \/ CheckPassword(r) \/ ClearCharge(r) \/ FinishSignIn(r) \/ CheckAgent(r)
         \/ \E s \in sessions.mem : AskSignOut(r, s) \/ UseExpired(r, s)
  PROVE  FollowAll /\ StandAll
<1>1. ASSUME NEW name, NEW address, NEW pw, SignIn(r, name, address, pw)
      PROVE  FollowAll /\ StandAll
  <2>1. PICK runs : requests' = [requests EXCEPT ![r] =
                        [Idle EXCEPT !.op = "signIn", !.at = "admitted", !.pw = pw,
                                     !.session = serial, !.name = name, !.address = address,
                                     !.runs = runs]]
    BY <1>1 DEF SignIn, Begins
  <2> DEFINE q == [Idle EXCEPT !.op = "signIn", !.at = "admitted", !.pw = pw,
                               !.session = serial, !.name = name, !.address = address,
                               !.runs = runs]
  <2>2. q.op = "signIn" /\ q.by = None /\ q.user = None
    BY DEF Idle
  <2>3. requests' = [requests EXCEPT ![r] = q]
    BY <2>1
  <2> HIDE DEF q
  <2>4. Follows(requests[r], q) /\ Stands(requests[r], q)
    BY <2>2 DEF Follows, Stands
  <2> QED BY <2>3, <2>4, OneFollows
<1>2. CASE CheckPassword(r)
  <2>1. CASE Ends(r)
    BY <2>1, EndsFollow
  <2>2. ASSUME NEW u \in Known,
               requests' = [requests EXCEPT ![r].at = "verified", ![r].user = u]
        PROVE  FollowAll /\ StandAll
    <3> DEFINE q == [requests[r] EXCEPT !.at = "verified", !.user = u]
    <3>1. requests' = [requests EXCEPT ![r] = q]
      BY <2>2 DEF AccountInv, Shaped
    <3>2. Fielded(requests[r]) /\ requests[r].op = "signIn"
      BY <1>2 DEF CheckPassword, AccountInv, Shaped, RequestShaped
    <3>3. q.op = "signIn" /\ q.user = u /\ q.by = requests[r].by
      BY <3>2 DEF Fielded
    <3> HIDE DEF q
    <3>4. Follows(requests[r], q) /\ Stands(requests[r], q)
      BY <3>3 DEF Follows, Stands
    <3> QED BY <3>1, <3>4, OneFollows
  <2> QED BY <1>2, <2>1, <2>2 DEF CheckPassword
<1>3. CASE ClearCharge(r)
  <2>1. requests[r].op = "signIn" /\ Moves(r, "issuing")
    BY <1>3 DEF ClearCharge, AccountInv, Shaped, RequestShaped, Ops, Course
  <2> QED BY <2>1, MovesFollow
<1>4. CASE FinishSignIn(r)
  <2>1. requests[r].op = "signIn" /\ (Moves(r, "sessions") \/ Ends(r))
    BY <1>4 DEF FinishSignIn, AccountInv, Shaped, RequestShaped, Ops, Course
  <2> QED BY <2>1, MovesFollow, EndsFollow
<1>5. CASE CheckAgent(r)
  <2>1. CASE Ends(r)
    BY <2>1, EndsFollow
  <2>2. ASSUME NEW s \in sessions.mem,
               requests' = [requests EXCEPT ![r].at = "agents", ![r].pw = s.pw]
        PROVE  FollowAll /\ StandAll
    <3> DEFINE q == [requests[r] EXCEPT !.at = "agents", !.pw = s.pw]
    <3>1. requests' = [requests EXCEPT ![r] = q]
      BY <2>2 DEF AccountInv, Shaped
    <3>2. Fielded(requests[r]) /\ requests[r].op = "agent"
      BY <1>5 DEF CheckAgent, AccountInv, Shaped, RequestShaped
    <3>3. q.op = "agent" /\ q.by = requests[r].by
      BY <3>2 DEF Fielded
    <3> HIDE DEF q
    <3>4. Follows(requests[r], q) /\ Stands(requests[r], q)
      BY <3>3 DEF Follows, Stands
    <3> QED BY <3>1, <3>4, OneFollows
  <2> QED BY <1>5, <2>1, <2>2 DEF CheckAgent
<1>6. ASSUME NEW s \in sessions.mem, AskSignOut(r, s) \/ UseExpired(r, s)
      PROVE  FollowAll /\ StandAll
  <2> DEFINE q == [Idle EXCEPT !.op = "signOut", !.at = "sessions", !.session = s.n]
  <2>1. requests' = [requests EXCEPT ![r] = q]
    BY <1>6 DEF AskSignOut, UseExpired, Begins
  <2>2. q.op = "signOut" /\ q.by = None
    BY DEF Idle
  <2> HIDE DEF q
  <2>3. Follows(requests[r], q) /\ Stands(requests[r], q)
    BY <2>2 DEF Follows, Stands
  <2> QED BY <2>1, <2>3, OneFollows
<1> QED BY <1>1, <1>2, <1>3, <1>4, <1>5, <1>6

\* What is asked for.
LEMMA AskingFollows ==
  ASSUME AccountInv, NEW r \in Requests, NEW s \in sessions.mem, NEW u, NEW role, NEW spot, NEW seek,
         \/ AskNewPassword(r, s, u) \/ AskDeletion(r, s, u) \/ AskRole(r, s, u, role)
         \/ AskAccount(r, s, u, role) \/ AskAgent(r, s) \/ AskCheckpoint(r, s, spot, seek)
  PROVE  FollowAll /\ StandAll
<1>1. CASE AskNewPassword(r, s, u)
  <2> DEFINE p == [Idle EXCEPT !.op = "change", !.at = "users", !.user = u, !.pw = users.mem[u].pw]
  <2>1. Asks(r, s, p) /\ Live(s)
    BY <1>1 DEF AskNewPassword
  <2>2. Fielded(p) /\ p.op = "change"
    BY DEF Fielded, Idle
  <2> HIDE DEF p
  <2> QED BY <2>1, <2>2, AskedFollows
<1>2. CASE AskDeletion(r, s, u)
  <2> DEFINE p == [Idle EXCEPT !.op = "delete", !.at = "users", !.user = u]
  <2>1. Asks(r, s, p) /\ Live(s)
    BY <1>2 DEF AskDeletion
  <2>2. Fielded(p) /\ p.op = "delete" /\ p.at = "users"
    BY DEF Fielded, Idle
  <2> HIDE DEF p
  <2> QED BY <2>1, <2>2, AskedFollows
<1>3. CASE AskRole(r, s, u, role)
  <2> DEFINE p == [Idle EXCEPT !.op = "role", !.at = "users", !.user = u, !.role = role]
  <2>1. Asks(r, s, p) /\ Live(s)
    BY <1>3 DEF AskRole
  <2>2. Fielded(p) /\ p.op = "role"
    BY DEF Fielded, Idle
  <2> HIDE DEF p
  <2> QED BY <2>1, <2>2, AskedFollows
<1>4. CASE AskAccount(r, s, u, role)
  <2> DEFINE p == [Idle EXCEPT !.op = "create", !.at = "users", !.user = u, !.role = role]
  <2>1. Asks(r, s, p) /\ Live(s) /\ u \notin used
    BY <1>4 DEF AskAccount
  <2>2. Fielded(p) /\ p.op = "create" /\ p.user = u
    BY DEF Fielded, Idle
  <2> HIDE DEF p
  <2> QED BY <2>1, <2>2, AskedFollows
<1>5. CASE AskAgent(r, s)
  <2> DEFINE p == [Idle EXCEPT !.op = "agent", !.at = "asked", !.user = s.user]
  <2>1. Asks(r, s, p) /\ Live(s)
    BY <1>5 DEF AskAgent
  <2>2. Fielded(p) /\ p.op = "agent"
    BY DEF Fielded, Idle
  <2> HIDE DEF p
  <2> QED BY <2>1, <2>2, AskedFollows
<1>6. CASE AskCheckpoint(r, s, spot, seek)
  <2>1. PICK work : /\ Asks(r, s, [Idle EXCEPT !.op = "checkpoint", !.at = "store", !.work = work])
                    /\ Live(s)
    BY <1>6, Zenon DEF AskCheckpoint
  <2> DEFINE p == [Idle EXCEPT !.op = "checkpoint", !.at = "store", !.work = work]
  <2>2. Fielded(p) /\ p.op = "checkpoint"
    BY DEF Fielded, Idle
  <2>3. Asks(r, s, p)
    BY <2>1
  <2> HIDE DEF p
  <2> QED BY <2>1, <2>2, <2>3, AskedFollows
<1> QED BY <1>1, <1>2, <1>3, <1>4, <1>5, <1>6

\* The writes.
LEMMA WritingFollows ==
  ASSUME AccountInv, NEW r \in Requests,
         \/ WriteUsers(r) \/ WriteSessions(r) \/ PublishLinks(r) \/ WriteNewAgent(r)
         \/ RevokeAgents(r) \/ ForgetPart(r)
  PROVE  FollowAll /\ (requests[r].op # "delete" => StandAll)
<1>1. CASE WriteUsers(r)
  <2>1. Ends(r) \/ (Moves(r, "sessions") /\ requests[r].op # "create")
    BY <1>1 DEF WriteUsers
  <2> QED BY <2>1, MovesFollow, EndsFollow
<1>2. CASE WriteSessions(r)
  <2>1. requests[r].op # "create" /\ Fielded(requests[r])
    BY <1>2 DEF WriteSessions, AccountInv, Shaped, RequestShaped, Ops, Course
  <2>2. PICK index : requests' = [requests EXCEPT ![r].at = "publish", ![r].index = index]
    BY <1>2 DEF WriteSessions
  <2> DEFINE q == [requests[r] EXCEPT !.at = "publish", !.index = index]
  <2>3. requests' = [requests EXCEPT ![r] = q]
    BY <2>2 DEF AccountInv, Shaped
  <2>4. q.op = requests[r].op /\ q.user = requests[r].user /\ q.by = requests[r].by
    BY <2>1 DEF Fielded
  <2> HIDE DEF q
  <2>5. Follows(requests[r], q) /\ (requests[r].op # "delete" => Stands(requests[r], q))
    BY <2>1, <2>4 DEF Follows, Stands
  <2> QED BY <2>3, <2>5, OneFollows
<1>3. CASE PublishLinks(r)
  <2>1. Ends(r) \/ (Moves(r, "agents") /\ requests[r].op # "create")
    BY <1>3 DEF PublishLinks
  <2> QED BY <2>1, MovesFollow, EndsFollow
<1>4. CASE WriteNewAgent(r)
  BY <1>4, EndsFollow DEF WriteNewAgent
<1>5. CASE RevokeAgents(r)
  <2>1. Ends(r) \/ (Moves(r, "places") /\ requests[r].op # "create")
    BY <1>5 DEF RevokeAgents
  <2> QED BY <2>1, MovesFollow, EndsFollow
<1>6. CASE ForgetPart(r)
  <2>1. Ends(r) \/ (Moves(r, NextPart(requests[r].at)) /\ requests[r].op # "create")
    BY <1>6 DEF ForgetPart
  <2> QED BY <2>1, MovesFollow, EndsFollow
<1> QED BY <1>1, <1>2, <1>3, <1>4, <1>5, <1>6

\* A checkpoint's steps.
LEMMA RecordingFollows ==
  ASSUME AccountInv, NEW r \in Requests,
         \/ StorePlace(r) \/ AddActivity(r) \/ FoldIn(r) \/ WriteRows(r) \/ WriteCompletion(r)
         \/ LosesStatistic(r) \/ RecordsOnlyOnDisk(r)
  PROVE  FollowAll /\ StandAll
<1>1. requests[r].op = "checkpoint"
  <2>1. requests[r].at \in {"store", "activity", "fold", "rows", "complete"}
    BY DEF StorePlace, AddActivity, FoldIn, WriteRows, WriteCompletion, LosesStatistic, RecordsOnlyOnDisk
  <2> QED BY <2>1 DEF AccountInv, Shaped, RequestShaped, Ops, Course
<1>2. Ends(r) \/ \E work, at : Proceeds(r, work, at)
  BY DEF StorePlace, AddActivity, FoldIn, WriteRows, WriteCompletion, LosesStatistic, RecordsOnlyOnDisk
<1> QED BY <1>1, <1>2, EndsFollow, ProceedsFollow

--------------------------------------------------------------------------------
(* What each step leaves alone.                                                *)

Frames ==
  /\ used \subseteq used' /\ lingering \subseteq lingering'
  /\ UNCHANGED users \/ RestartAccounts \/ \E r \in Requests : WriteUsers(r) \/ WritesOnlyDisk(r)
  /\ UNCHANGED sessions \/ RestartAccounts \/ \E r \in Requests : WriteSessions(r) \/ WritesOnlyDisk(r)
  /\ \/ UNCHANGED agents
     \/ RestartAccounts
     \/ \E r \in Requests : WriteNewAgent(r) \/ RevokeAgents(r) \/ WritesOnlyDisk(r)
     \/ \E s \in sessions.mem, t \in agents.mem : RevokeAgent(s, t)
  /\ halfway \subseteq halfway' \/ \E r \in Requests : RevokeAgents(r)
  /\ UNCHANGED places \/ \E r \in Requests : StorePlace(r) \/ ForgetPart(r)
  /\ \/ UNCHANGED <<open, sweep>>
     \/ TakeQuiet
     \/ open' = open /\ sweep' = {}
     \/ open' = NoSittings /\ sweep' = {}
     \/ \E r \in Requests : FoldIn(r) \/ ForgetPart(r)
  /\ \/ UNCHANGED history
     \/ WriteQuiet \/ Stop \/ PowerGoes
     \/ \E r \in Requests : \/ WriteRows(r) \/ WriteCompletion(r) \/ ForgetPart(r)
                            \/ RecordsOnlyOnDisk(r)

\* A deletion takes a step.
Advances(r) ==
  /\ requests[r].op = "delete"
  /\ \/ ForgetPart(r)
     \/ /\ UNCHANGED forgotten
        /\ WriteUsers(r) \/ WriteSessions(r) \/ PublishLinks(r) \/ RevokeAgents(r)

\* What has come to a step stands, or one deletion goes on.
Standing == (StandAll /\ UNCHANGED forgotten) \/ \E r \in Requests : Advances(r)

\* The steps of the accounts.
LEMMA AccountsFrames ==
  ASSUME AccountInv, AccountsStep, UNCHANGED listenVars
  PROVE  Frames /\ FollowAll /\ Standing
<1>0. UNCHANGED <<places, open, sweep, history, forgotten>>
  BY DEF listenVars, recordVars
<1>1. ASSUME NEW name, NEW address, SignInRefused(name, address)
      PROVE  Frames /\ FollowAll /\ Standing
  BY <1>0, <1>1 DEF SignInRefused, Frames, FollowAll, StandAll, Standing, Follows, Stands
<1>2. ASSUME NEW r \in Requests, NEW name, NEW address, NEW pw, SignIn(r, name, address, pw)
      PROVE  Frames /\ FollowAll /\ Standing
  <2>1. Frames
    BY <1>0, <1>2 DEF SignIn, Frames
  <2> QED BY <1>0, <1>2, <2>1, SignInFollows DEF Standing
<1>3. ASSUME NEW r \in Requests,
             CheckPassword(r) \/ ClearCharge(r) \/ FinishSignIn(r) \/ CheckAgent(r)
      PROVE  Frames /\ FollowAll /\ Standing
  <2>1. Frames
    BY <1>0, <1>3 DEF CheckPassword, ClearCharge, FinishSignIn, CheckAgent, accountVars, Frames
  <2> QED BY <1>0, <1>3, <2>1, SignInFollows DEF Standing
<1>4. ASSUME NEW r \in Requests, NEW s \in sessions.mem, AskSignOut(r, s) \/ UseExpired(r, s)
      PROVE  Frames /\ FollowAll /\ Standing
  <2>1. Frames
    BY <1>0, <1>4 DEF AskSignOut, UseExpired, accountVars, Frames
  <2> QED BY <1>0, <1>4, <2>1, SignInFollows DEF Standing
<1>5. ASSUME NEW r \in Requests, NEW s \in sessions.mem, NEW u, NEW role,
             \/ AskNewPassword(r, s, u) \/ AskDeletion(r, s, u) \/ AskRole(r, s, u, role)
             \/ AskAccount(r, s, u, role) \/ AskAgent(r, s)
      PROVE  Frames /\ FollowAll /\ Standing
  <2>1. Frames
    BY <1>0, <1>5 DEF AskNewPassword, AskDeletion, AskRole, AskAccount, AskAgent, accountVars, Frames
  <2> QED BY <1>0, <1>5, <2>1, AskingFollows DEF Standing
<1>6. ASSUME NEW r \in Requests,
             \/ WriteUsers(r) \/ WriteSessions(r) \/ PublishLinks(r) \/ WriteNewAgent(r)
             \/ RevokeAgents(r)
      PROVE  Frames /\ FollowAll /\ Standing
  <2>1. ASSUME WriteUsers(r) PROVE Frames
    <3>1. UNCHANGED <<sessions, agents, halfway, used>> /\ lingering \subseteq lingering'
      BY <2>1 DEF WriteUsers
    <3> QED BY <1>0, <1>6, <2>1, <3>1 DEF Frames
  <2>2. ASSUME WriteSessions(r) PROVE Frames
    <3>1. UNCHANGED <<users, agents, halfway, used, lingering>>
      BY <2>2 DEF WriteSessions
    <3> QED BY <1>0, <1>6, <2>2, <3>1 DEF Frames
  <2>3. ASSUME PublishLinks(r) PROVE Frames
    <3>1. UNCHANGED <<users, sessions, agents, halfway, used, lingering>>
      BY <2>3 DEF PublishLinks
    <3> QED BY <1>0, <3>1 DEF Frames
  <2>4. ASSUME WriteNewAgent(r) PROVE Frames
    <3>1. UNCHANGED <<users, sessions, halfway, used, lingering>>
      BY <2>4 DEF WriteNewAgent
    <3> QED BY <1>0, <1>6, <2>4, <3>1 DEF Frames
  <2>5. ASSUME RevokeAgents(r) PROVE Frames
    <3>1. UNCHANGED <<users, sessions, used, lingering>>
      BY <2>5 DEF RevokeAgents
    <3> QED BY <1>0, <1>6, <2>5, <3>1 DEF Frames
  <2>6. Frames
    BY <1>6, <2>1, <2>2, <2>3, <2>4, <2>5
  <2>7. requests[r].op = "delete" => Advances(r)
    BY <1>0, <1>6 DEF Advances, WriteNewAgent
  <2> QED BY <1>0, <1>6, <2>6, <2>7, WritingFollows DEF Standing
<1>7. ASSUME NEW s \in sessions.mem, NEW t \in agents.mem, RevokeAgent(s, t)
      PROVE  Frames /\ FollowAll /\ Standing
  BY <1>0, <1>7 DEF RevokeAgent, Frames, FollowAll, StandAll, Standing, Follows, Stands
<1> QED BY <1>1, <1>2, <1>3, <1>4, <1>5, <1>6, <1>7 DEF AccountsStep

\* Every step.
LEMMA NextFrames ==
  ASSUME AccountInv, ListenersNext
  PROVE  Frames /\ FollowAll /\ Standing
<1>1. CASE AccountsStep /\ UNCHANGED listenVars
  BY <1>1, AccountsFrames
<1>2. ASSUME NEW r \in Requests, NEW s \in sessions.mem, NEW spot, NEW seek,
             AskCheckpoint(r, s, spot, seek)
      PROVE  Frames /\ FollowAll /\ Standing
  <2>1. Frames /\ UNCHANGED forgotten
    BY <1>2 DEF AskCheckpoint, accountVars, listenVars, recordVars, Frames
  <2> QED BY <1>2, <2>1, AskingFollows DEF Standing
<1>3. ASSUME NEW r \in Requests, StorePlace(r) \/ AddActivity(r) \/ FoldIn(r) \/ LosesStatistic(r)
      PROVE  Frames /\ FollowAll /\ Standing
  <2>1. Frames /\ UNCHANGED forgotten
    BY <1>3 DEF StorePlace, AddActivity, FoldIn, LosesStatistic, accountVars, recordVars, Frames
  <2> QED BY <1>3, <2>1, RecordingFollows DEF Standing
<1>4. ASSUME NEW r \in Requests, WriteRows(r) \/ WriteCompletion(r) \/ RecordsOnlyOnDisk(r)
      PROVE  Frames /\ FollowAll /\ Standing
  <2>1. Frames /\ UNCHANGED forgotten
    BY <1>4 DEF WriteRows, WriteCompletion, RecordsOnlyOnDisk, accountVars, Frames
  <2> QED BY <1>4, <2>1, RecordingFollows DEF Standing
<1>5. CASE TakeQuiet \/ WriteQuiet
  <2>1. Frames
    BY <1>5 DEF TakeQuiet, WriteQuiet, vars, accountVars, Frames
  <2>2. UNCHANGED <<requests, forgotten>>
    BY <1>5 DEF TakeQuiet, WriteQuiet, vars
  <2> QED BY <2>1, <2>2 DEF FollowAll, StandAll, Standing, Follows, Stands
<1>6. CASE Stop \/ PowerGoes
  <2>1. /\ RestartAccounts /\ UNCHANGED <<places, forgotten>>
        /\ open' = NoSittings /\ sweep' = {}
    BY <1>6 DEF Stop, PowerGoes, Crash
  <2>2. Frames
    BY <1>6, <2>1 DEF RestartAccounts, Frames
  <2>3. \A r \in Requests : requests'[r] = Idle
    BY <2>1 DEF RestartAccounts
  <2> QED BY <2>1, <2>2, <2>3, IdleRequest DEF FollowAll, StandAll, Standing, Follows, Stands
<1>7. ASSUME NEW r \in Requests, ForgetPart(r)
      PROVE  Frames /\ FollowAll /\ Standing
  <2>1. Frames
    BY <1>7 DEF ForgetPart, Frames
  <2>2. Advances(r)
    BY <1>7 DEF ForgetPart, Advances
  <2> QED BY <1>7, <2>1, <2>2, WritingFollows DEF Standing
<1>8. ASSUME NEW r \in Requests, GivesUpListening(r)
      PROVE  Frames /\ FollowAll /\ Standing
  <2>1. Frames /\ UNCHANGED forgotten /\ Ends(r)
    BY <1>8 DEF GivesUpListening, GivesUp, Frames
  <2> QED BY <2>1, EndsFollow DEF Standing
<1>9. ASSUME NEW r \in Requests, WritesOnlyDisk(r), UNCHANGED listenVars
      PROVE  Frames /\ FollowAll /\ Standing
  <2>1. Frames /\ UNCHANGED forgotten /\ Ends(r)
    BY <1>9 DEF WritesOnlyDisk, listenVars, recordVars, Frames
  <2> QED BY <2>1, EndsFollow DEF Standing
<1>10. CASE Minute
  <2>1. Frames /\ UNCHANGED <<requests, forgotten>>
    BY <1>10 DEF Minute, Tick, accountVars, listenVars, recordVars, Frames
  <2> QED BY <2>1 DEF FollowAll, StandAll, Standing, Follows, Stands
<1> QED BY <1>1, <1>2, <1>3, <1>4, <1>5, <1>6, <1>7, <1>8, <1>9, <1>10 DEF ListenersNext

--------------------------------------------------------------------------------
(* What is gone stays gone.                                                    *)

\* No deletion comes to a step while deletions stand.
LEMMA PastStands ==
  ASSUME StandAll, UNCHANGED forgotten, NEW u, NEW steps, "users" \notin steps, Past(u, steps)'
  PROVE  Past(u, steps)
BY DEF StandAll, Stands, Past

\* The account itself.
LEMMA AccountLeftStays ==
  ASSUME AccountInv, Frames, FollowAll, NEW u \in Users, AccountLeft(u)
  PROVE  AccountLeft(u)'
<1>1. u \notin DOMAIN users'.mem /\ u \notin DOMAIN users'.disk
  <2>1. CASE UNCHANGED users
    BY <2>1 DEF AccountLeft
  <2>2. CASE RestartAccounts
    BY <2>2 DEF RestartAccounts, Both, AccountLeft
  <2>3. ASSUME NEW r \in Requests, requests[r].at = "users", MayWrite(requests[r])
        PROVE  u \notin DOMAIN UsersAfter(requests[r])
    <3>1. u \in DOMAIN UsersAfter(requests[r]) => u = requests[r].user /\ IsCreating(r)
      BY <2>3, UsersAfterIs DEF AccountLeft, Known, IsCreating
    <3> QED BY <3>1 DEF AccountLeft
  <2>4. ASSUME NEW r \in Requests, WriteUsers(r)
        PROVE  u \notin DOMAIN users'.mem /\ u \notin DOMAIN users'.disk
    <3>1. \/ UNCHANGED users
          \/ /\ requests[r].at = "users" /\ MayWrite(requests[r])
             /\ users' = Both(UsersAfter(requests[r]))
      BY <2>4 DEF WriteUsers
    <3> QED BY <2>1, <2>3, <3>1 DEF Both
  <2>5. ASSUME NEW r \in Requests, WritesOnlyDisk(r)
        PROVE  u \notin DOMAIN users'.mem /\ u \notin DOMAIN users'.disk
    <3>1. \/ UNCHANGED users
          \/ /\ requests[r].at = "users" /\ MayWrite(requests[r])
             /\ users' = OnDisk(users, UsersAfter(requests[r]))
      BY <2>5 DEF WritesOnlyDisk
    <3>2. users = [mem |-> users.mem, disk |-> users.disk]
      BY DEF AccountInv, Shaped
    <3> QED BY <2>1, <2>3, <3>1, <3>2 DEF OnDisk, AccountLeft
  <2> QED BY <2>1, <2>2, <2>4, <2>5 DEF Frames
<1>2. u \in used'
  BY DEF Frames, AccountLeft
<1>3. \A x \in Requests : IsCreating(x)' => requests'[x].user # u
  BY DEF FollowAll, Follows, AccountLeft, IsCreating
<1>4. u \notin lingering' => \A x \in Requests : /\ requests'[x].by # u
                                                 /\ requests'[x].op = "signIn" => requests'[x].user # u
  BY AccountsAssumption DEF FollowAll, Follows, AccountLeft, Known, Frames
<1> QED BY <1>1, <1>2, <1>3, <1>4 DEF AccountLeft

\* Its sessions.
LEMMA SessionsLeftStays ==
  ASSUME AccountInv, Frames, NEW u \in Users \ lingering, AccountLeft(u), SessionsLeft(u)
  PROVE  SessionsLeft(u)'
<1>1. ASSUME NEW r \in Requests, requests[r].at = "sessions",
             NEW new, new \in SessionsAfter(requests[r])
      PROVE  \A s \in new : s.user # u
  <2>1. \A s \in new : s \in sessions.mem \/ (s.user = requests[r].user
          /\ (requests[r].op = "signIn" \/ requests[r].user \in Known))
    BY <1>1, SessionsAfterAre
  <2> QED BY <2>1 DEF AccountLeft, SessionsLeft, Known
<1>2. CASE UNCHANGED sessions
  BY <1>2 DEF SessionsLeft
<1>3. CASE RestartAccounts
  BY <1>3 DEF RestartAccounts, Both, SessionsLeft
<1>4. ASSUME NEW r \in Requests, WriteSessions(r)
      PROVE  SessionsLeft(u)'
  <2>1. /\ requests[r].at = "sessions"
        /\ \E new \in SessionsAfter(requests[r]) : sessions' = Both(new)
    BY <1>4 DEF WriteSessions
  <2>2. PICK new \in SessionsAfter(requests[r]) : sessions' = Both(new)
    BY <2>1
  <2>3. \A s \in new : s.user # u
    BY <1>1, <2>1, <2>2
  <2> QED BY <2>2, <2>3 DEF Both, SessionsLeft
<1>5. ASSUME NEW r \in Requests, WritesOnlyDisk(r)
      PROVE  SessionsLeft(u)'
  <2>1. CASE UNCHANGED sessions
    BY <1>2, <2>1
  <2>2. CASE ~UNCHANGED sessions
    <3>1. /\ requests[r].at = "sessions"
          /\ \E new \in SessionsAfter(requests[r]) : sessions' = OnDisk(sessions, new)
      BY <1>5, <2>2 DEF WritesOnlyDisk
    <3>2. PICK new \in SessionsAfter(requests[r]) : sessions' = OnDisk(sessions, new)
      BY <3>1
    <3>3. \A s \in new : s.user # u
      BY <1>1, <3>1, <3>2
    <3>4. sessions = [mem |-> sessions.mem, disk |-> sessions.disk]
      BY DEF AccountInv, Shaped
    <3> QED BY <3>2, <3>3, <3>4 DEF OnDisk, SessionsLeft
  <2> QED BY <2>1, <2>2
<1> QED BY <1>2, <1>3, <1>4, <1>5 DEF Frames

\* What revoking the tokens of a request's user does to everybody's.
LEMMA RevokedAre ==
  ASSUME AccountInv, NEW r \in Requests, RevokeAgents(r)
  PROVE  /\ \A t \in agents'.mem \cup agents'.disk : t \in agents.mem \cup agents.disk
         /\ \A t \in agents'.mem : t.user # requests[r].user
         /\ \A t \in agents'.disk \ agents'.mem : t.user \in halfway
         /\ \/ halfway' = halfway
            \/ halfway' = halfway \ {requests[r].user} /\ agents'.disk = agents'.mem
<1> DEFINE p == requests[r]
<1>1. /\ agents' = IF OthersAgents(p) = agents.mem THEN agents ELSE Both(OthersAgents(p))
      /\ \/ halfway' = halfway
         \/ halfway' = halfway \ {p.user} /\ agents'.disk = agents'.mem
  BY DEF RevokeAgents
<1>2. \/ agents' = agents /\ \A t \in agents.mem : t.user # p.user
      \/ /\ agents'.mem = agents'.disk
         /\ \A t \in agents'.mem : t \in agents.mem /\ t.user # p.user
  BY <1>1 DEF Both, OthersAgents
<1> QED BY <1>1, <1>2 DEF AccountInv, AgentInv

\* Its agent tokens.
LEMMA AgentsLeftStays ==
  ASSUME AccountInv, Frames, NEW u \in Users \ lingering, AccountLeft(u), AgentsLeft(u)
  PROVE  AgentsLeft(u)'
<1>1. ASSUME NEW r \in Requests, RevokeAgents(r)
      PROVE  AgentsLeft(u)'
  BY <1>1, RevokedAre DEF AgentsLeft
<1>2. ASSUME halfway \subseteq halfway',
             \A t \in agents'.mem \cup agents'.disk : t \in agents.mem \cup agents.disk \/ t.user # u
      PROVE  AgentsLeft(u)'
  BY <1>2 DEF AgentsLeft
<1>3. ASSUME halfway \subseteq halfway'
      PROVE  AgentsLeft(u)'
  <2>1. CASE UNCHANGED agents
    BY <1>2, <1>3, <2>1
  <2>2. CASE RestartAccounts
    BY <1>2, <1>3, <2>2 DEF RestartAccounts, Both
  <2>3. ASSUME NEW r \in Requests
        PROVE  \A t \in NewAgents(requests[r]) : t \in agents.mem \/ t.user # u
    BY <2>3 DEF NewAgents, AccountLeft
  <2>4. ASSUME NEW r \in Requests, WriteNewAgent(r)
        PROVE  AgentsLeft(u)'
    <3>1. agents' = agents \/ agents' = Both(NewAgents(requests[r]))
      BY <2>4 DEF WriteNewAgent
    <3> QED BY <1>2, <1>3, <2>3, <3>1 DEF Both
  <2>5. ASSUME NEW r \in Requests, WritesOnlyDisk(r)
        PROVE  AgentsLeft(u)'
    <3>1. \/ agents' = agents \/ agents' = OnDisk(agents, NewAgents(requests[r]))
          \/ agents' = OnDisk(agents, OthersAgents(requests[r]))
      BY <2>5 DEF WritesOnlyDisk
    <3>2. agents = [mem |-> agents.mem, disk |-> agents.disk]
      BY DEF AccountInv, Shaped
    <3> QED BY <1>2, <1>3, <2>3, <3>1, <3>2 DEF OnDisk, OthersAgents
  <2>6. ASSUME NEW s \in sessions.mem, NEW t \in agents.mem, RevokeAgent(s, t)
        PROVE  AgentsLeft(u)'
    BY <1>2, <1>3, <2>6 DEF RevokeAgent, Both
  <2> QED BY <1>1, <2>1, <2>2, <2>4, <2>5, <2>6 DEF Frames
<1> QED BY <1>1, <1>3 DEF Frames

\* Its places.
LEMMA PlaceLeftStays ==
  ASSUME AccountInv, Frames, NEW u \in Users \ lingering, AccountLeft(u), PlaceLeft(u),
         DOMAIN places = Users
  PROVE  PlaceLeft(u)'
<1>1. CASE UNCHANGED places
  BY <1>1 DEF PlaceLeft
<1>2. ASSUME NEW r \in Requests, StorePlace(r)
      PROVE  PlaceLeft(u)'
  <2>1. requests[r].by # u
    BY DEF AccountLeft
  <2>2. places'[u] = places[u]
    BY <1>2, <2>1 DEF StorePlace
  <2> QED BY <2>2 DEF PlaceLeft
<1>3. ASSUME NEW r \in Requests, ForgetPart(r)
      PROVE  PlaceLeft(u)'
  <2>1. places' = places \/ places' = [places EXCEPT ![requests[r].user] = None]
    BY <1>3 DEF ForgetPart
  <2> QED BY <2>1 DEF PlaceLeft
<1> QED BY <1>1, <1>2, <1>3 DEF Frames

\* Rows that closing sittings gives out belong to those who had one open.
LEMMA ClosedAre ==
  ASSUME OpenInv, NEW set \in SUBSET DOMAIN open
  PROVE  \A row \in ClosedRows(open, set) : row.user \in set
BY DEF ClosedRows, RowOf, OpenInv, SittingShaped

\* Its sittings.
LEMMA SittingsLeftStays ==
  ASSUME AccountInv, OpenInv, Frames, NEW u \in Users \ lingering, AccountLeft(u), SittingsLeft(u)
  PROVE  SittingsLeft(u)'
<1>1. CASE open' = open /\ (sweep' = sweep \/ sweep' = {})
  BY <1>1 DEF SittingsLeft
<1>2. CASE open' = NoSittings /\ sweep' = {}
  BY <1>2 DEF SittingsLeft, NoSittings
<1>3. CASE TakeQuiet
  <2>1. /\ sweep' = ClosedRows(open, Quiet(open, clock))
        /\ open' = Without(open, Quiet(open, clock))
    BY <1>3 DEF TakeQuiet
  <2>2. Quiet(open, clock) \subseteq DOMAIN open
    BY DEF Quiet
  <2>3. \A row \in sweep' : row.user \in DOMAIN open
    BY <2>1, <2>2, ClosedAre
  <2>4. DOMAIN open' \subseteq DOMAIN open
    BY <2>1 DEF Without, Restrict
  <2> QED BY <2>3, <2>4 DEF SittingsLeft
<1>4. ASSUME NEW r \in Requests, FoldIn(r)
      PROVE  SittingsLeft(u)'
  <2> DEFINE q == requests[r]
  <2> PICK result : result = Recorded(open, q.by, q.work.at, q.work.heard, serial)
    OBVIOUS
  <2>1. open' = result.open /\ sweep' = sweep
    BY <1>4 DEF FoldIn
  <2>2. DOMAIN result.open = DOMAIN open \cup {q.by}
    BY RecordedIsShaped
  <2>3. q.by # u
    BY DEF AccountLeft
  <2> QED BY <2>1, <2>2, <2>3 DEF SittingsLeft
<1>5. ASSUME NEW r \in Requests, ForgetPart(r)
      PROVE  SittingsLeft(u)'
  <2>1. (open' = open \/ open' = Without(open, {requests[r].user})) /\ sweep' = sweep
    BY <1>5 DEF ForgetPart
  <2>2. DOMAIN open' \subseteq DOMAIN open
    BY <2>1 DEF Without, Restrict
  <2> QED BY <2>1, <2>2 DEF SittingsLeft
<1> QED BY <1>1, <1>2, <1>3, <1>4, <1>5 DEF Frames

\* The history with some rows, or one completion, added.
LEMMA HistoryGrows ==
  ASSUME RecordShaped, NEW u \in Users, HistoryLeft(u)
  PROVE  /\ \A rows : (\A row \in rows : row.user # u) =>
              /\ \A row \in WithRows(rows).rows : row.user # u
              /\ WithRows(rows).done[u] = 0
         /\ \A x : x # u =>
              /\ \A row \in WithCompletion(x).rows : row.user # u
              /\ WithCompletion(x).done[u] = 0
<1>1. ASSUME NEW rows, \A row \in rows : row.user # u
      PROVE  /\ \A row \in WithRows(rows).rows : row.user # u
             /\ WithRows(rows).done[u] = 0
  <2>1. /\ WithRows(rows).rows = Replaced(history.mem.rows, rows)
        /\ WithRows(rows).done = history.mem.done
    BY DEF WithRows, RecordShaped
  <2> QED BY <1>1, <2>1 DEF Replaced, HistoryLeft
<1>2. ASSUME NEW x, x # u
      PROVE  /\ \A row \in WithCompletion(x).rows : row.user # u
             /\ WithCompletion(x).done[u] = 0
  <2>1. /\ WithCompletion(x).rows = history.mem.rows
        /\ WithCompletion(x).done = [history.mem.done EXCEPT ![x] = @ + 1]
    BY DEF WithCompletion, RecordShaped
  <2>2. WithCompletion(x).done[u] = history.mem.done[u]
    BY <1>2, <2>1 DEF RecordShaped
  <2> QED BY <2>1, <2>2 DEF HistoryLeft
<1> QED BY <1>1, <1>2

\* Its history.
LEMMA HistoryLeftStays ==
  ASSUME AccountInv, OpenInv, Frames, RecordShaped, NEW u \in Users \ lingering,
         AccountLeft(u), SittingsLeft(u), HistoryLeft(u)
  PROVE  HistoryLeft(u)'
<1>0. history = [mem |-> history.mem, disk |-> history.disk]
  BY DEF RecordShaped
<1>1. CASE UNCHANGED history
  BY <1>1 DEF HistoryLeft
<1>2. ASSUME NEW rows, \A row \in rows : row.user # u, history' = Both(WithRows(rows))
      PROVE  HistoryLeft(u)'
  BY <1>2, HistoryGrows DEF Both, HistoryLeft
<1>3. CASE history' = Both(history.disk)
  BY <1>3 DEF Both, HistoryLeft
<1>4. CASE WriteQuiet
  BY <1>2, <1>4 DEF WriteQuiet, SittingsLeft
<1>5. CASE Stop
  <2> DEFINE rows == ClosedRows(open, DOMAIN open)
  <2>1. history' = Both(history.disk) \/ history' = Both(WithRows(rows))
    BY <1>5 DEF Stop
  <2>2. \A row \in rows : row.user # u
    BY ClosedAre DEF SittingsLeft
  <2> QED BY <1>2, <1>3, <2>1, <2>2
<1>6. ASSUME NEW r \in Requests
      PROVE  requests[r].by # u
  BY <1>6 DEF AccountLeft
<1>7. ASSUME NEW r \in Requests, requests[r].at = "rows"
      PROVE  \A row \in requests[r].work.rows : row.user # u
  <2>1. requests[r].op = "checkpoint"
    BY <1>7 DEF AccountInv, Shaped, RequestShaped, Ops, Course
  <2> QED BY <1>6, <1>7, <2>1 DEF AccountInv, Shaped, RequestShaped
<1>8. ASSUME NEW r \in Requests, WriteRows(r)
      PROVE  HistoryLeft(u)'
  BY <1>2, <1>7, <1>8 DEF WriteRows
<1>9. ASSUME NEW r \in Requests, WriteCompletion(r)
      PROVE  HistoryLeft(u)'
  <2>1. history' = Both(WithCompletion(requests[r].by))
    BY <1>9 DEF WriteCompletion
  <2> QED BY <1>6, <1>9, <2>1, HistoryGrows DEF Both, HistoryLeft
<1>10. ASSUME NEW r \in Requests, RecordsOnlyOnDisk(r)
       PROVE  HistoryLeft(u)'
  <2>1. \/ UNCHANGED history
        \/ requests[r].at = "rows" /\ history' = OnDisk(history, WithRows(requests[r].work.rows))
        \/ history' = OnDisk(history, WithCompletion(requests[r].by))
    BY <1>10 DEF RecordsOnlyOnDisk
  <2>2. CASE requests[r].at = "rows" /\ history' = OnDisk(history, WithRows(requests[r].work.rows))
    <3>1. \A row \in requests[r].work.rows : row.user # u
      BY <1>7, <2>2, <1>10
    <3> QED BY <2>2, <3>1, <1>0, HistoryGrows DEF OnDisk, HistoryLeft
  <2>3. CASE history' = OnDisk(history, WithCompletion(requests[r].by))
    BY <1>0, <1>6, <1>10, <2>3, HistoryGrows DEF OnDisk, HistoryLeft
  <2> QED BY <1>1, <2>1, <2>2, <2>3
<1>11. ASSUME NEW r \in Requests, ForgetPart(r)
       PROVE  HistoryLeft(u)'
  <2>1. \/ UNCHANGED history
        \/ history' = Both([rows |-> {row \in history.mem.rows : row.user # requests[r].user},
                            done |-> [history.mem.done EXCEPT ![requests[r].user] = 0]])
    BY <1>11 DEF ForgetPart
  <2> QED BY <1>1, <2>1 DEF Both, HistoryLeft, RecordShaped
<1>12. CASE PowerGoes
  BY <1>3, <1>12 DEF PowerGoes
<1> QED BY <1>1, <1>4, <1>5, <1>8, <1>9, <1>10, <1>11, <1>12 DEF Frames

--------------------------------------------------------------------------------
(* Deletions, step by step.                                                    *)

\* When a deletion comes to a step, what the step before it removes is gone.
Arrives(u) ==
  /\ Past(u, AfterUsers)' => Past(u, AfterUsers) \/ AccountLeft(u)'
  /\ u \notin lingering' =>
       /\ Past(u, AfterSessions)' => Past(u, AfterSessions) \/ SessionsLeft(u)'
       /\ Past(u, AfterAgents)' => Past(u, AfterAgents) \/ AgentsLeft(u)'
       /\ Past(u, AfterPlaces)' => Past(u, AfterPlaces) \/ PlaceLeft(u)'
       /\ Past(u, AfterForget)' => Past(u, AfterForget) \/ SittingsLeft(u)'
       /\ u \in forgotten' => u \in forgotten \/ HistoryLeft(u)'

\* A deletion that changes comes at most to the step it is now at.
LEMMA PastOne ==
  ASSUME AccountInv, NEW r \in Requests, NEW q, requests' = [requests EXCEPT ![r] = q],
         requests[r].op = "delete", q.user = requests[r].user,
         UNCHANGED forgotten, NEW u, NEW steps, Past(u, steps)'
  PROVE  Past(u, steps) \/ (u = requests[r].user /\ q.at \in steps /\ requests[r].at \notin steps)
<1>1. requests'[r] = q /\ \A x \in Requests : x # r => requests'[x] = requests[x]
  BY OneRequest DEF AccountInv
<1> QED BY <1>1 DEF Past

\* A deletion that moves comes to one step more.
LEMMA PastMoves ==
  ASSUME AccountInv, NEW r \in Requests, NEW at, Moves(r, at), requests[r].op = "delete",
         UNCHANGED forgotten, NEW u, NEW steps, Past(u, steps)'
  PROVE  Past(u, steps) \/ (u = requests[r].user /\ at \in steps /\ requests[r].at \notin steps)
<1> DEFINE q == [requests[r] EXCEPT !.at = at]
<1>1. requests' = [requests EXCEPT ![r] = q]
  BY DEF Moves
<1>2. q.user = requests[r].user /\ q.at = at
  BY MovedRequest DEF AccountInv, Shaped
<1> HIDE DEF q
<1> QED BY <1>1, <1>2, PastOne

\* A deletion that ends comes to none.
LEMMA PastEnds ==
  ASSUME AccountInv, NEW r \in Requests, Ends(r), UNCHANGED forgotten, NEW u, NEW steps,
         Past(u, steps)'
  PROVE  Past(u, steps)
<1>1. requests'[r] = Idle /\ \A x \in Requests : x # r => requests'[x] = requests[x]
  BY OneRequest DEF AccountInv, Ends
<1> QED BY <1>1, IdleRequest DEF Past

\* Removing the account.
LEMMA AccountRemoved ==
  ASSUME AccountInv, NEW r \in Requests, requests[r].op = "delete", WriteUsers(r),
         UNCHANGED forgotten, NEW u \in Users
  PROVE  Arrives(u)
<1> DEFINE p == requests[r]
<1>1. CASE Ends(r)
  BY <1>1, PastEnds DEF Arrives, Past
<1>2. CASE ~Ends(r)
  <2>1. /\ p.at = "users" /\ MayWrite(p) /\ users' = Both(UsersAfter(p)) /\ Moves(r, "sessions")
        /\ used' = used
        /\ lingering' = IF UnderWay(p.user, r) THEN lingering \cup {p.user} ELSE lingering
    BY <1>2 DEF WriteUsers
  <2>2. CASE u # p.user
    BY <2>1, <2>2, PastMoves DEF Arrives, Past
  <2>3. CASE u = p.user
    <3>1. u \notin DOMAIN users'.mem /\ u \notin DOMAIN users'.disk
      BY <2>1, <2>3, UsersAfterIs DEF Both
    <3>2. u \in Seen /\ u \in used
      BY <2>1, <2>3 DEF MayWrite, MayDelete, Known, Seen, AccountInv, NewInv
    <3>3. FollowAll /\ requests'[r].by = p.by /\ requests'[r].op = "delete"
          /\ \A x \in Requests : x # r => requests'[x] = requests[x]
      <4> DEFINE q == [p EXCEPT !.at = "sessions"]
      <4>1. requests' = [requests EXCEPT ![r] = q]
        BY <2>1 DEF Moves
      <4>2. q.by = p.by /\ q.op = "delete"
        BY MovedRequest DEF AccountInv, Shaped
      <4> HIDE DEF q
      <4>3. requests'[r] = q /\ \A x \in Requests : x # r => requests'[x] = requests[x]
        BY <4>1, OneRequest DEF AccountInv
      <4> QED BY <2>1, <4>2, <4>3, MovesFollow
    <3>4. \A x \in Requests : IsCreating(x)' => requests'[x].user # u
      BY <3>2, <3>3 DEF IsCreating, AccountInv, NewInv
    <3>5. u \notin lingering' => \A x \in Requests : /\ requests'[x].by # u
                                                     /\ requests'[x].op = "signIn" => requests'[x].user # u
      <4> SUFFICES ASSUME u \notin lingering', NEW x \in Requests
                   PROVE  requests'[x].by # u /\ (requests'[x].op = "signIn" => requests'[x].user # u)
        OBVIOUS
      <4>1. CASE x = r
        BY <2>3, <3>3, <4>1 DEF AccountInv, Shaped, RequestShaped
      <4>2. CASE x # r
        <5>1. ~UnderWay(u, r)
          BY <2>1, <2>3
        <5> QED BY <3>3, <4>2, <5>1 DEF UnderWay
      <4> QED BY <4>1, <4>2
    <3>6. AccountLeft(u)'
      BY <2>1, <3>1, <3>2, <3>4, <3>5 DEF AccountLeft
    <3> QED BY <2>1, <3>6, PastMoves DEF Arrives, AfterSessions, AfterAgents, AfterPlaces, AfterForget
  <2> QED BY <2>2, <2>3
<1> QED BY <1>1, <1>2

\* Removing its sessions and its tokens.
LEMMA CredentialsRemoved ==
  ASSUME AccountInv, NEW r \in Requests, requests[r].op = "delete",
         WriteSessions(r) \/ PublishLinks(r) \/ RevokeAgents(r),
         UNCHANGED forgotten, NEW u \in Users
  PROVE  Arrives(u)
<1> DEFINE p == requests[r]
<1>2. CASE WriteSessions(r)
  <2>1. p.at = "sessions" /\ \E new \in SessionsAfter(p) :
          /\ sessions' = Both(new)
          /\ requests' = [requests EXCEPT ![r].at = "publish", ![r].index = Numbers(new)]
    BY <1>2 DEF WriteSessions
  <2>2. PICK new \in SessionsAfter(p) :
          /\ sessions' = Both(new)
          /\ requests' = [requests EXCEPT ![r].at = "publish", ![r].index = Numbers(new)]
    BY <2>1
  <2>3. \A s \in new : s.user # p.user
    BY <2>1, <2>2, SessionsAfterAre
  <2>4. u = p.user => SessionsLeft(u)'
    BY <2>2, <2>3 DEF SessionsLeft, Both
  <2> DEFINE q == [p EXCEPT !.at = "publish", !.index = Numbers(new)]
  <2>5. requests' = [requests EXCEPT ![r] = q]
    BY <2>2 DEF AccountInv, Shaped
  <2>6. Fielded(p)
    BY DEF AccountInv, Shaped, RequestShaped
  <2>7. q.user = p.user /\ q.at = "publish"
    BY <2>6 DEF Fielded
  <2> HIDE DEF q
  <2>8. \A steps : Past(u, steps)' => \/ Past(u, steps)
                                      \/ u = p.user /\ "publish" \in steps /\ p.at \notin steps
    <3> SUFFICES ASSUME NEW steps, Past(u, steps)'
                 PROVE  Past(u, steps) \/ (u = p.user /\ "publish" \in steps /\ p.at \notin steps)
      OBVIOUS
    <3>1. Past(u, steps) \/ (u = requests[r].user /\ q.at \in steps /\ requests[r].at \notin steps)
      BY <2>5, <2>7, PastOne
    <3> QED BY <2>7, <3>1
  <2> QED BY <2>1, <2>4, <2>8 DEF Arrives, Past, AfterUsers, AfterSessions, AfterAgents, AfterPlaces,
                                  AfterForget
<1>3. CASE PublishLinks(r)
  <2>1. p.at = "publish" /\ Moves(r, "agents")
    BY <1>3 DEF PublishLinks
  <2>2. \A steps : Past(u, steps)' => \/ Past(u, steps)
                                      \/ u = p.user /\ "agents" \in steps /\ p.at \notin steps
    BY <2>1, PastMoves
  <2> QED BY <2>1, <2>2 DEF Arrives, AfterUsers, AfterSessions, AfterAgents, AfterPlaces, AfterForget
<1>4. CASE RevokeAgents(r)
  <2>1. p.at = "agents" /\ Moves(r, "places")
    BY <1>4 DEF RevokeAgents
  <2>2. \A steps : Past(u, steps)' => \/ Past(u, steps)
                                      \/ u = p.user /\ "places" \in steps /\ p.at \notin steps
    BY <2>1, PastMoves
  <2>3. u = p.user => AgentsLeft(u)'
    BY <1>4, RevokedAre DEF AgentsLeft
  <2> QED BY <2>1, <2>2, <2>3 DEF Arrives, AfterUsers, AfterSessions, AfterAgents, AfterPlaces,
                                  AfterForget
<1> QED BY <1>2, <1>3, <1>4

\* Removing its places, sittings and history.
LEMMA RecordRemoved ==
  ASSUME AccountInv, OpenInv, RecordShaped, NEW r \in Requests, ForgetPart(r), NEW u \in Users
  PROVE  Arrives(u) /\ (u \in forgotten' => u \in forgotten \/ u = requests[r].user)
<1> DEFINE p == requests[r]
<1>0. p.op = "delete" /\ sweep' = sweep
  BY DEF ForgetPart
<1>1. CASE p.at = "places"
  <2>1. places' = [places EXCEPT ![p.user] = None] /\ Moves(r, "forget") /\ UNCHANGED forgotten
    BY <1>1 DEF ForgetPart, NextPart
  <2>2. u = p.user => PlaceLeft(u)'
    BY <2>1 DEF PlaceLeft, RecordShaped
  <2>3. \A steps : Past(u, steps)' => \/ Past(u, steps)
                                      \/ u = p.user /\ "forget" \in steps /\ p.at \notin steps
    BY <1>0, <2>1, PastMoves
  <2> QED BY <1>1, <2>1, <2>2, <2>3 DEF Arrives, AfterUsers, AfterSessions, AfterAgents, AfterPlaces,
                                         AfterForget
<1>2. CASE p.at = "forget"
  <2>1. /\ open' = Without(open, {p.user}) /\ Moves(r, "purge") /\ UNCHANGED forgotten
        /\ lingering' = lingering \cup ({p.user} \cap {row.user : row \in sweep})
    BY <1>2 DEF ForgetPart, NextPart
  <2>2. u = p.user /\ u \notin lingering' => SittingsLeft(u)'
    BY <1>0, <2>1 DEF SittingsLeft, Without, Restrict
  <2>3. \A steps : Past(u, steps)' => \/ Past(u, steps)
                                      \/ u = p.user /\ "purge" \in steps /\ p.at \notin steps
    BY <1>0, <2>1, PastMoves
  <2> QED BY <1>2, <2>1, <2>2, <2>3 DEF Arrives, AfterUsers, AfterSessions, AfterAgents, AfterPlaces,
                                         AfterForget
<1>3. CASE p.at = "purge"
  <2>1. /\ history' = Both([rows |-> {row \in history.mem.rows : row.user # p.user},
                            done |-> [history.mem.done EXCEPT ![p.user] = 0]])
        /\ Ends(r) /\ forgotten' = forgotten \cup {p.user}
    BY <1>3 DEF ForgetPart, NextPart
  <2>2. u = p.user => HistoryLeft(u)'
    BY <2>1 DEF HistoryLeft, Both, RecordShaped
  <2>3. requests'[r] = Idle /\ \A x \in Requests : x # r => requests'[x] = requests[x]
    BY <2>1, OneRequest DEF AccountInv, Ends
  <2>4. \A steps : Past(u, steps)' => Past(u, steps) \/ u = p.user
    BY <2>1, <2>3, IdleRequest DEF Past
  <2>5. \A steps : "purge" \in steps => Past(p.user, steps)
    BY <1>0, <1>3 DEF Past
  <2> QED BY <2>1, <2>2, <2>4, <2>5 DEF Arrives, AfterUsers, AfterSessions, AfterAgents, AfterPlaces,
                                         AfterForget
<1> QED BY <1>1, <1>2, <1>3 DEF ForgetPart

--------------------------------------------------------------------------------
(* Deleted and forgotten.                                                      *)

\* The record keeps its shape.
LEMMA RecordStaysShaped ==
  ASSUME AccountInv, RecordShaped, Frames, Standing
  PROVE  RecordShaped'
<1>1. forgotten' \subseteq Users
  <2>1. CASE UNCHANGED forgotten
    BY <2>1 DEF RecordShaped
  <2>2. ASSUME NEW r \in Requests, ForgetPart(r)
        PROVE  forgotten' \subseteq Users
    <3>1. requests[r].user \in Users
      BY <2>2 DEF ForgetPart, AccountInv, Shaped, RequestShaped
    <3>2. forgotten' = forgotten \/ forgotten' = forgotten \cup {requests[r].user}
      BY <2>2 DEF ForgetPart
    <3> QED BY <3>1, <3>2 DEF RecordShaped
  <2> QED BY <2>1, <2>2 DEF Standing, Advances
<1>2. DOMAIN places' = Users
  <2>1. ASSUME NEW r \in Requests, StorePlace(r) \/ ForgetPart(r)
        PROVE  DOMAIN places' = Users
    <3>1. places' = places \/ \E u, place : places' = [places EXCEPT ![u] = place]
      BY <2>1 DEF StorePlace, ForgetPart
    <3> QED BY <3>1 DEF RecordShaped
  <2> QED BY <2>1 DEF Frames, RecordShaped
<1>3. ASSUME NEW h, DOMAIN h = {"rows", "done"}, DOMAIN h.done = Users,
             history' = Both(h) \/ history' = OnDisk(history, h)
      PROVE  /\ history' = [mem |-> history'.mem, disk |-> history'.disk]
             /\ DOMAIN history'.mem = {"rows", "done"} /\ DOMAIN history'.disk = {"rows", "done"}
             /\ DOMAIN history'.mem.done = Users /\ DOMAIN history'.disk.done = Users
  BY <1>3 DEF Both, OnDisk, RecordShaped
<1>4. \A rows : DOMAIN WithRows(rows) = {"rows", "done"} /\ DOMAIN WithRows(rows).done = Users
  BY DEF WithRows, RecordShaped
<1>5. \A u : DOMAIN WithCompletion(u) = {"rows", "done"} /\ DOMAIN WithCompletion(u).done = Users
  BY DEF WithCompletion, RecordShaped
<1>6. \A u, rows : LET h == [rows |-> rows, done |-> [history.mem.done EXCEPT ![u] = 0]]
                   IN DOMAIN h = {"rows", "done"} /\ DOMAIN h.done = Users
  BY DEF RecordShaped
<1>7. UNCHANGED history \/ \E h : /\ DOMAIN h = {"rows", "done"} /\ DOMAIN h.done = Users
                                  /\ history' = Both(h) \/ history' = OnDisk(history, h)
  <2>1. CASE WriteQuiet
    BY <1>4, <2>1 DEF WriteQuiet
  <2>2. CASE Stop
    <3>1. history' = Both(history.disk) \/ \E rows : history' = Both(WithRows(rows))
      BY <2>2 DEF Stop
    <3> QED BY <1>4, <3>1 DEF RecordShaped
  <2>3. CASE PowerGoes
    BY <2>3 DEF PowerGoes, RecordShaped
  <2>4. ASSUME NEW r \in Requests, WriteRows(r)
        PROVE  \E rows : history' = Both(WithRows(rows))
    BY <2>4 DEF WriteRows
  <2>5. ASSUME NEW r \in Requests, WriteCompletion(r)
        PROVE  \E u : history' = Both(WithCompletion(u))
    BY <2>5 DEF WriteCompletion
  <2>6. ASSUME NEW r \in Requests, RecordsOnlyOnDisk(r)
        PROVE  \/ UNCHANGED history
               \/ \E rows : history' = OnDisk(history, WithRows(rows))
               \/ \E u : history' = OnDisk(history, WithCompletion(u))
    BY <2>6 DEF RecordsOnlyOnDisk
  <2>7. ASSUME NEW r \in Requests, ForgetPart(r)
        PROVE  \/ UNCHANGED history
               \/ \E u, rows : history' = Both([rows |-> rows, done |-> [history.mem.done EXCEPT ![u] = 0]])
    BY <2>7 DEF ForgetPart
  <2>8. ASSUME NEW r \in Requests,
               WriteRows(r) \/ WriteCompletion(r) \/ RecordsOnlyOnDisk(r) \/ ForgetPart(r)
        PROVE  UNCHANGED history \/ \E h : /\ DOMAIN h = {"rows", "done"} /\ DOMAIN h.done = Users
                                           /\ history' = Both(h) \/ history' = OnDisk(history, h)
    BY <1>4, <1>5, <1>6, <2>4, <2>5, <2>6, <2>7, <2>8
  <2> QED BY <2>1, <2>2, <2>3, <2>8 DEF Frames
<1> QED BY <1>1, <1>2, <1>3, <1>7 DEF RecordShaped

\* Every step keeps what was forgotten so.
LEMMA GoneSteps ==
  ASSUME AccountInv, OpenInv, GoneInv, Frames, FollowAll, Standing
  PROVE  GoneInv'
<1>1. RecordShaped'
  BY RecordStaysShaped DEF GoneInv
<1>2. ASSUME NEW u \in Users
      PROVE  Arrives(u)
  <2>1. CASE StandAll /\ UNCHANGED forgotten
    BY <2>1, PastStands DEF Arrives, AfterUsers, AfterSessions, AfterAgents, AfterPlaces, AfterForget
  <2>2. ASSUME NEW r \in Requests, Advances(r)
        PROVE  Arrives(u)
    BY <1>2, <2>2, AccountRemoved, CredentialsRemoved, RecordRemoved DEF Advances, GoneInv
  <2> QED BY <2>1, <2>2 DEF Standing
<1>3. ASSUME NEW u \in Users
      PROVE  /\ Past(u, AfterSessions) => Past(u, AfterUsers)
             /\ Past(u, AfterAgents) => Past(u, AfterUsers)
             /\ Past(u, AfterPlaces) => Past(u, AfterUsers)
             /\ Past(u, AfterForget) => Past(u, AfterUsers)
             /\ u \in forgotten => Past(u, AfterUsers) /\ Past(u, AfterForget)
  BY DEF Past, AfterUsers, AfterSessions, AfterAgents, AfterPlaces, AfterForget
<1>4. ASSUME NEW u \in Users, Past(u, AfterUsers)'
      PROVE  AccountLeft(u)'
  <2>1. Past(u, AfterUsers) \/ AccountLeft(u)'
    BY <1>2, <1>4 DEF Arrives
  <2>2. Past(u, AfterUsers) => AccountLeft(u)
    BY <1>4 DEF GoneInv
  <2> QED BY <1>4, <2>1, <2>2, AccountLeftStays
<1>5. ASSUME NEW u \in Users, u \notin lingering'
      PROVE  /\ Past(u, AfterSessions)' => SessionsLeft(u)'
             /\ Past(u, AfterAgents)' => AgentsLeft(u)'
             /\ Past(u, AfterPlaces)' => PlaceLeft(u)'
             /\ Past(u, AfterForget)' => SittingsLeft(u)'
             /\ u \in forgotten' => HistoryLeft(u)'
  <2>1. u \in Users \ lingering
    BY <1>5 DEF Frames
  <2>2. /\ Past(u, AfterSessions) => AccountLeft(u) /\ SessionsLeft(u)
        /\ Past(u, AfterAgents) => AccountLeft(u) /\ AgentsLeft(u)
        /\ Past(u, AfterPlaces) => AccountLeft(u) /\ PlaceLeft(u)
        /\ Past(u, AfterForget) => AccountLeft(u) /\ SittingsLeft(u)
        /\ u \in forgotten => AccountLeft(u) /\ SittingsLeft(u) /\ HistoryLeft(u)
    BY <1>3, <2>1 DEF GoneInv
  <2>3. RecordShaped /\ DOMAIN places = Users
    BY DEF GoneInv, RecordShaped
  <2>4. /\ Past(u, AfterSessions) => SessionsLeft(u)'
        /\ Past(u, AfterAgents) => AgentsLeft(u)'
        /\ Past(u, AfterPlaces) => PlaceLeft(u)'
        /\ Past(u, AfterForget) => SittingsLeft(u)'
        /\ u \in forgotten => HistoryLeft(u)'
    BY <2>1, <2>2, <2>3, SessionsLeftStays, AgentsLeftStays, PlaceLeftStays, SittingsLeftStays,
       HistoryLeftStays
  <2> QED BY <1>2, <1>5, <2>4 DEF Arrives
<1> QED BY <1>1, <1>4, <1>5 DEF GoneInv

\* What a deletion has taken away stays away.
LEMMA GoneStays == ListenersSpec => []GoneInv
<1>1. ListenersInit => GoneInv
  <2> SUFFICES ASSUME ListenersInit
               PROVE  GoneInv
    OBVIOUS
  <2>1. RecordShaped
    BY DEF ListenersInit, RecordShaped, Both, Zero
  <2>2. \A u, steps : ~Past(u, steps)
    BY IdleRequest DEF ListenersInit, AccountsInit, Past
  <2>3. forgotten = {}
    BY DEF ListenersInit
  <2> QED BY <2>1, <2>2, <2>3 DEF GoneInv
<1>2. AccountInv /\ OpenInv /\ GoneInv /\ [ListenersNext]_allVars => GoneInv'
  <2> SUFFICES ASSUME AccountInv, OpenInv, GoneInv, [ListenersNext]_allVars
               PROVE  GoneInv'
    OBVIOUS
  <2>1. CASE ListenersNext
    BY <2>1, NextFrames, GoneSteps
  <2>2. CASE UNCHANGED allVars
    BY <2>2 DEF allVars, vars, accountVars, listenVars, recordVars, GoneInv, RecordShaped, Past, IsCreating,
       AccountLeft, SessionsLeft, AgentsLeft, PlaceLeft, SittingsLeft, HistoryLeft
  <2> QED BY <2>1, <2>2
<1> QED BY <1>1, <1>2, AccountsAreSound, PTL DEF ListenersSpec

\* After a deletion that was carried through no session, agent token, place,
\* buffered sitting or history row of the account is left or comes back, unless
\* a request of it or a flush of its sitting was under way.
THEOREM DeletedStayForgotten == ListenersSpec => []DeletedIsForgotten
<1>1. GoneInv => DeletedIsForgotten
  <2> SUFFICES ASSUME GoneInv, NEW u \in forgotten \ (lingering \cup halfway)
               PROVE  /\ SessionsLeft(u) /\ AgentsLeft(u) /\ PlaceLeft(u) /\ SittingsLeft(u)
                      /\ HistoryLeft(u)
    BY DEF DeletedIsForgotten, SessionsLeft, AgentsLeft, PlaceLeft, SittingsLeft, HistoryLeft
  <2>1. u \in Users \ lingering
    BY DEF GoneInv, RecordShaped
  <2> QED BY <2>1 DEF GoneInv, Past
<1> QED BY <1>1, GoneStays, PTL

--------------------------------------------------------------------------------
(* The table of failed sign-ins, and the guesses it stands for.                *)

AddressEntry(network) == <<"address", network>>

EntryShaped(entry) ==
  /\ DOMAIN entry = {"failures", "last", "run"}
  /\ entry.failures \in Nat /\ entry.last \in Int
  /\ entry.run \in Nat /\ entry.run < serial

GuessShaped(g) ==
  /\ DOMAIN g = {"n", "network", "at", "back"}
  /\ g.n \in Nat /\ g.n < serial
  /\ g.at \in Int /\ g.at <= clock

TableInv ==
  /\ clock \in Int
  /\ attempts = [key \in DOMAIN attempts |-> attempts[key]]
  /\ \A key \in DOMAIN attempts : EntryShaped(attempts[key])
  /\ IsFiniteSet(guesses)
  /\ \A g \in guesses : GuessShaped(g)
  /\ \A g, h \in guesses : g.n = h.n => g = h
  /\ guesses = {} => DOMAIN attempts = {}

\* The wrong guesses of a network, and those since its counter last started.
Guessed(set, network) == {g \in set : g.network = network /\ ~g.back}
InRun(set, entry, network) == {g \in Guessed(set, network) : g.n >= entry.run}

\* A network's entry accounts for its wrong guesses of the last lockout window:
\* they are all of its current run, it is as recent as they are, and has counted
\* at least as many, within the limit.
Covers(table, set, network) ==
  LET key == AddressEntry(network) IN
  /\ \A g \in Guessed(set, network) : clock - g.at < Lockout =>
       key \in DOMAIN table /\ g.n >= table[key].run /\ g.at <= table[key].last
  /\ key \in DOMAIN table =>
       /\ table[key].failures <= AddressLimit
       /\ Cardinality(InRun(set, table[key], network)) <= table[key].failures

\* A sign-in whose password is being looked at still has its charge, in the
\* runs it remembers.
Trying(q) == q.at \in {"admitted", "verified"}
IsCharged(q) ==
  /\ DOMAIN q.runs = {AddressKey(q.address), NameKey(q.name)}
  /\ q.runs[AddressKey(q.address)] <= q.session
  /\ \E g \in guesses : g.n = q.session /\ g.network = NetworkOf[q.address] /\ ~g.back

TryingInv ==
  /\ \A r \in Requests : Trying(requests[r]) => IsCharged(requests[r])
  /\ \A r, x \in Requests :
       Trying(requests[r]) /\ Trying(requests[x]) /\ requests[r].session = requests[x].session => r = x

GuessInv ==
  /\ TableInv /\ TryingInv
  /\ \A network \in {NetworkOf[a] : a \in Addresses} : Covers(attempts, guesses, network)

--------------------------------------------------------------------------------
(* Sweeping, making room and charging.                                         *)

\* What a sweep and the making of room leave of the table: part of it, with
\* every address that is not stale and everything that holds a lock.
Thins(table, kept) ==
  /\ DOMAIN kept \subseteq DOMAIN table
  /\ kept = [key \in DOMAIN kept |-> table[key]]
  /\ \A key \in DOMAIN table : HoldsLock(table, key, clock) /\ ~IsStale(table[key], clock) =>
       key \in DOMAIN kept

\* A sweep forgets only what is stale.
LEMMA SweptThins ==
  ASSUME NEW table
  PROVE  Thins(table, Swept(table, clock))
BY DEF Thins, Swept, Restrict

\* Making room takes away nothing that holds a lock.
LEMMA RoomThins ==
  ASSUME NEW table, NEW keys, NEW gone \in Evictions(table, keys, clock)
  PROVE  Thins(table, Restrict(table, DOMAIN table \ gone))
<1>1. gone \in SUBSET {key \in DOMAIN table \ keys : ~HoldsLock(table, key, clock)}
  BY DEF Evictions
<1> QED BY <1>1 DEF Thins, Restrict

\* An address that is not stale keeps its place.
LEMMA AddressHolds ==
  ASSUME NEW table, NEW network
  PROVE  HoldsLock(table, AddressEntry(network), clock)
           <=> ~IsStale(table[AddressEntry(network)], clock)
<1>1. AddressEntry(network)[1] = "address"
  BY DEF AddressEntry
<1> QED BY <1>1 DEF HoldsLock

\* Thinning keeps the entries well formed.
LEMMA ThinnedShape ==
  ASSUME NEW table, NEW kept, Thins(table, kept), \A key \in DOMAIN table : EntryShaped(table[key])
  PROVE  \A key \in DOMAIN kept : EntryShaped(kept[key])
BY DEF Thins

\* A network's guesses stay covered when the table is thinned.
LEMMA ThinnedCovers ==
  ASSUME NEW table, NEW kept, Thins(table, kept), NEW network, Covers(table, guesses, network),
         TableInv, ThrottleAssumption, \A key \in DOMAIN table : EntryShaped(table[key])
  PROVE  Covers(kept, guesses, network)
<1> DEFINE key == AddressEntry(network)
<1>1. \A g \in Guessed(guesses, network) : clock - g.at < Lockout =>
        key \in DOMAIN table /\ g.n >= table[key].run /\ g.at <= table[key].last
  BY DEF Covers
<1>2. key \in DOMAIN table =>
        /\ table[key].failures <= AddressLimit
        /\ Cardinality(InRun(guesses, table[key], network)) <= table[key].failures
  BY DEF Covers
<1>3. HoldsLock(table, key, clock) <=> ~IsStale(table[key], clock)
  BY AddressHolds
<1>4. /\ DOMAIN kept \subseteq DOMAIN table
      /\ \A k \in DOMAIN kept : kept[k] = table[k]
      /\ HoldsLock(table, key, clock) /\ ~IsStale(table[key], clock) /\ key \in DOMAIN table =>
           key \in DOMAIN kept
  BY DEF Thins
<1>5. ASSUME NEW g \in Guessed(guesses, network), clock - g.at < Lockout
      PROVE  key \in DOMAIN kept /\ g.n >= kept[key].run /\ g.at <= kept[key].last
  <2>1. key \in DOMAIN table /\ g.n >= table[key].run /\ g.at <= table[key].last
    BY <1>1, <1>5
  <2>2. g.at \in Int /\ clock \in Int /\ Lockout \in Int
    BY DEF Guessed, TableInv, GuessShaped, ThrottleAssumption
  <2>3. table[key].last \in Int
    BY <2>1 DEF EntryShaped
  <2> HIDE DEF key
  <2>4. ~IsStale(table[key], clock)
    BY <1>5, <2>1, <2>2, <2>3 DEF IsStale
  <2> QED BY <1>3, <1>4, <2>1, <2>4
<1>6. key \in DOMAIN kept =>
        /\ kept[key].failures <= AddressLimit
        /\ Cardinality(InRun(guesses, kept[key], network)) <= kept[key].failures
  BY <1>2, <1>4
<1> QED BY <1>5, <1>6 DEF Covers

\* What a charge makes of an entry.
LEMMA ChargedEntries ==
  ASSUME NEW table, NEW keys, NEW now, NEW run, NEW key \in DOMAIN table \cup keys
  PROVE  LET entry == Charge(table, keys, now, run)[key]
             goesOn == key \in DOMAIN table /\ table[key].failures > 0 /\ ~IsStale(table[key], now)
         IN /\ key \notin keys => entry = table[key]
            /\ key \in keys /\ goesOn =>
                 \E counted : /\ counted = [table[key] EXCEPT !.failures = @ + 1]
                             /\ entry = [counted EXCEPT !.last = now]
            /\ key \in keys /\ ~goesOn => entry = [failures |-> 1, last |-> now, run |-> run]
<1>1. CASE key \notin keys
  BY <1>1 DEF Charge
<1>2. CASE key \in keys /\ key \in DOMAIN table /\ table[key].failures > 0 /\ ~IsStale(table[key], now)
  BY <1>2 DEF Charge
<1>3. CASE /\ key \in keys
           /\ ~(key \in DOMAIN table /\ table[key].failures > 0 /\ ~IsStale(table[key], now))
  BY <1>3 DEF Charge
<1> QED BY <1>1, <1>2, <1>3

\* The same, field by field.
LEMMA ChargedFields ==
  ASSUME NEW table, NEW keys, NEW now \in Int, NEW run \in Nat, NEW key \in DOMAIN table \cup keys,
         \A k \in DOMAIN table : EntryShaped(table[k])
  PROVE  LET entry == Charge(table, keys, now, run)[key]
             goesOn == key \in DOMAIN table /\ table[key].failures > 0 /\ ~IsStale(table[key], now)
         IN /\ DOMAIN entry = {"failures", "last", "run"}
            /\ key \notin keys => key \in DOMAIN table /\ entry = table[key]
            /\ key \in keys => entry.last = now
            /\ key \in keys /\ goesOn =>
                 entry.failures = table[key].failures + 1 /\ entry.run = table[key].run
            /\ key \in keys /\ ~goesOn => entry.failures = 1 /\ entry.run = run
<1> DEFINE goesOn == key \in DOMAIN table /\ table[key].failures > 0 /\ ~IsStale(table[key], now)
           entry == Charge(table, keys, now, run)[key]
<1>1. /\ key \notin keys => entry = table[key]
      /\ key \in keys /\ goesOn =>
           \E counted : /\ counted = [table[key] EXCEPT !.failures = @ + 1]
                       /\ entry = [counted EXCEPT !.last = now]
      /\ key \in keys /\ ~goesOn => entry = [failures |-> 1, last |-> now, run |-> run]
  BY ChargedEntries
<1>2. key \in DOMAIN table => DOMAIN table[key] = {"failures", "last", "run"}
  BY DEF EntryShaped
<1>3. goesOn => key \in DOMAIN table
  OBVIOUS
<1>4. key \notin keys => key \in DOMAIN table
  OBVIOUS
<1> HIDE DEF goesOn, entry
<1>5. ASSUME key \notin keys
      PROVE  DOMAIN entry = {"failures", "last", "run"} /\ entry = table[key]
  BY <1>1, <1>2, <1>4, <1>5
<1>6. ASSUME key \in keys, goesOn
      PROVE  /\ DOMAIN entry = {"failures", "last", "run"} /\ entry.last = now
             /\ entry.failures = table[key].failures + 1 /\ entry.run = table[key].run
  <2>1. PICK counted : /\ counted = [table[key] EXCEPT !.failures = @ + 1]
                       /\ entry = [counted EXCEPT !.last = now]
    BY <1>1, <1>6
  <2>2. /\ DOMAIN counted = {"failures", "last", "run"}
        /\ counted.failures = table[key].failures + 1 /\ counted.run = table[key].run
    BY <1>2, <1>3, <1>6, <2>1
  <2> QED BY <2>1, <2>2
<1>7. ASSUME key \in keys, ~goesOn
      PROVE  /\ DOMAIN entry = {"failures", "last", "run"} /\ entry.last = now
             /\ entry.failures = 1 /\ entry.run = run
  BY <1>1, <1>7
<1>8. /\ DOMAIN entry = {"failures", "last", "run"}
      /\ key \notin keys => key \in DOMAIN table /\ entry = table[key]
      /\ key \in keys => entry.last = now
      /\ key \in keys /\ goesOn =>
           entry.failures = table[key].failures + 1 /\ entry.run = table[key].run
      /\ key \in keys /\ ~goesOn => entry.failures = 1 /\ entry.run = run
  BY <1>4, <1>5, <1>6, <1>7
<1> QED BY <1>8 DEF goesOn, entry

\* Counting one more guess: a guess that is not yet there adds one at most.
LEMMA OneMoreGuess ==
  ASSUME NEW set, IsFiniteSet(set), NEW g, NEW network, NEW entry, NEW next, next.run = entry.run
  PROVE  /\ IsFiniteSet(InRun(set, entry, network))
         /\ Cardinality(InRun(set \cup {g}, next, network))
              <= Cardinality(InRun(set, entry, network)) + 1
<1> DEFINE old == InRun(set, entry, network)
           new == InRun(set \cup {g}, next, network)
<1>1. old \subseteq set /\ new \subseteq old \cup {g}
  BY DEF InRun, Guessed
<1> HIDE DEF old, new
<1>2. IsFiniteSet(old)
  BY <1>1, FS_Subset
<1>3. /\ IsFiniteSet(old \cup {g})
      /\ Cardinality(old \cup {g}) = Cardinality(old) \/ Cardinality(old \cup {g}) = Cardinality(old) + 1
  BY <1>2, FS_AddElement
<1>4. Cardinality(new) <= Cardinality(old \cup {g})
  BY <1>1, <1>3, FS_Subset
<1>5. Cardinality(old) \in Nat /\ Cardinality(new) \in Nat
  <2>1. IsFiniteSet(new)
    BY <1>1, <1>3, FS_Subset
  <2> QED BY <1>2, <2>1, FS_CardinalityType
<1>6. Cardinality(new) <= Cardinality(old) + 1
  BY <1>3, <1>4, <1>5
<1> QED BY <1>2, <1>6 DEF old, new

\* The key of an address is its network's, and neither a pair's nor a name's.
LEMMA AddressKeys ==
  ASSUME NEW address, NEW name, NEW network
  PROVE  /\ AddressEntry(network) \in KeysOf(address, name) <=> network = NetworkOf[address]
         /\ AddressEntry(network) = AddressKey(address) <=> network = NetworkOf[address]
         /\ AddressEntry(network) # AccountKey(address, name)
         /\ AddressEntry(network) # NameKey(name)
<1>1. /\ AddressEntry(network)[1] = "address" /\ AddressEntry(network)[2] = network
      /\ AddressKey(address)[2] = NetworkOf[address]
      /\ AccountKey(address, name)[1] = "account" /\ NameKey(name)[1] = "name"
  BY DEF AddressEntry, AddressKey, AccountKey, NameKey
<1>2. network = NetworkOf[address] => AddressEntry(network) = AddressKey(address)
  BY DEF AddressEntry, AddressKey
<1> QED BY <1>1, <1>2 DEF KeysOf

\* The guesses of a network that has room are covered once one more is charged.
LEMMA ChargedCovers ==
  ASSUME TableInv, ThrottleAssumption, serial \in Nat,
         NEW table, \A k \in DOMAIN table : EntryShaped(table[k]),
         NEW network, Covers(table, guesses, network), NEW address, NEW name, NEW g,
         g = [n |-> serial, network |-> NetworkOf[address], at |-> clock, back |-> FALSE],
         ~Over(table, AddressKey(address), clock, AddressLimit)
  PROVE  Covers(Charge(table, KeysOf(address, name), clock, serial), guesses \cup {g}, network)
<1> DEFINE key == AddressEntry(network)
           charged == Charge(table, KeysOf(address, name), clock, serial)
           more == guesses \cup {g}
           goesOn == key \in DOMAIN table /\ table[key].failures > 0 /\ ~IsStale(table[key], clock)
<1>1. \A h \in Guessed(guesses, network) : clock - h.at < Lockout =>
        key \in DOMAIN table /\ h.n >= table[key].run /\ h.at <= table[key].last
  BY DEF Covers
<1>2. key \in DOMAIN table =>
        /\ table[key].failures <= AddressLimit
        /\ Cardinality(InRun(guesses, table[key], network)) <= table[key].failures
  BY DEF Covers
<1>3. DOMAIN charged = DOMAIN table \cup KeysOf(address, name)
  BY DEF Charge
<1>4. /\ key \in KeysOf(address, name) <=> network = NetworkOf[address]
      /\ key = AddressKey(address) <=> network = NetworkOf[address]
  BY AddressKeys
<1>5. clock \in Int /\ IsFiniteSet(guesses) /\ \A h \in guesses : GuessShaped(h)
  BY DEF TableInv
<1>6. key \in DOMAIN table \cup KeysOf(address, name) =>
        /\ key \notin KeysOf(address, name) => key \in DOMAIN table /\ charged[key] = table[key]
        /\ key \in KeysOf(address, name) => charged[key].last = clock
        /\ key \in KeysOf(address, name) /\ goesOn =>
             charged[key].failures = table[key].failures + 1 /\ charged[key].run = table[key].run
        /\ key \in KeysOf(address, name) /\ ~goesOn =>
             charged[key].failures = 1 /\ charged[key].run = serial
  BY <1>5, ChargedFields
<1>7. g.n = serial /\ g.network = NetworkOf[address] /\ g.at = clock /\ ~g.back
  OBVIOUS
<1>8. key \in DOMAIN table => EntryShaped(table[key])
  OBVIOUS
<1>9. Lockout \in Nat /\ AddressLimit \in Nat /\ AddressLimit >= 1
  BY DEF ThrottleAssumption
<1>10. ~Over(table, AddressKey(address), clock, AddressLimit)
  OBVIOUS
<1> HIDE DEF key, charged, goesOn
<1>11. CASE network # NetworkOf[address]
  <2>1. Guessed(more, network) = Guessed(guesses, network)
    BY <1>7, <1>11 DEF Guessed
  <2>2. \A entry : InRun(more, entry, network) = InRun(guesses, entry, network)
    BY <2>1 DEF InRun
  <2>3. key \in DOMAIN charged <=> key \in DOMAIN table
    BY <1>3, <1>4, <1>11
  <2>4. key \in DOMAIN table => charged[key] = table[key]
    BY <1>4, <1>6, <1>11
  <2> QED BY <1>1, <1>2, <2>1, <2>2, <2>3, <2>4 DEF Covers, key, charged
<1>12. CASE network = NetworkOf[address]
  <2>1. key \in KeysOf(address, name) /\ key = AddressKey(address) /\ key \in DOMAIN charged
    BY <1>3, <1>4, <1>12
  <2>2. CASE goesOn
    <3>1. /\ key \in DOMAIN table /\ ~IsStale(table[key], clock)
          /\ charged[key].failures = table[key].failures + 1 /\ charged[key].run = table[key].run
          /\ charged[key].last = clock
      BY <1>6, <2>1, <2>2 DEF goesOn
    <3>2. table[key].failures \in Nat /\ table[key].run \in Nat /\ table[key].run < serial
      BY <1>8, <3>1 DEF EntryShaped
    <3>3. table[key].failures < AddressLimit
      BY <1>9, <1>10, <2>1, <3>1, <3>2 DEF Over, IsLocked
    <3>4. /\ IsFiniteSet(InRun(guesses, table[key], network))
          /\ Cardinality(InRun(more, charged[key], network))
               <= Cardinality(InRun(guesses, table[key], network)) + 1
      BY <1>5, <3>1, OneMoreGuess
    <3>5. InRun(more, charged[key], network) \subseteq InRun(guesses, table[key], network) \cup {g}
      BY <3>1 DEF InRun, Guessed
    <3>6. /\ Cardinality(InRun(guesses, table[key], network)) \in Nat
          /\ Cardinality(InRun(more, charged[key], network)) \in Nat
      <4>1. IsFiniteSet(InRun(guesses, table[key], network) \cup {g})
        BY <3>4, FS_AddElement
      <4>2. IsFiniteSet(InRun(more, charged[key], network))
        BY <3>5, <4>1, FS_Subset
      <4> QED BY <3>4, <4>2, FS_CardinalityType
    <3>7. /\ charged[key].failures <= AddressLimit
          /\ Cardinality(InRun(more, charged[key], network)) <= charged[key].failures
      BY <1>2, <1>9, <3>1, <3>2, <3>3, <3>4, <3>6
    <3>8. ASSUME NEW h \in Guessed(more, network), clock - h.at < Lockout
          PROVE  h.n >= charged[key].run /\ h.at <= charged[key].last
      <4>1. CASE h = g
        BY <1>5, <1>7, <3>1, <3>2, <4>1
      <4>2. CASE h # g
        <5>1. h \in Guessed(guesses, network)
          BY <3>8, <4>2 DEF Guessed
        <5>2. h.at \in Int /\ h.at <= clock
          BY <1>5, <5>1 DEF Guessed, GuessShaped
        <5> QED BY <1>1, <3>1, <3>8, <5>1, <5>2
      <4> QED BY <4>1, <4>2
    <3> QED BY <2>1, <3>7, <3>8 DEF Covers, key, charged
  <2>3. CASE ~goesOn
    <3>1. charged[key].failures = 1 /\ charged[key].run = serial /\ charged[key].last = clock
      BY <1>6, <2>1, <2>3
    <3>2. ASSUME NEW h \in Guessed(guesses, network), clock - h.at < Lockout
          PROVE  FALSE
      <4>1. key \in DOMAIN table /\ h.n >= table[key].run /\ h.at <= table[key].last
        BY <1>1, <3>2
      <4>2. h.at \in Int /\ table[key].last \in Int /\ table[key].failures \in Nat
        BY <1>5, <1>8, <4>1 DEF Guessed, GuessShaped, EntryShaped
      <4>3. ~IsStale(table[key], clock)
        BY <1>5, <1>9, <3>2, <4>1, <4>2 DEF IsStale
      <4>4. table[key].failures = 0
        BY <2>3, <4>1, <4>2, <4>3 DEF goesOn
      <4>5. h \in InRun(guesses, table[key], network)
        BY <4>1 DEF InRun
      <4>6. IsFiniteSet(InRun(guesses, table[key], network))
        <5>1. InRun(guesses, table[key], network) \subseteq guesses
          BY DEF InRun, Guessed
        <5> QED BY <1>5, <5>1, FS_Subset
      <4>7. Cardinality(InRun(guesses, table[key], network)) \in Nat
        BY <4>6, FS_CardinalityType
      <4>8. Cardinality(InRun(guesses, table[key], network)) # 0
        BY <4>5, <4>6, FS_EmptySet
      <4> QED BY <1>2, <4>1, <4>4, <4>7, <4>8
    <3>3. InRun(more, charged[key], network) \subseteq {g}
      <4>1. ASSUME NEW h \in InRun(more, charged[key], network)
            PROVE  h = g
        <5>1. (h \in guesses \/ h = g) /\ h.n >= serial
          BY <3>1 DEF InRun, Guessed
        <5>2. h \in guesses => h.n \in Nat /\ h.n < serial
          BY <1>5 DEF GuessShaped
        <5> QED BY <5>1, <5>2
      <4> QED BY <4>1
    <3>4. Cardinality(InRun(more, charged[key], network)) <= 1
      <4>1. IsFiniteSet({g}) /\ Cardinality({g}) = 1
        BY FS_Singleton
      <4>2. Cardinality(InRun(more, charged[key], network)) <= Cardinality({g})
        BY <3>3, <4>1, FS_Subset
      <4> QED BY <4>1, <4>2
    <3>5. ASSUME NEW h \in Guessed(more, network), clock - h.at < Lockout
          PROVE  h.n >= charged[key].run /\ h.at <= charged[key].last
      <4>1. CASE h = g
        BY <1>5, <1>7, <3>1, <4>1
      <4>2. CASE h # g
        <5>1. h \in Guessed(guesses, network)
          BY <3>5, <4>2 DEF Guessed
        <5> QED BY <3>2, <3>5, <5>1
      <4> QED BY <4>1, <4>2
    <3> QED BY <1>9, <2>1, <3>1, <3>4, <3>5 DEF Covers, key, charged
  <2> QED BY <2>2, <2>3
<1> QED BY <1>11, <1>12

\* A charge keeps the entries well formed.
LEMMA ChargedShape ==
  ASSUME NEW table, NEW keys, clock \in Int, serial \in Nat,
         \A k \in DOMAIN table : EntryShaped(table[k])
  PROVE  \A key \in DOMAIN table \cup keys :
           LET entry == Charge(table, keys, clock, serial)[key] IN
           /\ DOMAIN entry = {"failures", "last", "run"}
           /\ entry.failures \in Nat /\ entry.last \in Int
           /\ entry.run \in Nat /\ entry.run <= serial
<1> SUFFICES ASSUME NEW key \in DOMAIN table \cup keys
             PROVE  LET entry == Charge(table, keys, clock, serial)[key] IN
                    /\ DOMAIN entry = {"failures", "last", "run"}
                    /\ entry.failures \in Nat /\ entry.last \in Int
                    /\ entry.run \in Nat /\ entry.run <= serial
  OBVIOUS
<1> DEFINE entry == Charge(table, keys, clock, serial)[key]
           goesOn == key \in DOMAIN table /\ table[key].failures > 0 /\ ~IsStale(table[key], clock)
<1>0. DOMAIN entry = {"failures", "last", "run"}
  BY ChargedFields
<1>1. /\ key \notin keys => key \in DOMAIN table /\ entry = table[key]
      /\ key \in keys => entry.last = clock
      /\ key \in keys /\ goesOn =>
           entry.failures = table[key].failures + 1 /\ entry.run = table[key].run
      /\ key \in keys /\ ~goesOn => entry.failures = 1 /\ entry.run = serial
  BY ChargedFields
<1>2. key \in DOMAIN table =>
        /\ table[key].failures \in Nat /\ table[key].last \in Int
        /\ table[key].run \in Nat /\ table[key].run < serial
  BY DEF EntryShaped
<1>3. goesOn => key \in DOMAIN table
  OBVIOUS
<1> HIDE DEF entry, goesOn
<1>4. /\ entry.failures \in Nat /\ entry.last \in Int
      /\ entry.run \in Nat /\ entry.run <= serial
  <2>1. CASE key \notin keys
    BY <1>1, <1>2, <2>1
  <2>2. CASE key \in keys /\ goesOn
    BY <1>1, <1>2, <1>3, <2>2
  <2>3. CASE key \in keys /\ ~goesOn
    BY <1>1, <2>3
  <2> QED BY <2>1, <2>2, <2>3
<1> QED BY <1>0, <1>1, <1>4 DEF entry

--------------------------------------------------------------------------------
(* Giving a charge back.                                                       *)

\* The guesses once that of a successful sign-in was marked.
Marked(q) == {IF g.n = q.session THEN [g EXCEPT !.back = TRUE] ELSE g : g \in guesses}

\* The guess of a sign-in, and what is left without it.
LEMMA MarkedGuesses ==
  ASSUME TableInv, NEW q, IsCharged(q)
  PROVE  \E own \in guesses :
           /\ own.n = q.session /\ own.network = NetworkOf[q.address] /\ ~own.back
           /\ Marked(q) = (guesses \ {own}) \cup {[own EXCEPT !.back = TRUE]}
           /\ IsFiniteSet(Marked(q))
           /\ \A network : Guessed(Marked(q), network) = Guessed(guesses, network) \ {own}
<1>1. PICK own \in guesses : own.n = q.session /\ own.network = NetworkOf[q.address] /\ ~own.back
  BY DEF IsCharged
<1>2. PICK marked : marked = [own EXCEPT !.back = TRUE]
  OBVIOUS
<1>3. \A g \in guesses : g.n = q.session <=> g = own
  BY <1>1 DEF TableInv
<1>4. Marked(q) = (guesses \ {own}) \cup {marked}
  <2>1. \A g \in guesses :
          (IF g.n = q.session THEN [g EXCEPT !.back = TRUE] ELSE g) = (IF g = own THEN marked ELSE g)
    BY <1>2, <1>3
  <2>2. Marked(q) = {IF g = own THEN marked ELSE g : g \in guesses}
    BY <2>1 DEF Marked
  <2> HIDE DEF Marked
  <2> QED BY <1>1, <2>2
<1>5. marked.back
  <2>1. DOMAIN own = {"n", "network", "at", "back"}
    BY <1>1 DEF TableInv, GuessShaped
  <2> QED BY <1>2, <2>1
<1>6. IsFiniteSet(Marked(q))
  <2>1. IsFiniteSet(guesses \ {own})
    BY FS_RemoveElement DEF TableInv
  <2> QED BY <1>4, <2>1, FS_AddElement
<1>7. \A network : Guessed(Marked(q), network) = Guessed(guesses, network) \ {own}
  BY <1>4, <1>5 DEF Guessed
<1> QED BY <1>1, <1>2, <1>4, <1>6, <1>7

\* A success takes the pair out of the table.
LEMMA ClearedDomain ==
  ASSUME NEW table, NEW address, NEW name, NEW runs
  PROVE  DOMAIN Cleared(table, address, name, runs) = DOMAIN table \ {AccountKey(address, name)}
BY DEF Cleared, Refund, Restrict

\* What it makes of the other entries.
LEMMA ClearedEntries ==
  ASSUME NEW table, NEW address, NEW name, NEW runs, NEW key \in DOMAIN table,
         key # AccountKey(address, name), EntryShaped(table[key])
  PROVE  LET entry == Cleared(table, address, name, runs)[key]
             given == key \in DOMAIN runs /\ table[key].run = runs[key] /\ table[key].failures > 0
         IN /\ EntryShaped(entry)
            /\ entry.run = table[key].run /\ entry.last = table[key].last
            /\ given => entry.failures = table[key].failures - 1
            /\ ~given => entry.failures = table[key].failures
<1> DEFINE rest == Restrict(table, DOMAIN table \ {AccountKey(address, name)})
           entry == Cleared(table, address, name, runs)[key]
           given == key \in DOMAIN runs /\ table[key].run = runs[key] /\ table[key].failures > 0
<1>1. key \in DOMAIN rest /\ rest[key] = table[key]
  BY DEF Restrict
<1>2. entry = Refund(rest, runs)[key]
  BY DEF Cleared
<1>3. PICK less : less = [table[key] EXCEPT !.failures = @ - 1]
  OBVIOUS
<1> HIDE DEF rest
<1>4. entry = IF given THEN less ELSE table[key]
  BY <1>1, <1>2, <1>3 DEF Refund
<1>5. /\ DOMAIN less = {"failures", "last", "run"}
      /\ less.failures = table[key].failures - 1
      /\ less.last = table[key].last /\ less.run = table[key].run
  BY <1>3 DEF EntryShaped
<1>6. given => table[key].failures - 1 \in Nat
  BY DEF EntryShaped
<1> HIDE DEF entry, given
<1>7. /\ EntryShaped(entry)
      /\ entry.run = table[key].run /\ entry.last = table[key].last
      /\ given => entry.failures = table[key].failures - 1
      /\ ~given => entry.failures = table[key].failures
  BY <1>4, <1>5, <1>6 DEF EntryShaped
<1> QED BY <1>7 DEF entry, given

\* The entries stay well formed.
LEMMA ClearedShape ==
  ASSUME NEW table, NEW address, NEW name, NEW runs,
         \A key \in DOMAIN table : EntryShaped(table[key])
  PROVE  \A key \in DOMAIN Cleared(table, address, name, runs) :
           EntryShaped(Cleared(table, address, name, runs)[key])
<1>1. DOMAIN Cleared(table, address, name, runs) = DOMAIN table \ {AccountKey(address, name)}
  BY ClearedDomain
<1>2. ASSUME NEW key \in DOMAIN table, key # AccountKey(address, name)
      PROVE  EntryShaped(Cleared(table, address, name, runs)[key])
  BY <1>2, ClearedEntries
<1> QED BY <1>1, <1>2

\* A network's guesses stay covered: its counter only goes down in the run the
\* guess belongs to, and that guess counts no longer.
LEMMA ClearedCovers ==
  ASSUME TableInv, ThrottleAssumption, NEW q, IsCharged(q), NEW network,
         Covers(attempts, guesses, network)
  PROVE  Covers(Cleared(attempts, q.address, q.name, q.runs), Marked(q), network)
<1> DEFINE key == AddressEntry(network)
           cleared == Cleared(attempts, q.address, q.name, q.runs)
<1>1. \A h \in Guessed(guesses, network) : clock - h.at < Lockout =>
        key \in DOMAIN attempts /\ h.n >= attempts[key].run /\ h.at <= attempts[key].last
  BY DEF Covers
<1>2. key \in DOMAIN attempts =>
        /\ attempts[key].failures <= AddressLimit
        /\ Cardinality(InRun(guesses, attempts[key], network)) <= attempts[key].failures
  BY DEF Covers
<1>3. PICK own \in guesses :
        /\ own.n = q.session /\ own.network = NetworkOf[q.address] /\ ~own.back
        /\ Guessed(Marked(q), network) = Guessed(guesses, network) \ {own}
  BY MarkedGuesses
<1>4. /\ key # AccountKey(q.address, q.name) /\ key # NameKey(q.name)
      /\ key = AddressKey(q.address) <=> network = NetworkOf[q.address]
  BY AddressKeys
<1>5. DOMAIN cleared = DOMAIN attempts \ {AccountKey(q.address, q.name)}
  BY ClearedDomain
<1>6. key \in DOMAIN cleared <=> key \in DOMAIN attempts
  BY <1>4, <1>5
<1>7. /\ DOMAIN q.runs = {AddressKey(q.address), NameKey(q.name)}
      /\ q.runs[AddressKey(q.address)] <= q.session
  BY DEF IsCharged
<1>8. key \in DOMAIN attempts => EntryShaped(attempts[key])
  BY DEF TableInv
<1> DEFINE given == key \in DOMAIN q.runs /\ attempts[key].run = q.runs[key]
                      /\ attempts[key].failures > 0
<1>9. ASSUME key \in DOMAIN attempts
      PROVE  /\ cleared[key].run = attempts[key].run /\ cleared[key].last = attempts[key].last
             /\ given => cleared[key].failures = attempts[key].failures - 1
             /\ ~given => cleared[key].failures = attempts[key].failures
  BY <1>4, <1>8, <1>9, ClearedEntries
<1>10. AddressLimit \in Nat
  BY DEF ThrottleAssumption
<1> HIDE DEF key, cleared
<1>11. ASSUME key \in DOMAIN attempts
       PROVE  /\ cleared[key].run = attempts[key].run /\ cleared[key].last = attempts[key].last
              /\ InRun(Marked(q), cleared[key], network)
                   = InRun(guesses, attempts[key], network) \ {own}
              /\ \/ cleared[key].failures = attempts[key].failures
                 \/ /\ cleared[key].failures = attempts[key].failures - 1
                    /\ own \in InRun(guesses, attempts[key], network)
  <2>1. InRun(Marked(q), cleared[key], network)
          = InRun(guesses, attempts[key], network) \ {own}
    BY <1>3, <1>9, <1>11 DEF InRun
  <2>2. ASSUME given PROVE own \in InRun(guesses, attempts[key], network)
    <3>1. key = AddressKey(q.address) /\ network = NetworkOf[q.address]
      BY <1>4, <1>7, <2>2
    <3> QED BY <1>3, <1>7, <2>2, <3>1 DEF InRun, Guessed
  <2> HIDE DEF given
  <2> QED BY <1>9, <1>11, <2>1, <2>2
<1>12. ASSUME key \in DOMAIN attempts
       PROVE  /\ cleared[key].failures <= AddressLimit
              /\ Cardinality(InRun(Marked(q), cleared[key], network)) <= cleared[key].failures
  <2> DEFINE old == InRun(guesses, attempts[key], network)
  <2>1. IsFiniteSet(old)
    <3>1. old \subseteq guesses
      BY DEF InRun, Guessed
    <3> QED BY <3>1, FS_Subset DEF TableInv
  <2>2. /\ IsFiniteSet(old \ {own})
        /\ Cardinality(old \ {own}) = IF own \in old THEN Cardinality(old) - 1 ELSE Cardinality(old)
    BY <2>1, FS_RemoveElement
  <2>3. Cardinality(old) \in Nat /\ attempts[key].failures \in Nat
    BY <1>8, <1>12, <2>1, FS_CardinalityType DEF EntryShaped
  <2>4. Cardinality(old) <= attempts[key].failures /\ attempts[key].failures <= AddressLimit
    BY <1>2, <1>12
  <2>5. /\ InRun(Marked(q), cleared[key], network) = old \ {own}
        /\ \/ cleared[key].failures = attempts[key].failures
           \/ cleared[key].failures = attempts[key].failures - 1 /\ own \in old
    BY <1>11, <1>12
  <2> HIDE DEF old
  <2> QED BY <1>10, <2>2, <2>3, <2>4, <2>5
<1>13. ASSUME NEW h \in Guessed(Marked(q), network), clock - h.at < Lockout
       PROVE  key \in DOMAIN cleared /\ h.n >= cleared[key].run /\ h.at <= cleared[key].last
  <2>1. h \in Guessed(guesses, network)
    BY <1>3, <1>13
  <2>2. key \in DOMAIN attempts /\ h.n >= attempts[key].run /\ h.at <= attempts[key].last
    BY <1>1, <1>13, <2>1
  <2> QED BY <1>6, <1>11, <2>2
<1> QED BY <1>6, <1>12, <1>13 DEF Covers, key, cleared

--------------------------------------------------------------------------------
(* What would be refused stays refused.                                        *)

\* A pair holds a lock of its own, or its part of one of the name's.
LEMMA PairHolds ==
  ASSUME NEW table, NEW address, NEW name
  PROVE  HoldsLock(table, AccountKey(address, name), clock)
           <=> \/ IsLocked(table[AccountKey(address, name)], clock, AccountLimit)
               \/ /\ ~IsStale(table[AccountKey(address, name)], clock)
                  /\ Over(table, NameKey(name), clock, NameLimit)
<1>1. AccountKey(address, name)[1] = "account" /\ AccountKey(address, name)[3] = name
  BY DEF AccountKey
<1> QED BY <1>1 DEF HoldsLock

\* A name holds one while it is under attack.
LEMMA NameHolds ==
  ASSUME NEW table, NEW name
  PROVE  HoldsLock(table, NameKey(name), clock) <=> IsLocked(table[NameKey(name)], clock, NameLimit)
<1>1. NameKey(name)[1] = "name"
  BY DEF NameKey
<1> QED BY <1>1 DEF HoldsLock

\* A thinned table refuses what the whole one does.
LEMMA ThinnedRefuses ==
  ASSUME NEW table, NEW kept, Thins(table, kept), NEW address, NEW name,
         Refuses(table, address, name, clock)
  PROVE  Refuses(kept, address, name, clock)
<1>0. /\ \A key \in DOMAIN kept : kept[key] = table[key]
      /\ \A key \in DOMAIN table : HoldsLock(table, key, clock) /\ ~IsStale(table[key], clock) =>
           key \in DOMAIN kept
  BY DEF Thins
<1>1. ASSUME Over(table, AccountKey(address, name), clock, AccountLimit)
      PROVE  Over(kept, AccountKey(address, name), clock, AccountLimit)
  BY <1>0, <1>1, PairHolds DEF Over, IsLocked
<1>2. ASSUME Over(table, AddressKey(address), clock, AddressLimit)
      PROVE  Over(kept, AddressKey(address), clock, AddressLimit)
  <2>1. AddressKey(address) = AddressEntry(NetworkOf[address])
    BY DEF AddressKey, AddressEntry
  <2> QED BY <1>0, <1>2, <2>1, AddressHolds DEF Over, IsLocked
<1>3. ASSUME Over(table, NameKey(name), clock, NameLimit)
      PROVE  Over(kept, NameKey(name), clock, NameLimit)
  BY <1>0, <1>3, NameHolds DEF Over, IsLocked
<1>4. ASSUME Recent(table, AccountKey(address, name), clock), Over(table, NameKey(name), clock, NameLimit)
      PROVE  Recent(kept, AccountKey(address, name), clock)
  BY <1>0, <1>4, PairHolds DEF Recent
<1> QED BY <1>1, <1>2, <1>3, <1>4 DEF Refuses

\* A charge lifts no counter from its limit.
LEMMA ChargedOver ==
  ASSUME NEW table, \A k \in DOMAIN table : EntryShaped(table[k]), ThrottleAssumption,
         clock \in Int, serial \in Nat, NEW keys, NEW key
  PROVE  /\ \A limit \in Nat \ {0} : Over(table, key, clock, limit) =>
              Over(Charge(table, keys, clock, serial), key, clock, limit)
         /\ Recent(table, key, clock) => Recent(Charge(table, keys, clock, serial), key, clock)
<1> DEFINE charged == Charge(table, keys, clock, serial)
<1>1. DOMAIN charged = DOMAIN table \cup keys
  BY DEF Charge
<1>2. ASSUME Recent(table, key, clock)
      PROVE  /\ key \in DOMAIN charged /\ ~IsStale(charged[key], clock)
             /\ \/ charged[key].failures = table[key].failures
                \/ charged[key].failures = table[key].failures + 1
                \/ table[key].failures = 0
  <2>1. key \in DOMAIN table /\ ~IsStale(table[key], clock) /\ EntryShaped(table[key])
    BY <1>2 DEF Recent
  <2>2. /\ key \notin keys => charged[key] = table[key]
        /\ key \in keys => charged[key].last = clock
        /\ key \in keys /\ table[key].failures > 0 =>
             charged[key].failures = table[key].failures + 1
    BY <2>1, ChargedFields
  <2>3. Lockout >= 1 /\ Lockout \in Nat
    BY DEF ThrottleAssumption
  <2> HIDE DEF charged
  <2>4. ~IsStale(charged[key], clock)
    BY <2>1, <2>2, <2>3 DEF IsStale
  <2>5. table[key].failures \in Nat
    BY <2>1 DEF EntryShaped
  <2> QED BY <1>1, <2>1, <2>2, <2>4, <2>5
<1>3. ASSUME NEW limit \in Nat \ {0}, Over(table, key, clock, limit)
      PROVE  Over(charged, key, clock, limit)
  <2>1. /\ key \in DOMAIN table /\ ~IsStale(table[key], clock)
        /\ table[key].failures \in Nat /\ table[key].failures >= limit
    BY <1>3 DEF Over, IsLocked, EntryShaped
  <2>2. /\ key \in DOMAIN charged /\ ~IsStale(charged[key], clock)
        /\ \/ charged[key].failures = table[key].failures
           \/ charged[key].failures = table[key].failures + 1
    BY <1>2, <2>1 DEF Recent
  <2> HIDE DEF charged
  <2> QED BY <2>1, <2>2 DEF Over, IsLocked
<1> QED BY <1>2, <1>3 DEF Recent

\* A charged table refuses what it did before.
LEMMA ChargedRefuses ==
  ASSUME NEW table, \A k \in DOMAIN table : EntryShaped(table[k]), ThrottleAssumption,
         clock \in Int, serial \in Nat, NEW keys, NEW address, NEW name,
         Refuses(table, address, name, clock)
  PROVE  Refuses(Charge(table, keys, clock, serial), address, name, clock)
<1>1. {AccountLimit, AddressLimit, NameLimit} \subseteq Nat \ {0}
  BY DEF ThrottleAssumption
<1>2. \A key : \A limit \in Nat \ {0} : Over(table, key, clock, limit) =>
        Over(Charge(table, keys, clock, serial), key, clock, limit)
  BY ChargedOver
<1>3. \A key : Recent(table, key, clock) => Recent(Charge(table, keys, clock, serial), key, clock)
  BY ChargedOver
<1> QED BY <1>1, <1>2, <1>3 DEF Refuses

--------------------------------------------------------------------------------
(* The steps that leave the table of sign-ins alone.                           *)

\* A request whose password is being looked at was so before, with its charge.
StillTrying(p, q) ==
  Trying(q) => /\ Trying(p)
               /\ q.session = p.session /\ q.address = p.address /\ q.name = p.name /\ q.runs = p.runs

AllTrying == \A x \in Requests : StillTrying(requests[x], requests'[x])

Passes ==
  /\ UNCHANGED <<attempts, guesses>>
  /\ clock' = clock \/ clock' = clock + 1
  /\ serial' = serial \/ serial' = serial + 1
  /\ AllTrying

\* One request changes, to one that has its charge still or is not trying.
LEMMA OneTries ==
  ASSUME AccountInv, NEW r \in Requests, NEW q, requests' = [requests EXCEPT ![r] = q],
         StillTrying(requests[r], q)
  PROVE  AllTrying
<1>1. requests'[r] = q /\ \A x \in Requests : x # r => requests'[x] = requests[x]
  BY OneRequest DEF AccountInv
<1> QED BY <1>1 DEF AllTrying, StillTrying

\* A request ends.
LEMMA EndsTries ==
  ASSUME AccountInv, NEW r \in Requests, Ends(r)
  PROVE  AllTrying
<1>1. StillTrying(requests[r], Idle)
  BY IdleRequest DEF StillTrying, Trying
<1> QED BY <1>1, OneTries DEF Ends

\* A request moves on.
LEMMA MovesTries ==
  ASSUME AccountInv, NEW r \in Requests, NEW at, Moves(r, at), at \notin {"admitted", "verified"}
  PROVE  AllTrying
<1> DEFINE q == [requests[r] EXCEPT !.at = at]
<1>1. requests' = [requests EXCEPT ![r] = q]
  BY DEF Moves
<1>2. q.at = at
  BY MovedRequest DEF AccountInv, Shaped
<1> HIDE DEF q
<1>3. StillTrying(requests[r], q)
  BY <1>2 DEF StillTrying, Trying
<1> QED BY <1>1, <1>3, OneTries

\* A checkpoint proceeds.
LEMMA ProceedsTries ==
  ASSUME AccountInv, NEW r \in Requests, NEW work, NEW at, Proceeds(r, work, at),
         at \notin {"admitted", "verified"}
  PROVE  AllTrying
<1>1. CASE at = "done"
  BY <1>1, EndsTries DEF Proceeds, Ends
<1>2. CASE at # "done"
  <2> DEFINE q == [requests[r] EXCEPT !.at = at, !.work = work]
  <2>1. requests' = [requests EXCEPT ![r] = q]
    BY <1>2 DEF Proceeds
  <2>2. Fielded(requests[r])
    BY DEF AccountInv, Shaped, RequestShaped
  <2>3. q.at = at
    BY <2>2 DEF Fielded
  <2> HIDE DEF q
  <2>4. StillTrying(requests[r], q)
    BY <2>3 DEF StillTrying, Trying
  <2> QED BY <2>1, <2>4, OneTries
<1> QED BY <1>1, <1>2

\* Somebody asks for something.
LEMMA AskedTries ==
  ASSUME AccountInv, NEW r \in Requests, NEW s, NEW p, Asks(r, s, p), Fielded(p),
         p.at \notin {"admitted", "verified"}
  PROVE  AllTrying
<1>1. PICK boss : requests' = [requests EXCEPT ![r] =
                                  [p EXCEPT !.by = s.user, !.session = s.n, !.boss = boss]]
  BY DEF Asks, Begins
<1> DEFINE q == [p EXCEPT !.by = s.user, !.session = s.n, !.boss = boss]
<1>2. q.at = p.at
  BY DEF Fielded
<1>3. requests' = [requests EXCEPT ![r] = q]
  BY <1>1
<1> HIDE DEF q
<1>4. StillTrying(requests[r], q)
  BY <1>2 DEF StillTrying, Trying
<1> QED BY <1>3, <1>4, OneTries

\* What is asked for.
LEMMA AskingTries ==
  ASSUME AccountInv, NEW r \in Requests, NEW s, NEW u, NEW role, NEW spot, NEW seek,
         \/ AskNewPassword(r, s, u) \/ AskDeletion(r, s, u) \/ AskRole(r, s, u, role)
         \/ AskAccount(r, s, u, role) \/ AskAgent(r, s) \/ AskCheckpoint(r, s, spot, seek)
         \/ AskSignOut(r, s) \/ UseExpired(r, s)
  PROVE  AllTrying
<1>1. CASE AskNewPassword(r, s, u)
  <2> DEFINE p == [Idle EXCEPT !.op = "change", !.at = "users", !.user = u, !.pw = users.mem[u].pw]
  <2>1. Asks(r, s, p)
    BY <1>1 DEF AskNewPassword
  <2>2. Fielded(p) /\ p.at = "users"
    BY DEF Fielded, Idle
  <2> HIDE DEF p
  <2> QED BY <2>1, <2>2, AskedTries
<1>2. CASE AskDeletion(r, s, u)
  <2> DEFINE p == [Idle EXCEPT !.op = "delete", !.at = "users", !.user = u]
  <2>1. Asks(r, s, p)
    BY <1>2 DEF AskDeletion
  <2>2. Fielded(p) /\ p.at = "users"
    BY DEF Fielded, Idle
  <2> HIDE DEF p
  <2> QED BY <2>1, <2>2, AskedTries
<1>3. CASE AskRole(r, s, u, role)
  <2> DEFINE p == [Idle EXCEPT !.op = "role", !.at = "users", !.user = u, !.role = role]
  <2>1. Asks(r, s, p)
    BY <1>3 DEF AskRole
  <2>2. Fielded(p) /\ p.at = "users"
    BY DEF Fielded, Idle
  <2> HIDE DEF p
  <2> QED BY <2>1, <2>2, AskedTries
<1>4. CASE AskAccount(r, s, u, role)
  <2> DEFINE p == [Idle EXCEPT !.op = "create", !.at = "users", !.user = u, !.role = role]
  <2>1. Asks(r, s, p)
    BY <1>4 DEF AskAccount
  <2>2. Fielded(p) /\ p.at = "users"
    BY DEF Fielded, Idle
  <2> HIDE DEF p
  <2> QED BY <2>1, <2>2, AskedTries
<1>5. CASE AskAgent(r, s)
  <2> DEFINE p == [Idle EXCEPT !.op = "agent", !.at = "asked", !.user = s.user]
  <2>1. Asks(r, s, p)
    BY <1>5 DEF AskAgent
  <2>2. Fielded(p) /\ p.at = "asked"
    BY DEF Fielded, Idle
  <2> HIDE DEF p
  <2> QED BY <2>1, <2>2, AskedTries
<1>6. CASE AskCheckpoint(r, s, spot, seek)
  <2>1. PICK work : Asks(r, s, [Idle EXCEPT !.op = "checkpoint", !.at = "store", !.work = work])
    BY <1>6, Zenon DEF AskCheckpoint
  <2> DEFINE p == [Idle EXCEPT !.op = "checkpoint", !.at = "store", !.work = work]
  <2>2. Fielded(p) /\ p.at = "store"
    BY DEF Fielded, Idle
  <2>3. Asks(r, s, p)
    BY <2>1
  <2> HIDE DEF p
  <2> QED BY <2>2, <2>3, AskedTries
<1>7. CASE AskSignOut(r, s) \/ UseExpired(r, s)
  <2> DEFINE q == [Idle EXCEPT !.op = "signOut", !.at = "sessions", !.session = s.n]
  <2>1. requests' = [requests EXCEPT ![r] = q]
    BY <1>7 DEF AskSignOut, UseExpired, Begins
  <2>2. q.at = "sessions"
    BY DEF Idle
  <2> HIDE DEF q
  <2>3. StillTrying(requests[r], q)
    BY <2>2 DEF StillTrying, Trying
  <2> QED BY <2>1, <2>3, OneTries
<1> QED BY <1>1, <1>2, <1>3, <1>4, <1>5, <1>6, <1>7

\* The writes, the steps of a checkpoint, and what cuts a request short.
LEMMA WritingTries ==
  ASSUME AccountInv, NEW r \in Requests,
         \/ WriteUsers(r) \/ WriteSessions(r) \/ PublishLinks(r) \/ WriteNewAgent(r)
         \/ RevokeAgents(r) \/ ForgetPart(r) \/ FinishSignIn(r) \/ CheckAgent(r)
         \/ StorePlace(r) \/ AddActivity(r) \/ FoldIn(r) \/ WriteRows(r) \/ WriteCompletion(r)
         \/ LosesStatistic(r) \/ RecordsOnlyOnDisk(r) \/ GivesUpListening(r) \/ WritesOnlyDisk(r)
  PROVE  AllTrying
<1>1. CASE \/ WriteUsers(r) \/ PublishLinks(r) \/ WriteNewAgent(r) \/ RevokeAgents(r)
           \/ ForgetPart(r) \/ FinishSignIn(r)
  <2>1. Ends(r) \/ \E at \in {"sessions", "agents", "places", "forget", "purge"} : Moves(r, at)
    BY <1>1 DEF WriteUsers, PublishLinks, WriteNewAgent, RevokeAgents, ForgetPart, FinishSignIn, NextPart
  <2> QED BY <2>1, EndsTries, MovesTries
<1>2. CASE WriteSessions(r)
  <2>1. PICK index : requests' = [requests EXCEPT ![r].at = "publish", ![r].index = index]
    BY <1>2 DEF WriteSessions
  <2> DEFINE q == [requests[r] EXCEPT !.at = "publish", !.index = index]
  <2>2. requests' = [requests EXCEPT ![r] = q]
    BY <2>1 DEF AccountInv, Shaped
  <2>3. Fielded(requests[r])
    BY DEF AccountInv, Shaped, RequestShaped
  <2>4. q.at = "publish"
    BY <2>3 DEF Fielded
  <2> HIDE DEF q
  <2>5. StillTrying(requests[r], q)
    BY <2>4 DEF StillTrying, Trying
  <2> QED BY <2>2, <2>5, OneTries
<1>3. CASE CheckAgent(r)
  <2>1. CASE Ends(r)
    BY <2>1, EndsTries
  <2>2. ASSUME NEW pw, requests' = [requests EXCEPT ![r].at = "agents", ![r].pw = pw]
        PROVE  AllTrying
    <3> DEFINE q == [requests[r] EXCEPT !.at = "agents", !.pw = pw]
    <3>1. requests' = [requests EXCEPT ![r] = q]
      BY <2>2 DEF AccountInv, Shaped
    <3>2. Fielded(requests[r])
      BY DEF AccountInv, Shaped, RequestShaped
    <3>3. q.at = "agents"
      BY <3>2 DEF Fielded
    <3> HIDE DEF q
    <3>4. StillTrying(requests[r], q)
      BY <3>3 DEF StillTrying, Trying
    <3> QED BY <3>1, <3>4, OneTries
  <2> QED BY <1>3, <2>1, <2>2 DEF CheckAgent
<1>4. CASE \/ StorePlace(r) \/ AddActivity(r) \/ FoldIn(r) \/ WriteRows(r) \/ WriteCompletion(r)
           \/ LosesStatistic(r)
  <2>1. Ends(r) \/ \E work : \E at \in {"activity", "fold", "rows", "complete", "done"} :
                      Proceeds(r, work, at)
    <3>1. \A work : AfterFolding(work) \in {"complete", "done"}
      BY DEF AfterFolding
    <3>2. \A work : AfterStoring(work) \in {"activity", "complete", "done"}
      BY <3>1 DEF AfterStoring
    <3>3. ASSUME StorePlace(r) PROVE Ends(r) \/ \E work : Proceeds(r, work, AfterStoring(work))
      BY <3>3 DEF StorePlace
    <3>4. ASSUME AddActivity(r) PROVE \E work : Proceeds(r, work, "fold")
      BY <3>4 DEF AddActivity
    <3>5. ASSUME FoldIn(r)
          PROVE  \E work, after : Proceeds(r, work, "rows") \/ Proceeds(r, work, AfterFolding(after))
      BY <3>5 DEF FoldIn
    <3>6. ASSUME WriteRows(r) PROVE \E work, after : Proceeds(r, work, AfterFolding(after))
      BY <3>6 DEF WriteRows
    <3>7. ASSUME WriteCompletion(r) PROVE Ends(r)
      BY <3>7 DEF WriteCompletion
    <3>8. ASSUME LosesStatistic(r)
          PROVE  \E work, after : \/ Proceeds(r, work, "fold") \/ Proceeds(r, work, AfterFolding(after))
                                  \/ Proceeds(r, work, "done")
      BY <3>8 DEF LosesStatistic
    <3> HIDE DEF AfterFolding, AfterStoring, Proceeds, Ends
    <3> QED BY <1>4, <3>1, <3>2, <3>3, <3>4, <3>5, <3>6, <3>7, <3>8
  <2> QED BY <2>1, EndsTries, ProceedsTries
<1>5. CASE RecordsOnlyOnDisk(r) \/ GivesUpListening(r) \/ WritesOnlyDisk(r)
  <2>1. Ends(r)
    BY <1>5 DEF RecordsOnlyOnDisk, GivesUpListening, GivesUp, WritesOnlyDisk
  <2> QED BY <2>1, EndsTries
<1> QED BY <1>1, <1>2, <1>3, <1>4, <1>5

\* The password is looked at: a wrong one ends the sign-in, a right one goes on
\* with its charge.
LEMMA CheckTries ==
  ASSUME AccountInv, NEW r \in Requests, CheckPassword(r)
  PROVE  AllTrying
<1>1. CASE Ends(r)
  BY <1>1, EndsTries
<1>2. ASSUME NEW u, requests' = [requests EXCEPT ![r].at = "verified", ![r].user = u]
      PROVE  AllTrying
  <2> DEFINE q == [requests[r] EXCEPT !.at = "verified", !.user = u]
  <2>1. requests' = [requests EXCEPT ![r] = q]
    BY <1>2 DEF AccountInv, Shaped
  <2>2. Fielded(requests[r]) /\ requests[r].at = "admitted"
    BY DEF CheckPassword, AccountInv, Shaped, RequestShaped
  <2>3. /\ q.session = requests[r].session /\ q.address = requests[r].address
        /\ q.name = requests[r].name /\ q.runs = requests[r].runs
    BY <2>2 DEF Fielded
  <2> HIDE DEF q
  <2>4. StillTrying(requests[r], q)
    BY <2>2, <2>3 DEF StillTrying, Trying
  <2> QED BY <2>1, <2>4, OneTries
<1> QED BY <1>1, <1>2 DEF CheckPassword

\* Steps that are about the table, the guesses or everything.
Attempting ==
  \/ \E name, address : SignInRefused(name, address)
  \/ \E r \in Requests : \E name, address, pw : SignIn(r, name, address, pw)
  \/ \E r \in Requests : ClearCharge(r)
  \/ RestartAccounts /\ UNCHANGED clock

\* All others pass the table by.
LEMMA AccountsPass ==
  ASSUME AccountInv, AccountsStep
  PROVE  Passes \/ Attempting
<1>1. ASSUME NEW name, NEW address, SignInRefused(name, address)
      PROVE  Attempting
  BY <1>1 DEF Attempting
<1>2. ASSUME NEW r \in Requests, NEW name, NEW address, NEW pw, SignIn(r, name, address, pw)
      PROVE  Attempting
  BY <1>2 DEF Attempting
<1>3. ASSUME NEW r \in Requests, ClearCharge(r)
      PROVE  Attempting
  BY <1>3 DEF Attempting
<1>4. ASSUME NEW r \in Requests, CheckPassword(r)
      PROVE  Passes
  <2>1. UNCHANGED <<attempts, guesses, clock, serial>>
    BY <1>4 DEF CheckPassword, accountVars
  <2> QED BY <1>4, <2>1, CheckTries DEF Passes
<1>5. ASSUME NEW r \in Requests, NEW s, NEW u, NEW role,
             \/ AskNewPassword(r, s, u) \/ AskDeletion(r, s, u) \/ AskRole(r, s, u, role)
             \/ AskAccount(r, s, u, role) \/ AskAgent(r, s) \/ AskSignOut(r, s) \/ UseExpired(r, s)
      PROVE  Passes
  <2>1. UNCHANGED <<attempts, guesses, clock, serial>>
    BY <1>5 DEF AskNewPassword, AskDeletion, AskRole, AskAccount, AskAgent, AskSignOut, UseExpired,
                accountVars
  <2>2. AllTrying
    BY <1>5, AskingTries
  <2> QED BY <2>1, <2>2 DEF Passes
<1>6. ASSUME NEW r \in Requests,
             \/ FinishSignIn(r) \/ CheckAgent(r) \/ WriteUsers(r) \/ WriteSessions(r)
             \/ PublishLinks(r) \/ WriteNewAgent(r) \/ RevokeAgents(r)
      PROVE  Passes
  <2>1. /\ UNCHANGED <<attempts, guesses, clock>>
        /\ serial' = serial \/ serial' = serial + 1
    BY <1>6 DEF FinishSignIn, CheckAgent, WriteUsers, WriteSessions, PublishLinks, WriteNewAgent,
                RevokeAgents
  <2>2. AllTrying
    BY <1>6, WritingTries
  <2> QED BY <2>1, <2>2 DEF Passes
<1>7. ASSUME NEW s \in sessions.mem, NEW t \in agents.mem, RevokeAgent(s, t)
      PROVE  Passes
  BY <1>7 DEF RevokeAgent, Passes, AllTrying, StillTrying
<1> QED BY <1>1, <1>2, <1>3, <1>4, <1>5, <1>6, <1>7 DEF AccountsStep

\* Every step.
LEMMA NextPasses ==
  ASSUME AccountInv, ListenersNext
  PROVE  Passes \/ Attempting
<1>1. CASE AccountsStep
  BY <1>1, AccountsPass
<1>2. ASSUME NEW r \in Requests, NEW s, NEW spot, NEW seek, AskCheckpoint(r, s, spot, seek)
      PROVE  Passes
  <2>1. UNCHANGED <<attempts, guesses, clock, serial>>
    BY <1>2 DEF AskCheckpoint, accountVars
  <2>2. AllTrying
    BY <1>2, AskingTries
  <2> QED BY <2>1, <2>2 DEF Passes
<1>3. ASSUME NEW r \in Requests,
             \/ StorePlace(r) \/ AddActivity(r) \/ FoldIn(r) \/ WriteRows(r) \/ WriteCompletion(r)
             \/ LosesStatistic(r) \/ RecordsOnlyOnDisk(r) \/ ForgetPart(r)
      PROVE  Passes
  <2>1. /\ UNCHANGED <<attempts, guesses, clock>>
        /\ serial' = serial \/ serial' = serial + 1
    BY <1>3 DEF StorePlace, AddActivity, FoldIn, WriteRows, WriteCompletion, LosesStatistic,
                RecordsOnlyOnDisk, ForgetPart, accountVars
  <2>2. AllTrying
    BY <1>3, WritingTries
  <2> QED BY <2>1, <2>2 DEF Passes
<1>4. ASSUME NEW r \in Requests, GivesUpListening(r) \/ WritesOnlyDisk(r)
      PROVE  Passes
  <2>1. /\ UNCHANGED <<attempts, guesses, clock>>
        /\ serial' = serial \/ serial' = serial + 1
    BY <1>4 DEF GivesUpListening, GivesUp, WritesOnlyDisk
  <2>2. AllTrying
    BY <1>4, WritingTries
  <2> QED BY <2>1, <2>2 DEF Passes
<1>5. CASE TakeQuiet \/ WriteQuiet
  <2>1. UNCHANGED <<attempts, guesses, clock, serial, requests>>
    BY <1>5 DEF TakeQuiet, WriteQuiet, vars, accountVars
  <2> QED BY <2>1 DEF Passes, AllTrying, StillTrying
<1>6. CASE Stop \/ PowerGoes
  BY <1>6 DEF Stop, PowerGoes, Crash, Attempting
<1>7. CASE Minute
  <2>1. UNCHANGED <<attempts, guesses, serial, requests>> /\ clock' = clock + 1
    BY <1>7 DEF Minute, Tick, accountVars
  <2> QED BY <2>1 DEF Passes, AllTrying, StillTrying
<1> QED BY <1>1, <1>2, <1>3, <1>4, <1>5, <1>6, <1>7 DEF ListenersNext

--------------------------------------------------------------------------------
(* The invariant, step by step.                                                *)

\* A step that passes the table by.
LEMMA PassingSteps ==
  ASSUME AccountInv, GuessInv, Passes
  PROVE  GuessInv'
<1>0. /\ UNCHANGED <<attempts, guesses>>
      /\ clock \in Int /\ clock' \in Int /\ clock' >= clock
      /\ serial \in Nat /\ serial' \in Nat /\ serial' >= serial
  BY DEF Passes, GuessInv, TableInv, AccountInv, Shaped
<1>1. TableInv'
  <2>1. \A key \in DOMAIN attempts : EntryShaped(attempts[key])'
    BY <1>0 DEF GuessInv, TableInv, EntryShaped
  <2>2. \A g \in guesses : GuessShaped(g)'
    BY <1>0 DEF GuessInv, TableInv, GuessShaped
  <2> QED BY <1>0, <2>1, <2>2 DEF GuessInv, TableInv
<1>2. TryingInv'
  <2>1. \A r \in Requests : Trying(requests'[r]) =>
          /\ Trying(requests[r]) /\ requests'[r].session = requests[r].session
          /\ requests'[r].address = requests[r].address /\ requests'[r].name = requests[r].name
          /\ requests'[r].runs = requests[r].runs
    BY DEF Passes, AllTrying, StillTrying
  <2>2. \A r \in Requests : Trying(requests[r]) => IsCharged(requests[r])
    BY DEF GuessInv, TryingInv
  <2>3. \A r \in Requests : Trying(requests'[r]) => IsCharged(requests[r])
    BY <2>1, <2>2
  <2>4. \A r \in Requests : Trying(requests'[r]) => IsCharged(requests[r])'
    BY <1>0, <2>1, <2>3 DEF IsCharged
  <2> QED BY <2>1, <2>4 DEF GuessInv, TryingInv
<1>3. ASSUME NEW network, Covers(attempts, guesses, network)
      PROVE  Covers(attempts, guesses, network)'
  <2>1. \A g \in Guessed(guesses, network) : g.at \in Int
    BY DEF Guessed, GuessInv, TableInv, GuessShaped
  <2>2. \A g \in Guessed(guesses, network) : clock' - g.at < Lockout => clock - g.at < Lockout
    <3>1. Lockout \in Int
      BY ThrottleAssumption DEF ThrottleAssumption
    <3> QED BY <1>0, <2>1, <3>1
  <2> QED BY <1>0, <1>3, <2>2 DEF Covers
<1> QED BY <1>1, <1>2, <1>3 DEF GuessInv

\* The table once it is swept and room is made.
LEMMA RoomSteps ==
  ASSUME AccountInv, GuessInv, NEW keys, NEW kept,
         \/ kept = Swept(attempts, clock)
         \/ \E gone \in Evictions(Swept(attempts, clock), keys, clock) :
              kept = Restrict(Swept(attempts, clock), DOMAIN Swept(attempts, clock) \ gone)
  PROVE  /\ DOMAIN kept \subseteq DOMAIN attempts
         /\ kept = [key \in DOMAIN kept |-> kept[key]]
         /\ \A key \in DOMAIN kept : EntryShaped(kept[key])
         /\ \A network : Covers(attempts, guesses, network) => Covers(kept, guesses, network)
         /\ \A address, name : Refuses(attempts, address, name, clock) =>
              Refuses(kept, address, name, clock)
         /\ Thins(Swept(attempts, clock), kept)
<1> DEFINE table == Swept(attempts, clock)
<1>1. Thins(attempts, table)
  BY SweptThins
<1>2. Thins(table, kept)
  <2>1. Thins(table, table)
    BY DEF Thins, Swept, Restrict
  <2> QED BY <2>1, RoomThins
<1>3. TableInv /\ \A key \in DOMAIN attempts : EntryShaped(attempts[key])
  BY DEF GuessInv, TableInv
<1> HIDE DEF table
<1>4. \A key \in DOMAIN table : EntryShaped(table[key])
  BY <1>1, <1>3, ThinnedShape
<1>5. \A key \in DOMAIN kept : EntryShaped(kept[key])
  BY <1>2, <1>4, ThinnedShape
<1>6. ASSUME NEW network, Covers(attempts, guesses, network)
      PROVE  Covers(kept, guesses, network)
  <2>1. Covers(table, guesses, network)
    BY <1>1, <1>3, <1>6, ThinnedCovers, ThrottleAssumption
  <2> QED BY <1>2, <1>3, <1>4, <2>1, ThinnedCovers, ThrottleAssumption
<1>7. ASSUME NEW address, NEW name, Refuses(attempts, address, name, clock)
      PROVE  Refuses(kept, address, name, clock)
  <2>1. Refuses(table, address, name, clock)
    BY <1>1, <1>7, ThinnedRefuses
  <2> QED BY <1>2, <2>1, ThinnedRefuses
<1>8. DOMAIN kept \subseteq DOMAIN attempts /\ kept = [key \in DOMAIN kept |-> kept[key]]
  BY <1>1, <1>2 DEF Thins
<1> QED BY <1>2, <1>5, <1>6, <1>7, <1>8 DEF table

\* A refused sign-in.
LEMMA RefusedSteps ==
  ASSUME AccountInv, GuessInv, NEW name, NEW address, SignInRefused(name, address)
  PROVE  /\ GuessInv'
         /\ \A a, n : Refuses(attempts, a, n, clock) => Refuses(attempts', a, n, clock)
<1>0. UNCHANGED <<clock, guesses, serial, requests>>
  BY DEF SignInRefused
<1>1. /\ DOMAIN attempts' \subseteq DOMAIN attempts
      /\ attempts' = [key \in DOMAIN attempts' |-> attempts'[key]]
      /\ \A key \in DOMAIN attempts' : EntryShaped(attempts'[key])
      /\ \A network : Covers(attempts, guesses, network) => Covers(attempts', guesses, network)
      /\ \A a, n : Refuses(attempts, a, n, clock) => Refuses(attempts', a, n, clock)
  <2>1. \/ attempts' = Swept(attempts, clock)
        \/ \E gone \in Evictions(Swept(attempts, clock), KeysOf(address, name), clock) :
             attempts' = Restrict(Swept(attempts, clock), DOMAIN Swept(attempts, clock) \ gone)
    BY DEF SignInRefused
  <2> QED BY <2>1, RoomSteps
<1>2. TableInv'
  <2>1. \A key \in DOMAIN attempts' : EntryShaped(attempts[key])'
    BY <1>0, <1>1 DEF EntryShaped
  <2>2. \A g \in guesses' : GuessShaped(g)'
    BY <1>0 DEF GuessInv, TableInv, GuessShaped
  <2> QED BY <1>0, <1>1, <2>1, <2>2 DEF GuessInv, TableInv
<1>3. TryingInv'
  BY <1>0 DEF GuessInv, TryingInv, IsCharged
<1>4. ASSUME NEW network, Covers(attempts, guesses, network)
      PROVE  Covers(attempts, guesses, network)'
  <2>1. Covers(attempts', guesses, network)
    BY <1>1, <1>4
  <2> QED BY <1>0, <2>1 DEF Covers
<1> QED BY <1>1, <1>2, <1>3, <1>4 DEF GuessInv

\* An admitted one.
LEMMA AdmittedSteps ==
  ASSUME AccountInv, GuessInv, NEW r \in Requests, NEW name, NEW address, NEW pw,
         SignIn(r, name, address, pw)
  PROVE  /\ GuessInv'
         /\ \A a, n : Refuses(attempts, a, n, clock) => Refuses(attempts', a, n, clock)
<1> DEFINE keys == KeysOf(address, name)
           table == Swept(attempts, clock)
           g == [n |-> serial, network |-> NetworkOf[address], at |-> clock, back |-> FALSE]
<1>1. PICK kept :
        /\ \E gone \in Evictions(table, keys, clock) : kept = Restrict(table, DOMAIN table \ gone)
        /\ attempts' = Charge(kept, keys, clock, serial)
        /\ requests' = [requests EXCEPT ![r] =
              [Idle EXCEPT !.op = "signIn", !.at = "admitted", !.pw = pw,
                           !.session = serial, !.name = name, !.address = address,
                           !.runs = ChargedRuns(attempts', address, name)]]
  BY DEF SignIn, Begins
<1>2. /\ guesses' = guesses \cup {g} /\ serial' = serial + 1 /\ clock' = clock
      /\ ~Refuses(table, address, name, clock)
  BY DEF SignIn
<1>3. /\ \A key \in DOMAIN kept : EntryShaped(kept[key])
      /\ \A network : Covers(attempts, guesses, network) => Covers(kept, guesses, network)
      /\ \A a, n : Refuses(attempts, a, n, clock) => Refuses(kept, a, n, clock)
      /\ Thins(table, kept)
  BY <1>1, RoomSteps
<1>4. serial \in Nat /\ clock \in Int /\ TableInv
  BY DEF AccountInv, Shaped, GuessInv, TableInv
<1>5. ~Over(kept, AddressKey(address), clock, AddressLimit)
  <2>1. ~Over(table, AddressKey(address), clock, AddressLimit)
    BY <1>2 DEF Refuses
  <2> HIDE DEF table
  <2> QED BY <1>3, <2>1 DEF Over, Thins
<1>6. \A a, n : Refuses(attempts, a, n, clock) => Refuses(attempts', a, n, clock)
  BY <1>1, <1>3, <1>4, ChargedRefuses, ThrottleAssumption
<1>7. /\ g.n = serial /\ g.network = NetworkOf[address] /\ g.at = clock /\ ~g.back
      /\ DOMAIN g = {"n", "network", "at", "back"}
  OBVIOUS
<1>8. \A key \in DOMAIN attempts' :
        /\ DOMAIN attempts'[key] = {"failures", "last", "run"}
        /\ attempts'[key].failures \in Nat /\ attempts'[key].last \in Int
        /\ attempts'[key].run \in Nat /\ attempts'[key].run <= serial
  <2>1. DOMAIN Charge(kept, keys, clock, serial) = DOMAIN kept \cup keys
    BY DEF Charge
  <2> QED BY <1>1, <1>3, <1>4, <2>1, ChargedShape
<1>9. DOMAIN attempts' = DOMAIN kept \cup keys /\ attempts' = [key \in DOMAIN attempts' |-> attempts'[key]]
  BY <1>1 DEF Charge
<1>10. ASSUME NEW network, Covers(attempts, guesses, network)
       PROVE  Covers(attempts, guesses, network)'
  <2>1. Covers(kept, guesses, network)
    BY <1>3, <1>10
  <2>2. Covers(Charge(kept, keys, clock, serial), guesses \cup {g}, network)
    BY <1>3, <1>4, <1>5, <2>1, ChargedCovers, ThrottleAssumption
  <2>3. Covers(attempts', guesses', network)
    BY <1>1, <1>2, <2>2
  <2> HIDE DEF g, keys, table
  <2> QED BY <1>2, <2>3 DEF Covers
<1>11. \A h \in guesses : GuessShaped(h)
  BY <1>4 DEF TableInv
<1> DEFINE q == [Idle EXCEPT !.op = "signIn", !.at = "admitted", !.pw = pw,
                             !.session = serial, !.name = name, !.address = address,
                             !.runs = ChargedRuns(attempts', address, name)]
<1>12. /\ q.session = serial /\ q.name = name /\ q.address = address
       /\ q.runs = ChargedRuns(attempts', address, name)
  BY DEF Idle
<1>13. requests'[r] = q /\ \A x \in Requests : x # r => requests'[x] = requests[x]
  BY <1>1, OneRequest DEF AccountInv
<1> HIDE DEF g, keys, table, q
<1>14. TableInv'
  <2>1. \A key \in DOMAIN attempts' : EntryShaped(attempts[key])'
    BY <1>2, <1>4, <1>8 DEF EntryShaped
  <2>2. \A h \in guesses' : GuessShaped(h)'
    BY <1>2, <1>4, <1>7, <1>11 DEF GuessShaped
  <2>3. IsFiniteSet(guesses')
    BY <1>2, <1>4, FS_AddElement DEF TableInv
  <2>4. \A h, i \in guesses' : h.n = i.n => h = i
    <3>1. \A h \in guesses : h.n # g.n
      BY <1>4, <1>7, <1>11 DEF GuessShaped
    <3>2. \A h, i \in guesses : h.n = i.n => h = i
      BY <1>4 DEF TableInv
    <3> QED BY <1>2, <3>1, <3>2
  <2>5. guesses' # {} /\ clock' \in Int
    BY <1>2, <1>4
  <2> QED BY <1>9, <2>1, <2>2, <2>3, <2>4, <2>5 DEF TableInv
<1>15. TryingInv'
  <2>1. \A x \in Requests : Trying(requests[x]) => IsCharged(requests[x])
    BY DEF GuessInv, TryingInv
  <2>2. \A x \in Requests : Trying(requests[x]) => requests[x].session < serial
    BY <2>1, <1>11 DEF IsCharged, GuessShaped
  <2>3. IsCharged(requests[r])'
    <3>1. AddressKey(address) \in DOMAIN attempts'
      BY <1>9 DEF keys, KeysOf
    <3>2. /\ DOMAIN q.runs = {AddressKey(address), NameKey(name)}
          /\ q.runs[AddressKey(address)] = attempts'[AddressKey(address)].run
      BY <1>12 DEF ChargedRuns
    <3>3. q.runs[AddressKey(address)] <= serial
      BY <1>8, <3>1, <3>2
    <3>4. \E h \in guesses' : h.n = serial /\ h.network = NetworkOf[address] /\ ~h.back
      BY <1>2, <1>7
    <3> QED BY <1>12, <1>13, <3>2, <3>3, <3>4 DEF IsCharged
  <2>4. \A x \in Requests : x # r /\ Trying(requests[x]) => IsCharged(requests[x])'
    BY <1>2, <1>13, <2>1 DEF IsCharged
  <2>5. \A x \in Requests : Trying(requests'[x]) => IsCharged(requests[x])'
    BY <1>13, <2>3, <2>4
  <2>6. \A x, y \in Requests :
          Trying(requests[x]) /\ Trying(requests[y]) /\ requests[x].session = requests[y].session => x = y
    BY DEF GuessInv, TryingInv
  <2>7. \A x \in Requests : Trying(requests[x]) => requests[x].session # serial
    <3>1. \A x \in Requests : Trying(requests[x]) => requests[x].session \in Int
      BY <2>1, <1>11 DEF IsCharged, GuessShaped
    <3> QED BY <1>4, <2>2, <3>1
  <2>8. \A x, y \in Requests :
          Trying(requests'[x]) /\ Trying(requests'[y]) /\ requests'[x].session = requests'[y].session => x = y
    BY <1>12, <1>13, <2>6, <2>7
  <2> QED BY <2>5, <2>8 DEF TryingInv
<1> QED BY <1>6, <1>10, <1>14, <1>15 DEF GuessInv

\* A right password.
LEMMA ClearedSteps ==
  ASSUME AccountInv, GuessInv, NEW r \in Requests, ClearCharge(r)
  PROVE  GuessInv' /\ ~(guesses \subseteq guesses')
<1> DEFINE q == requests[r]
<1>1. /\ attempts' = Cleared(attempts, q.address, q.name, q.runs) /\ guesses' = Marked(q)
      /\ UNCHANGED <<clock, serial>> /\ Moves(r, "issuing") /\ Trying(q)
  BY DEF ClearCharge, Marked, Trying
<1>2. IsCharged(q) /\ TableInv
  BY <1>1 DEF GuessInv, TryingInv
<1>3. PICK own \in guesses :
        /\ own.n = q.session /\ own.network = NetworkOf[q.address] /\ ~own.back
        /\ Marked(q) = (guesses \ {own}) \cup {[own EXCEPT !.back = TRUE]}
        /\ IsFiniteSet(Marked(q))
        /\ \A network : Guessed(Marked(q), network) = Guessed(guesses, network) \ {own}
  BY <1>2, MarkedGuesses
<1>4. PICK marked : marked = [own EXCEPT !.back = TRUE]
  OBVIOUS
<1>5. GuessShaped(own)
  BY <1>2 DEF TableInv
<1>6. /\ DOMAIN marked = {"n", "network", "at", "back"}
      /\ marked.n = own.n /\ marked.at = own.at
  BY <1>4, <1>5 DEF GuessShaped
<1>7. guesses' = (guesses \ {own}) \cup {marked}
  BY <1>1, <1>3, <1>4
<1>8. requests'[r].at = "issuing" /\ \A x \in Requests : x # r => requests'[x] = requests[x]
  <2> DEFINE m == [requests[r] EXCEPT !.at = "issuing"]
  <2>1. requests' = [requests EXCEPT ![r] = m]
    BY <1>1 DEF Moves
  <2>2. m.at = "issuing"
    BY MovedRequest DEF AccountInv, Shaped
  <2> HIDE DEF m
  <2> QED BY <2>1, <2>2, OneRequest DEF AccountInv
<1>9. ~(guesses \subseteq guesses')
  <2>1. own \in Guessed(guesses, own.network)
    BY <1>3 DEF Guessed
  <2>2. own \notin Guessed(guesses', own.network)
    BY <1>1, <1>3
  <2>3. own \notin guesses'
    BY <1>3, <2>2 DEF Guessed
  <2> QED BY <2>3
<1>10. TableInv'
  <2>1. \A key \in DOMAIN attempts' : EntryShaped(attempts'[key])
    BY <1>1, <1>2, ClearedShape DEF TableInv
  <2>2. \A key \in DOMAIN attempts' : EntryShaped(attempts[key])'
    BY <1>1, <2>1 DEF EntryShaped
  <2>3. \A h \in guesses : GuessShaped(h)
    BY <1>2 DEF TableInv
  <2>4. \A h \in guesses' : GuessShaped(h)'
    BY <1>1, <1>5, <1>6, <1>7, <2>3 DEF GuessShaped
  <2>5. \A h, i \in guesses' : h.n = i.n => h = i
    <3>1. \A h, i \in guesses : h.n = i.n => h = i
      BY <1>2 DEF TableInv
    <3> QED BY <1>6, <1>7, <3>1
  <2>6. attempts' = [key \in DOMAIN attempts' |-> attempts'[key]]
    BY <1>1 DEF Cleared, Refund
  <2>7. IsFiniteSet(guesses') /\ guesses' # {} /\ clock' \in Int
    BY <1>1, <1>2, <1>3, <1>7 DEF TableInv
  <2> QED BY <2>2, <2>4, <2>5, <2>6, <2>7 DEF TableInv
<1>11. TryingInv'
  <2>1. \A x, y \in Requests :
          Trying(requests[x]) /\ Trying(requests[y]) /\ requests[x].session = requests[y].session => x = y
    BY DEF GuessInv, TryingInv
  <2>2. \A x \in Requests : Trying(requests'[x]) =>
          x # r /\ Trying(requests[x]) /\ requests'[x] = requests[x]
    BY <1>8 DEF Trying
  <2>3. ASSUME NEW x \in Requests, Trying(requests'[x])
        PROVE  IsCharged(requests[x])'
    <3>1. x # r /\ Trying(requests[x]) /\ requests'[x] = requests[x]
      BY <2>2, <2>3
    <3>2. requests[x].session # own.n
      BY <1>1, <1>3, <2>1, <3>1
    <3>3. IsCharged(requests[x])
      BY <3>1 DEF GuessInv, TryingInv
    <3>4. PICK h \in guesses :
            /\ h.n = requests[x].session /\ h.network = NetworkOf[requests[x].address] /\ ~h.back
      BY <3>3 DEF IsCharged
    <3>5. h \in guesses'
      BY <1>7, <3>2, <3>4
    <3> QED BY <3>1, <3>3, <3>4, <3>5 DEF IsCharged
  <2> QED BY <2>1, <2>2, <2>3 DEF TryingInv
<1>12. ASSUME NEW network, Covers(attempts, guesses, network)
       PROVE  Covers(attempts, guesses, network)'
  <2>1. Covers(attempts', guesses', network)
    BY <1>1, <1>2, <1>12, ClearedCovers, ThrottleAssumption
  <2> QED BY <1>1, <2>1 DEF Covers
<1> QED BY <1>9, <1>10, <1>11, <1>12 DEF GuessInv

\* The server starts with nothing held against anybody.
LEMMA NothingHeld ==
  ASSUME NEW network
  PROVE  Covers(NoAttempts, {}, network)
<1>1. Guessed({}, network) = {}
  BY DEF Guessed
<1>2. AddressEntry(network) \notin DOMAIN NoAttempts
  BY DEF NoAttempts
<1> QED BY <1>1, <1>2 DEF Covers

\* A restart: the guesses of before are forgotten too.
LEMMA RestartedGuesses ==
  ASSUME AccountInv, GuessInv, RestartAccounts, UNCHANGED clock
  PROVE  /\ GuessInv'
         /\ guesses \subseteq guesses' => \A a, n : ~Refuses(attempts, a, n, clock)
<1>1. /\ attempts' = NoAttempts /\ guesses' = {} /\ clock' = clock /\ clock \in Int
      /\ \A r \in Requests : requests'[r] = Idle
  BY DEF RestartAccounts, GuessInv, TableInv
<1>2. DOMAIN NoAttempts = {} /\ NoAttempts = [key \in DOMAIN NoAttempts |-> NoAttempts[key]]
  BY DEF NoAttempts
<1>3. TableInv'
  BY <1>1, <1>2, FS_EmptySet DEF TableInv
<1>4. TryingInv'
  BY <1>1, IdleRequest DEF TryingInv, Trying
<1>5. ASSUME NEW network PROVE Covers(attempts, guesses, network)'
  <2>1. Covers(attempts', guesses', network)
    BY <1>1, NothingHeld
  <2> QED BY <1>1, <2>1 DEF Covers
<1>6. ASSUME guesses \subseteq guesses' PROVE \A a, n : ~Refuses(attempts, a, n, clock)
  <2>1. guesses = {}
    BY <1>1, <1>6
  <2>2. DOMAIN attempts = {}
    BY <2>1 DEF GuessInv, TableInv
  <2> QED BY <2>2 DEF Refuses, Over, Recent
<1> QED BY <1>3, <1>4, <1>5, <1>6 DEF GuessInv

\* Every step keeps the invariant and, unless time passes or a guess is given
\* back, lifts no lock.
LEMMA GuessSteps ==
  ASSUME AccountInv, GuessInv, ListenersNext
  PROVE  /\ GuessInv'
         /\ clock' = clock /\ guesses \subseteq guesses' =>
              \A a, n : Refuses(attempts, a, n, clock) => Refuses(attempts', a, n, clock)
<1>1. CASE Passes
  <2>1. attempts' = attempts
    BY <1>1 DEF Passes
  <2> QED BY <1>1, <2>1, PassingSteps
<1>2. CASE Attempting
  BY <1>2, RefusedSteps, AdmittedSteps, ClearedSteps, RestartedGuesses DEF Attempting
<1> QED BY <1>1, <1>2, NextPasses

\* At the start.
LEMMA FirstGuesses ==
  ASSUME ListenersInit
  PROVE  GuessInv
<1>1. /\ attempts = NoAttempts /\ guesses = {} /\ clock = 0
      /\ \A r \in Requests : requests[r] = Idle
  BY DEF ListenersInit, AccountsInit
<1>2. DOMAIN NoAttempts = {} /\ NoAttempts = [key \in DOMAIN NoAttempts |-> NoAttempts[key]]
  BY DEF NoAttempts
<1>3. TableInv
  BY <1>1, <1>2, FS_EmptySet DEF TableInv
<1>4. TryingInv
  BY <1>1, IdleRequest DEF TryingInv, Trying
<1> QED BY <1>1, <1>3, <1>4, NothingHeld DEF GuessInv

\* Every network's wrong guesses of the last lockout window are within its
\* limit, and there is an entry that says so.
LEMMA GuessesAreCovered == ListenersSpec => []GuessInv
<1>1. ListenersInit => GuessInv
  BY FirstGuesses
<1>2. AccountInv /\ GuessInv /\ [ListenersNext]_allVars => GuessInv'
  <2> SUFFICES ASSUME AccountInv, GuessInv, [ListenersNext]_allVars
               PROVE  GuessInv'
    OBVIOUS
  <2>1. CASE ListenersNext
    BY <2>1, GuessSteps
  <2>2. CASE UNCHANGED allVars
    <3>1. UNCHANGED <<attempts, guesses, clock, serial, requests>>
      BY <2>2 DEF allVars, vars, accountVars
    <3>2. Passes
      BY <3>1 DEF Passes, AllTrying, StillTrying
    <3> QED BY <3>2, PassingSteps
  <2> QED BY <2>1, <2>2
<1> QED BY <1>1, <1>2, AccountsAreSound, PTL DEF ListenersSpec

\* However sign-ins of any number of people interleave, fail, succeed late and
\* are evicted, one network never has more wrong guesses in a lockout window
\* than its limit.
THEOREM GuessesStayBounded == ListenersSpec => []GuessesAreBounded
<1>1. GuessInv => GuessesAreBounded
  <2> SUFFICES ASSUME GuessInv, NEW network \in {NetworkOf[a] : a \in Addresses}
               PROVE  Cardinality({g \in guesses : /\ g.network = network
                                                   /\ clock - g.at < Lockout /\ ~g.back})
                        <= AddressLimit
    BY DEF GuessesAreBounded
  <2> DEFINE key == AddressEntry(network)
             counted == {g \in guesses : /\ g.network = network
                                         /\ clock - g.at < Lockout /\ ~g.back}
  <2>1. /\ \A g \in Guessed(guesses, network) : clock - g.at < Lockout =>
             key \in DOMAIN attempts /\ g.n >= attempts[key].run
        /\ key \in DOMAIN attempts =>
             /\ attempts[key].failures <= AddressLimit
             /\ Cardinality(InRun(guesses, attempts[key], network)) <= attempts[key].failures
    BY DEF GuessInv, Covers
  <2>2. IsFiniteSet(guesses) /\ AddressLimit \in Nat
    BY ThrottleAssumption DEF GuessInv, TableInv, ThrottleAssumption
  <2>3. CASE counted = {}
    BY <2>2, <2>3, FS_EmptySet
  <2>4. CASE counted # {}
    <3>1. key \in DOMAIN attempts
      BY <2>1, <2>4 DEF Guessed
    <3>2. counted \subseteq InRun(guesses, attempts[key], network)
      BY <2>1 DEF Guessed, InRun
    <3>3. IsFiniteSet(InRun(guesses, attempts[key], network))
      <4>1. InRun(guesses, attempts[key], network) \subseteq guesses
        BY DEF InRun, Guessed
      <4> QED BY <2>2, <4>1, FS_Subset
    <3> HIDE DEF counted, key
    <3>4. IsFiniteSet(counted) /\ Cardinality(counted) <= Cardinality(InRun(guesses, attempts[key], network))
      BY <3>2, <3>3, FS_Subset
    <3>5. /\ Cardinality(counted) \in Nat
          /\ Cardinality(InRun(guesses, attempts[key], network)) \in Nat
      BY <3>3, <3>4, FS_CardinalityType
    <3>6. attempts[key].failures \in Nat
      BY <3>1 DEF GuessInv, TableInv, EntryShaped
    <3>7. Cardinality(counted) <= AddressLimit
      BY <2>1, <2>2, <3>1, <3>4, <3>5, <3>6
    <3> QED BY <3>7 DEF counted
  <2> QED BY <2>3, <2>4
<1> QED BY <1>1, GuessesAreCovered, PTL

\* No step but the passing of time and a success lifts a lock: what making room
\* in a full table takes away never lets a refused sign-in through.
THEOREM LocksStayKept == ListenersSpec => LocksAreKept
<1> DEFINE A == clock' = clock /\ guesses \subseteq guesses' =>
                  \A address \in Addresses, name \in Names :
                    Refuses(attempts, address, name, clock) => Refuses(attempts', address, name, clock)
<1>1. AccountInv /\ GuessInv /\ [ListenersNext]_allVars => [A]_vars
  <2> SUFFICES ASSUME AccountInv, GuessInv, [ListenersNext]_allVars
               PROVE  [A]_vars
    OBVIOUS
  <2>1. CASE ListenersNext
    BY <2>1, GuessSteps
  <2>2. CASE UNCHANGED allVars
    BY <2>2 DEF allVars
  <2> QED BY <2>1, <2>2
<1> HIDE DEF A
<1>2. ListenersSpec => [][A]_vars
  BY <1>1, AccountsAreSound, GuessesAreCovered, PTL DEF ListenersSpec
<1> QED BY <1>2 DEF A, LocksAreKept

--------------------------------------------------------------------------------
(* What is recorded of a listener, wherever it is on its way.                  *)

\* A checkpoint under way is at most one tick behind.
WorkShaped(work) ==
  /\ work.at \in Int /\ clock - 1 <= work.at /\ work.at <= clock
  /\ work.heard \in Nat /\ work.finished \in BOOLEAN
CheckpointShaped(q) ==
  /\ q.by \in Users /\ q.work.spot \in 0 .. BookEnd
  /\ q.at # "store" => WorkShaped(q.work)
  /\ q.at = "complete" => q.work.finished

PlaceShaped(place) == place # None => place.spot \in 0 .. BookEnd /\ place.at \in Int

TimesInv ==
  /\ clock \in Int
  /\ \A r \in Requests : requests[r].op = "checkpoint" => CheckpointShaped(requests[r])
  /\ DOMAIN places = Users /\ \A u \in Users : PlaceShaped(places[u])

FoldShaped(f) ==
  /\ f = [id |-> f.id, user |-> f.user, heard |-> f.heard]
  /\ f.user \in Users /\ f.id \in Int /\ f.id < serial /\ f.heard \in Nat

SittingTimed(x) ==
  /\ x.ended \in Int /\ x.flushed \in Int /\ x.interval \in Int /\ x.interval >= FlushFirst
  /\ x.dirty \in BOOLEAN

\* The open sitting, and the row of the history, of a sitting there was.
Opens(x, u, f) == f.id = x.id /\ f.user = u /\ f.heard = x.heard
Writes(row, f) == f.id = row.id /\ f.user = row.user /\ f.heard >= MinSession
OnePerSitting(rows) == \A x, y \in rows : x.id = y.id => x = y

RowsOf(r) == IF requests[r].at = "rows" THEN requests[r].work.rows ELSE {}
OnRecord(row) ==
  \/ row \in sweep \/ row \in history.mem.rows \/ row \in history.disk.rows
  \/ \E r \in Requests : row \in RowsOf(r)

LogInv ==
  /\ \A f \in folded : FoldShaped(f)
  /\ \A f, g \in folded : f.id = g.id => f = g
  /\ \A u \in DOMAIN open : SittingTimed(open[u]) /\ \E f \in folded : Opens(open[u], u, f)
  /\ \A row : OnRecord(row) => \E f \in folded : Writes(row, f)
  /\ OnePerSitting(sweep) /\ \A r \in Requests : OnePerSitting(RowsOf(r))

\* A sitting with a row of it still to be written was added to and flushed too
\* lately to be flushed again, or closed, before that is done.
JustFlushed(x) == x.ended >= clock - 1 /\ x.flushed >= clock - 1 /\ x.interval >= 2
PendInv ==
  \A u \in DOMAIN open :
    /\ \A row \in sweep : row.id # open[u].id
    /\ \A r \in Requests : \A row \in RowsOf(r) : row.id = open[u].id => JustFlushed(open[u])

\* All that was folded into a sitting is on its way to the history, or in it once.
Stored(f) ==
  /\ \A row \in sweep : row.id = f.id => row.heard = f.heard
  /\ \A r \in Requests : \A row \in RowsOf(r) : row.id = f.id => row.heard = f.heard
  /\ \/ \E row \in sweep : row.id = f.id
     \/ \E r \in Requests : \E row \in RowsOf(r) : row.id = f.id
     \/ \E row \in history.mem.rows : /\ row.id = f.id /\ row.heard = f.heard
                                      /\ \A x \in history.mem.rows : x.id = f.id => x = row

Counted(u) == u \in Users /\ u \notin cut /\ ~AccountLeft(u)
Settled(f) == f.heard >= MinSession /\ \A u \in DOMAIN open : open[u].id = f.id => ~open[u].dirty
StoredInv == \A f \in folded : Counted(f.user) /\ Settled(f) => Stored(f)

\* What memory and disk hold of a listener is the same until a fault touches it.
SameOnDisk(u) ==
  /\ \A row : row.user = u => (row \in history.disk.rows <=> row \in history.mem.rows)
  /\ history.disk.done[u] = history.mem.done[u]
SameInv == \A u \in Users \ cut : SameOnDisk(u)

DoneInv ==
  /\ DOMAIN finishes = Users
  /\ \A u \in Users : history.mem.done[u] \in Nat /\ history.disk.done[u] \in Nat
                      /\ IsFiniteSet(Finishing(u))
  /\ \A u \in Users : Counted(u) =>
        history.mem.done[u] + Cardinality(Finishing(u)) = finishes[u]

KeptInv == TimesInv /\ LogInv /\ PendInv /\ StoredInv /\ SameInv

--------------------------------------------------------------------------------
(* How checkpoints change in a step.                                           *)

\* A request that is or becomes a checkpoint stays as it is.
Untouched(p, q) == p.op = "checkpoint" \/ q.op = "checkpoint" => q = p
AllUntouched == \A x \in Requests : Untouched(requests[x], requests'[x])

\* Another request changes.
LEMMA OneUntouched ==
  ASSUME AccountInv, NEW r \in Requests, NEW q, requests' = [requests EXCEPT ![r] = q],
         requests[r].op # "checkpoint", q.op # "checkpoint"
  PROVE  AllUntouched
<1>1. requests'[r] = q /\ \A x \in Requests : x # r => requests'[x] = requests[x]
  BY OneRequest DEF AccountInv
<1> QED BY <1>1 DEF AllUntouched, Untouched

\* Another request ends, or moves.
LEMMA EndsUntouched ==
  ASSUME AccountInv, NEW r \in Requests, requests[r].op # "checkpoint",
         Ends(r) \/ \E at : Moves(r, at)
  PROVE  AllUntouched
<1>1. CASE Ends(r)
  BY <1>1, IdleRequest, OneUntouched DEF Ends
<1>2. ASSUME NEW at, Moves(r, at)
      PROVE  AllUntouched
  <2> DEFINE q == [requests[r] EXCEPT !.at = at]
  <2>1. requests' = [requests EXCEPT ![r] = q]
    BY <1>2 DEF Moves
  <2>2. q.op = requests[r].op
    BY MovedRequest DEF AccountInv, Shaped
  <2> HIDE DEF q
  <2> QED BY <2>1, <2>2, OneUntouched
<1> QED BY <1>1, <1>2

\* Somebody asks for something else.
LEMMA AskedUntouched ==
  ASSUME AccountInv, NEW r \in Requests, NEW s, NEW p, Asks(r, s, p), Fielded(p),
         p.op # "checkpoint"
  PROVE  AllUntouched
<1>1. PICK boss : requests' = [requests EXCEPT ![r] =
                                  [p EXCEPT !.by = s.user, !.session = s.n, !.boss = boss]]
  BY DEF Asks, Begins
<1> DEFINE q == [p EXCEPT !.by = s.user, !.session = s.n, !.boss = boss]
<1>2. q.op = p.op
  BY DEF Fielded
<1>3. requests' = [requests EXCEPT ![r] = q]
  BY <1>1
<1>4. requests[r].op # "checkpoint"
  BY IdleRequest DEF Asks, Begins
<1> HIDE DEF q
<1> QED BY <1>2, <1>3, <1>4, OneUntouched

\* What else is asked for.
LEMMA AskingUntouched ==
  ASSUME AccountInv, NEW r \in Requests, NEW s, NEW u, NEW role,
         \/ AskNewPassword(r, s, u) \/ AskDeletion(r, s, u) \/ AskRole(r, s, u, role)
         \/ AskAccount(r, s, u, role) \/ AskAgent(r, s) \/ AskSignOut(r, s) \/ UseExpired(r, s)
  PROVE  AllUntouched
<1>1. CASE AskNewPassword(r, s, u)
  <2> DEFINE p == [Idle EXCEPT !.op = "change", !.at = "users", !.user = u, !.pw = users.mem[u].pw]
  <2>1. Asks(r, s, p)
    BY <1>1 DEF AskNewPassword
  <2>2. Fielded(p) /\ p.op = "change"
    BY DEF Fielded, Idle
  <2> HIDE DEF p
  <2> QED BY <2>1, <2>2, AskedUntouched
<1>2. CASE AskDeletion(r, s, u)
  <2> DEFINE p == [Idle EXCEPT !.op = "delete", !.at = "users", !.user = u]
  <2>1. Asks(r, s, p)
    BY <1>2 DEF AskDeletion
  <2>2. Fielded(p) /\ p.op = "delete"
    BY DEF Fielded, Idle
  <2> HIDE DEF p
  <2> QED BY <2>1, <2>2, AskedUntouched
<1>3. CASE AskRole(r, s, u, role)
  <2> DEFINE p == [Idle EXCEPT !.op = "role", !.at = "users", !.user = u, !.role = role]
  <2>1. Asks(r, s, p)
    BY <1>3 DEF AskRole
  <2>2. Fielded(p) /\ p.op = "role"
    BY DEF Fielded, Idle
  <2> HIDE DEF p
  <2> QED BY <2>1, <2>2, AskedUntouched
<1>4. CASE AskAccount(r, s, u, role)
  <2> DEFINE p == [Idle EXCEPT !.op = "create", !.at = "users", !.user = u, !.role = role]
  <2>1. Asks(r, s, p)
    BY <1>4 DEF AskAccount
  <2>2. Fielded(p) /\ p.op = "create"
    BY DEF Fielded, Idle
  <2> HIDE DEF p
  <2> QED BY <2>1, <2>2, AskedUntouched
<1>5. CASE AskAgent(r, s)
  <2> DEFINE p == [Idle EXCEPT !.op = "agent", !.at = "asked", !.user = s.user]
  <2>1. Asks(r, s, p)
    BY <1>5 DEF AskAgent
  <2>2. Fielded(p) /\ p.op = "agent"
    BY DEF Fielded, Idle
  <2> HIDE DEF p
  <2> QED BY <2>1, <2>2, AskedUntouched
<1>6. CASE AskSignOut(r, s) \/ UseExpired(r, s)
  <2> DEFINE q == [Idle EXCEPT !.op = "signOut", !.at = "sessions", !.session = s.n]
  <2>1. requests' = [requests EXCEPT ![r] = q] /\ requests[r].op # "checkpoint"
    BY <1>6, IdleRequest DEF AskSignOut, UseExpired, Begins
  <2>2. q.op = "signOut"
    BY DEF Idle
  <2> HIDE DEF q
  <2> QED BY <2>1, <2>2, OneUntouched
<1> QED BY <1>1, <1>2, <1>3, <1>4, <1>5, <1>6

\* The steps of a sign-in, the writes, and the rest of a deletion.
LEMMA OthersUntouched ==
  ASSUME AccountInv, NEW r \in Requests,
         \/ \E name, address, pw : SignIn(r, name, address, pw)
         \/ CheckPassword(r) \/ ClearCharge(r) \/ FinishSignIn(r) \/ CheckAgent(r)
         \/ WriteUsers(r) \/ WriteSessions(r) \/ PublishLinks(r) \/ WriteNewAgent(r)
         \/ RevokeAgents(r) \/ WritesOnlyDisk(r) \/ ForgetPart(r)
  PROVE  AllUntouched
<1>1. ASSUME NEW name, NEW address, NEW pw, SignIn(r, name, address, pw)
      PROVE  AllUntouched
  <2>1. PICK runs : Begins(r, [Idle EXCEPT !.op = "signIn", !.at = "admitted", !.pw = pw,
                                           !.session = serial, !.name = name, !.address = address,
                                           !.runs = runs])
    BY <1>1, Zenon DEF SignIn
  <2> DEFINE q == [Idle EXCEPT !.op = "signIn", !.at = "admitted", !.pw = pw, !.session = serial,
                               !.name = name, !.address = address, !.runs = runs]
  <2>2. requests' = [requests EXCEPT ![r] = q] /\ requests[r].op # "checkpoint"
    BY <2>1, IdleRequest DEF Begins
  <2>3. q.op = "signIn"
    BY DEF Idle
  <2> HIDE DEF q
  <2> QED BY <2>2, <2>3, OneUntouched
<1>2. ASSUME \/ CheckPassword(r) \/ ClearCharge(r) \/ FinishSignIn(r) \/ CheckAgent(r)
             \/ WriteUsers(r) \/ WriteSessions(r) \/ PublishLinks(r) \/ WriteNewAgent(r)
             \/ RevokeAgents(r) \/ WritesOnlyDisk(r) \/ ForgetPart(r)
      PROVE  requests[r].op # "checkpoint" /\ Fielded(requests[r])
  <2>1. requests[r].op = "delete" \/ requests[r].op = "agent"
        \/ requests[r].at \in {"admitted", "verified", "issuing", "users", "sessions", "publish",
                               "agents"}
    BY <1>2 DEF CheckPassword, ClearCharge, FinishSignIn, CheckAgent, WriteUsers, WriteSessions,
                PublishLinks, WriteNewAgent, RevokeAgents, WritesOnlyDisk, ForgetPart
  <2>2. RequestShaped(requests[r])
    BY DEF AccountInv, Shaped
  <2>3. Fielded(requests[r])
    BY <2>2 DEF RequestShaped
  <2>4. requests[r].op # "checkpoint"
    BY <2>1, <2>2 DEF RequestShaped, Course
  <2> QED BY <2>3, <2>4
<1>3. CASE \/ ClearCharge(r) \/ FinishSignIn(r) \/ WriteUsers(r) \/ PublishLinks(r)
           \/ WriteNewAgent(r) \/ RevokeAgents(r) \/ WritesOnlyDisk(r) \/ ForgetPart(r)
  <2>1. Ends(r) \/ \E at : Moves(r, at)
    BY <1>3 DEF ClearCharge, FinishSignIn, WriteUsers, PublishLinks, WriteNewAgent, RevokeAgents,
                WritesOnlyDisk, ForgetPart
  <2> QED BY <1>2, <1>3, <2>1, EndsUntouched
<1>4. ASSUME NEW at, NEW user, requests' = [requests EXCEPT ![r].at = at, ![r].user = user],
             CheckPassword(r)
      PROVE  AllUntouched
  <2> DEFINE q == [requests[r] EXCEPT !.at = at, !.user = user]
  <2>1. requests' = [requests EXCEPT ![r] = q]
    BY <1>4 DEF AccountInv, Shaped
  <2>2. q.op = requests[r].op
    BY <1>2, <1>4 DEF Fielded
  <2> HIDE DEF q
  <2> QED BY <1>2, <1>4, <2>1, <2>2, OneUntouched
<1>5. CASE CheckPassword(r)
  <2>1. Ends(r) \/ \E at, user : requests' = [requests EXCEPT ![r].at = at, ![r].user = user]
    BY <1>5 DEF CheckPassword
  <2> QED BY <1>2, <1>4, <1>5, <2>1, EndsUntouched
<1>6. ASSUME NEW at, NEW pw, requests' = [requests EXCEPT ![r].at = at, ![r].pw = pw], CheckAgent(r)
      PROVE  AllUntouched
  <2> DEFINE q == [requests[r] EXCEPT !.at = at, !.pw = pw]
  <2>1. requests' = [requests EXCEPT ![r] = q]
    BY <1>6 DEF AccountInv, Shaped
  <2>2. q.op = requests[r].op
    BY <1>2, <1>6 DEF Fielded
  <2> HIDE DEF q
  <2> QED BY <1>2, <1>6, <2>1, <2>2, OneUntouched
<1>7. CASE CheckAgent(r)
  <2>1. Ends(r) \/ \E at, pw : requests' = [requests EXCEPT ![r].at = at, ![r].pw = pw]
    BY <1>7 DEF CheckAgent
  <2> QED BY <1>2, <1>6, <1>7, <2>1, EndsUntouched
<1>8. CASE WriteSessions(r)
  <2>1. PICK index : requests' = [requests EXCEPT ![r].at = "publish", ![r].index = index]
    BY <1>8 DEF WriteSessions
  <2> DEFINE q == [requests[r] EXCEPT !.at = "publish", !.index = index]
  <2>2. requests' = [requests EXCEPT ![r] = q]
    BY <2>1 DEF AccountInv, Shaped
  <2>3. q.op = requests[r].op
    BY <1>2, <1>8 DEF Fielded
  <2> HIDE DEF q
  <2> QED BY <1>2, <1>8, <2>2, <2>3, OneUntouched
<1> QED BY <1>1, <1>3, <1>5, <1>7, <1>8

\* The accounts' steps leave checkpoints alone, and time.
LEMMA AccountsUntouched ==
  ASSUME AccountInv, AccountsStep
  PROVE  AllUntouched /\ UNCHANGED clock
<1>1. ASSUME NEW name, NEW address, SignInRefused(name, address)
      PROVE  AllUntouched /\ UNCHANGED clock
  BY <1>1 DEF SignInRefused, AllUntouched, Untouched
<1>2. ASSUME NEW r \in Requests,
             \/ \E name, address, pw : SignIn(r, name, address, pw)
             \/ CheckPassword(r) \/ ClearCharge(r) \/ FinishSignIn(r) \/ CheckAgent(r)
             \/ WriteUsers(r) \/ WriteSessions(r) \/ PublishLinks(r) \/ WriteNewAgent(r)
             \/ RevokeAgents(r)
      PROVE  AllUntouched /\ UNCHANGED clock
  <2>1. UNCHANGED clock
    BY <1>2 DEF SignIn, CheckPassword, ClearCharge, FinishSignIn, CheckAgent, WriteUsers,
                WriteSessions, PublishLinks, WriteNewAgent, RevokeAgents
  <2> QED BY <1>2, <2>1, OthersUntouched
<1>3. ASSUME NEW r \in Requests, NEW s \in sessions.mem, NEW u, NEW role,
             \/ AskNewPassword(r, s, u) \/ AskDeletion(r, s, u) \/ AskRole(r, s, u, role)
             \/ AskAccount(r, s, u, role) \/ AskAgent(r, s) \/ AskSignOut(r, s) \/ UseExpired(r, s)
      PROVE  AllUntouched /\ UNCHANGED clock
  <2>1. UNCHANGED clock
    BY <1>3 DEF AskNewPassword, AskDeletion, AskRole, AskAccount, AskAgent, AskSignOut, UseExpired
  <2> QED BY <1>3, <2>1, AskingUntouched
<1>4. ASSUME NEW s \in sessions.mem, NEW t \in agents.mem, RevokeAgent(s, t)
      PROVE  AllUntouched /\ UNCHANGED clock
  BY <1>4 DEF RevokeAgent, AllUntouched, Untouched
<1> QED BY <1>1, <1>2, <1>3, <1>4 DEF AccountsStep

\* A checkpoint goes on, or ends.
Becomes(r, work, at) ==
  /\ \A x \in Requests : x # r => requests'[x] = requests[x]
  /\ at = "done" => requests'[r] = Idle
  /\ at # "done" => /\ requests'[r].op = "checkpoint" /\ requests'[r].by = requests[r].by
                    /\ requests'[r].at = at /\ requests'[r].work = work

\* What becomes of a request that goes on, or ends.
LEMMA ProceedsBecomes ==
  ASSUME AccountInv, NEW r \in Requests, requests[r].op = "checkpoint", NEW work, NEW at,
         Proceeds(r, work, at)
  PROVE  Becomes(r, work, at)
<1>1. CASE at = "done"
  BY <1>1, OneRequest DEF AccountInv, Proceeds, Becomes
<1>2. CASE at # "done"
  <2> DEFINE q == [requests[r] EXCEPT !.at = at, !.work = work]
  <2>1. requests' = [requests EXCEPT ![r] = q]
    BY <1>2 DEF Proceeds
  <2>2. Fielded(requests[r])
    BY DEF AccountInv, Shaped, RequestShaped
  <2>3. q.op = requests[r].op /\ q.by = requests[r].by /\ q.at = at /\ q.work = work
    BY <2>2 DEF Fielded
  <2> HIDE DEF q
  <2>4. requests'[r] = q /\ \A x \in Requests : x # r => requests'[x] = requests[x]
    BY <2>1, OneRequest DEF AccountInv
  <2> QED BY <1>2, <2>3, <2>4 DEF Becomes
<1> QED BY <1>1, <1>2

\* What was heard since the last place is no less than nothing.
LEMMA PlausibleIsNat ==
  ASSUME NEW previous, PlaceShaped(previous), NEW spot \in 0 .. BookEnd, NEW seek, NEW now \in Int
  PROVE  Plausible(previous, spot, seek, now) \in Nat
<1>0. BookEnd \in Nat /\ Grace \in Nat
  BY ListenersAssumption DEF ListenersAssumption
<1>1. CASE previous = None \/ seek
  BY <1>1 DEF Plausible
<1>2. CASE ~(previous = None \/ seek)
  <2> DEFINE moved == Max({0, spot - previous.spot})
  <2>1. spot - previous.spot \in Int
    BY <1>0, <1>2 DEF PlaceShaped
  <2>2. moved \in Nat
    <3> DEFINE gone == spot - previous.spot
    <3>1. \E x \in {0, gone} : \A y \in {0, gone} : x >= y
      BY <2>1
    <3> HIDE DEF gone
    <3>2. moved \in {0, gone} /\ \A y \in {0, gone} : moved >= y
      BY <3>1 DEF Max, gone
    <3> QED BY <2>1, <3>2 DEF gone
  <2> HIDE DEF moved
  <2>3. Min({moved, Grace}) \in Nat
    <3>1. \E x \in {moved, Grace} : \A y \in {moved, Grace} : x =< y
      BY <1>0, <2>2
    <3>2. Min({moved, Grace}) \in {moved, Grace}
      BY <3>1 DEF Min
    <3> QED BY <1>0, <2>2, <3>2
  <2>4. Plausible(previous, spot, seek, now) = IF now > previous.at THEN moved ELSE Min({moved, Grace})
    BY <1>2 DEF Plausible, moved
  <2> QED BY <2>2, <2>3, <2>4
<1> QED BY <1>1, <1>2

\* Checkpoints stay well formed while one of them goes on or ends.
LEMMA CheckpointGoesOn ==
  ASSUME AccountInv, TimesInv, NEW r \in Requests, requests[r].op = "checkpoint", NEW work, NEW at,
         Becomes(r, work, at), UNCHANGED clock, DOMAIN places' = Users,
         \A u \in Users : PlaceShaped(places'[u]), at # "store",
         at # "done" => work.spot \in 0 .. BookEnd /\ WorkShaped(work),
         at = "complete" => work.finished
  PROVE  TimesInv'
<1>1. WorkShaped(work) => WorkShaped(work)'
  BY DEF WorkShaped
<1>2. ASSUME NEW x \in Requests, requests'[x].op = "checkpoint"
      PROVE  CheckpointShaped(requests[x])'
  <2>1. CASE x # r
    BY <1>2, <2>1 DEF Becomes, TimesInv, CheckpointShaped, WorkShaped
  <2>2. CASE x = r
    <3>1. at # "done"
      BY <1>2, <2>2, IdleRequest DEF Becomes
    <3> QED BY <1>1, <2>2, <3>1 DEF Becomes, TimesInv, CheckpointShaped
  <2> QED BY <2>1, <2>2
<1> QED BY <1>2 DEF TimesInv, PlaceShaped

\* The steps of a checkpoint, after its place is stored.
SameWork(w, v) == v.spot = w.spot /\ v.at = w.at /\ v.heard = w.heard /\ v.finished = w.finished

\* What is written or lost for a checkpoint takes it a step on, or ends it, and its work stays.
LEMMA CheckpointSteps ==
  ASSUME AccountInv, NEW r \in Requests,
         \/ AddActivity(r) \/ FoldIn(r) \/ WriteRows(r) \/ WriteCompletion(r) \/ LosesStatistic(r)
  PROVE  /\ requests[r].op = "checkpoint" /\ requests[r].at # "store"
         /\ UNCHANGED <<clock, places>>
         /\ \E work, at : /\ SameWork(requests[r].work, work) /\ Becomes(r, work, at)
                          /\ at \in {"fold", "rows"} \/ at = AfterFolding(work) \/ at = "done"
<1> DEFINE q == requests[r]
<1>1. q.op = "checkpoint" /\ q.at # "store"
      /\ DOMAIN q.work = {"spot", "seek", "at", "heard", "finished", "rows"}
  <2>1. q.at \in {"activity", "fold", "rows", "complete"}
    BY DEF AddActivity, FoldIn, WriteRows, WriteCompletion, LosesStatistic
  <2>2. RequestShaped(q)
    BY DEF AccountInv, Shaped
  <2> QED BY <2>1, <2>2 DEF RequestShaped, Ops, Course
<1>2. UNCHANGED <<clock, places>>
  BY DEF AddActivity, FoldIn, WriteRows, WriteCompletion, LosesStatistic
<1>3. \A rows : LET work == [q.work EXCEPT !.rows = rows] IN
        SameWork(q.work, work) /\ AfterFolding(work) = AfterFolding(q.work)
  BY <1>1 DEF SameWork, AfterFolding
<1>4. SameWork(q.work, q.work)
  BY DEF SameWork
<1>5. ASSUME NEW rows, NEW at, Proceeds(r, [q.work EXCEPT !.rows = rows], at),
             at \in {"fold", "rows", "done"} \/ at = AfterFolding(q.work)
      PROVE  \E work, to : /\ SameWork(q.work, work) /\ Becomes(r, work, to)
                           /\ to \in {"fold", "rows"} \/ to = AfterFolding(work) \/ to = "done"
  <2> DEFINE work == [q.work EXCEPT !.rows = rows]
  <2>1. SameWork(q.work, work) /\ AfterFolding(work) = AfterFolding(q.work)
    BY <1>3
  <2>2. Becomes(r, work, at)
    BY <1>1, <1>5, ProceedsBecomes
  <2> HIDE DEF work, q, SameWork, AfterFolding, Becomes
  <2> QED BY <1>5, <2>1, <2>2
<1>6. CASE AddActivity(r)
  <2>1. Becomes(r, q.work, "fold")
    BY <1>1, <1>6, ProceedsBecomes DEF AddActivity
  <2> QED BY <1>1, <1>2, <1>4, <2>1
<1>7. CASE FoldIn(r)
  <2>1. \E rows : \/ Proceeds(r, [q.work EXCEPT !.rows = rows], "rows")
                  \/ Proceeds(r, [q.work EXCEPT !.rows = rows], AfterFolding(q.work))
    <3> PICK result : result = Recorded(open, q.by, q.work.at, q.work.heard, serial)
      OBVIOUS
    <3>1. Proceeds(r, [q.work EXCEPT !.rows = result.rows],
                   IF result.rows # {} THEN "rows" ELSE AfterFolding(q.work))
      BY <1>7 DEF FoldIn
    <3> HIDE DEF q
    <3> QED BY <3>1
  <2> QED BY <1>1, <1>2, <1>5, <2>1
<1>8. CASE WriteRows(r)
  <2>1. Proceeds(r, [q.work EXCEPT !.rows = {}], AfterFolding(q.work))
    BY <1>8 DEF WriteRows
  <2> QED BY <1>1, <1>2, <1>5, <2>1
<1>9. CASE WriteCompletion(r)
  <2>1. Becomes(r, q.work, "done")
    BY <1>9, OneRequest DEF WriteCompletion, Ends, AccountInv, Becomes
  <2> QED BY <1>1, <1>2, <1>4, <2>1
<1>10. CASE LosesStatistic(r)
  <2>1. \E at : /\ Proceeds(r, [q.work EXCEPT !.rows = {}], at)
                /\ at \in {"fold", "done"} \/ at = AfterFolding(q.work)
    BY <1>10, Zenon DEF LosesStatistic
  <2> QED BY <1>1, <1>2, <1>5, <2>1
<1> QED BY <1>6, <1>7, <1>8, <1>9, <1>10

\* Storing the place.
LEMMA StoringSteps ==
  ASSUME AccountInv, TimesInv, NEW r \in Requests, StorePlace(r)
  PROVE  TimesInv'
<1> DEFINE q == requests[r]
<1>1. /\ q.op = "checkpoint" /\ q.by \in Users /\ q.work.spot \in 0 .. BookEnd
      /\ DOMAIN q.work = {"spot", "seek", "at", "heard", "finished", "rows"}
  <2>1. q.op = "checkpoint" /\ DOMAIN q.work = {"spot", "seek", "at", "heard", "finished", "rows"}
    BY DEF StorePlace, AccountInv, Shaped, RequestShaped, Ops, Course
  <2> QED BY <2>1 DEF TimesInv, CheckpointShaped
<1>2. UNCHANGED clock
  BY DEF StorePlace
<1>3. CASE Ends(r) /\ UNCHANGED places
  <2>1. Becomes(r, q.work, "done")
    BY <1>3, OneRequest DEF Ends, AccountInv, Becomes
  <2> QED BY <1>1, <1>2, <1>3, <2>1, CheckpointGoesOn DEF TimesInv
<1>4. CASE ~(Ends(r) /\ UNCHANGED places)
  <2> PICK delta : delta = Plausible(places[q.by], q.work.spot, q.work.seek, clock)
    OBVIOUS
  <2> PICK yes : yes = Finishes(places[q.by], q.work.spot)
    OBVIOUS
  <2>1. delta \in Nat /\ yes \in BOOLEAN
    <3>1. PlaceShaped(places[q.by]) /\ clock \in Int
      BY <1>1 DEF TimesInv
    <3>2. delta \in Nat
      BY <1>1, <3>1, PlausibleIsNat
    <3> QED BY <3>2 DEF Finishes
  <2> DEFINE work == [q.work EXCEPT !.at = clock, !.heard = delta, !.finished = yes]
  <2>2. /\ places' = [places EXCEPT ![q.by] = [spot |-> q.work.spot, at |-> clock]]
        /\ Proceeds(r, work, AfterStoring(work))
    BY <1>4, Zenon DEF StorePlace
  <2>3. work.spot = q.work.spot /\ work.at = clock /\ work.heard = delta /\ work.finished = yes
    BY <1>1
  <2> HIDE DEF work
  <2>4. /\ AfterStoring(work) \in {"activity", "complete", "done"}
        /\ AfterStoring(work) = "complete" => work.finished
    BY DEF AfterStoring, AfterFolding
  <2>5. Becomes(r, work, AfterStoring(work))
    BY <1>1, <2>2, ProceedsBecomes
  <2>6. WorkShaped(work)
    BY <2>1, <2>3 DEF WorkShaped, TimesInv
  <2>7. DOMAIN places' = Users /\ \A u \in Users : PlaceShaped(places'[u])
    BY <1>1, <2>2 DEF TimesInv, PlaceShaped
  <2> HIDE DEF q
  <2> QED BY <1>1, <1>2, <2>3, <2>4, <2>5, <2>6, <2>7, CheckpointGoesOn DEF q
<1> QED BY <1>3, <1>4

\* While checkpoints stay as they are they stay well formed.
LEMMA TimesStand ==
  ASSUME TimesInv, AllUntouched, UNCHANGED clock, DOMAIN places' = Users,
         \A u \in Users : PlaceShaped(places'[u])
  PROVE  TimesInv'
BY DEF TimesInv, AllUntouched, Untouched, CheckpointShaped, WorkShaped, PlaceShaped

\* Asking to record a checkpoint.
LEMMA CheckpointBegins ==
  ASSUME AccountInv, NEW r \in Requests, NEW s \in sessions.mem, NEW spot, NEW seek,
         AskCheckpoint(r, s, spot, seek)
  PROVE  /\ \A x \in Requests : x # r => requests'[x] = requests[x]
         /\ requests[r] = Idle
         /\ requests'[r].op = "checkpoint" /\ requests'[r].at = "store"
         /\ requests'[r].by = s.user /\ requests'[r].work.spot = spot
         /\ s.user \in Users
<1> PICK no : no = FALSE
  OBVIOUS
<1> DEFINE w == [spot |-> spot, seek |-> seek, at |-> 0, heard |-> 0, finished |-> no, rows |-> {}]
           p == [Idle EXCEPT !.op = "checkpoint", !.at = "store", !.work = w]
<1>2. Asks(r, s, p)
  BY Zenon DEF AskCheckpoint
<1>3. w.spot = spot
  OBVIOUS
<1> HIDE DEF w
<1>4. Fielded(p) /\ p.op = "checkpoint" /\ p.at = "store" /\ p.work = w
  BY DEF Fielded, Idle
<1> HIDE DEF p
<1>5. PICK boss : /\ requests[r] = Idle
                  /\ requests' = [requests EXCEPT ![r] =
                                    [p EXCEPT !.by = s.user, !.session = s.n, !.boss = boss]]
  BY <1>2 DEF Asks, Begins
<1> DEFINE q == [p EXCEPT !.by = s.user, !.session = s.n, !.boss = boss]
<1>6. q.op = p.op /\ q.at = p.at /\ q.by = s.user /\ q.work = p.work
  BY <1>4 DEF Fielded
<1>7. requests' = [requests EXCEPT ![r] = q]
  BY <1>5
<1> HIDE DEF q
<1>8. requests'[r] = q /\ \A x \in Requests : x # r => requests'[x] = requests[x]
  BY <1>7, OneRequest DEF AccountInv
<1>9. s.user \in Users
  BY SessionUsersSeen
<1> QED BY <1>3, <1>4, <1>5, <1>6, <1>8, <1>9

\* Every step keeps checkpoints and places in order.
LEMMA TimesSteps ==
  ASSUME AccountInv, TimesInv, ListenersNext
  PROVE  TimesInv'
<1>0. DOMAIN places = Users /\ \A u \in Users : PlaceShaped(places[u])
  BY DEF TimesInv
<1>1. CASE AccountsStep /\ UNCHANGED listenVars
  BY <1>0, <1>1, AccountsUntouched, TimesStand DEF listenVars
<1>2. ASSUME NEW r \in Requests, NEW s \in sessions.mem, NEW spot \in 0 .. BookEnd, NEW seek,
             AskCheckpoint(r, s, spot, seek)
      PROVE  TimesInv'
  <2>1. UNCHANGED <<clock, places>>
    BY <1>2 DEF AskCheckpoint, listenVars
  <2>2. /\ \A x \in Requests : x # r => requests'[x] = requests[x]
        /\ requests'[r].op = "checkpoint" /\ requests'[r].at = "store"
        /\ requests'[r].by \in Users /\ requests'[r].work.spot \in 0 .. BookEnd
    BY <1>2, CheckpointBegins
  <2> QED BY <2>1, <2>2 DEF TimesInv, CheckpointShaped, WorkShaped, PlaceShaped
<1>3. ASSUME NEW r \in Requests, StorePlace(r)
      PROVE  TimesInv'
  BY <1>3, StoringSteps
<1>4. ASSUME NEW r \in Requests,
             \/ AddActivity(r) \/ FoldIn(r) \/ WriteRows(r) \/ WriteCompletion(r) \/ LosesStatistic(r)
      PROVE  TimesInv'
  <2>1. /\ requests[r].op = "checkpoint" /\ requests[r].at # "store"
        /\ UNCHANGED <<clock, places>>
    BY <1>4, CheckpointSteps
  <2>2. PICK work, at : /\ SameWork(requests[r].work, work) /\ Becomes(r, work, at)
                        /\ at \in {"fold", "rows"} \/ at = AfterFolding(work) \/ at = "done"
    BY <1>4, CheckpointSteps
  <2>3. work.spot \in 0 .. BookEnd /\ WorkShaped(work)
    BY <2>1, <2>2 DEF TimesInv, CheckpointShaped, SameWork, WorkShaped
  <2>4. at # "store" /\ (at = "complete" => work.finished)
    BY <2>2 DEF AfterFolding
  <2> QED BY <1>0, <2>1, <2>2, <2>3, <2>4, CheckpointGoesOn
<1>5. CASE TakeQuiet \/ WriteQuiet
  <2>1. UNCHANGED <<clock, places, requests>>
    BY <1>5 DEF TakeQuiet, WriteQuiet, vars
  <2> QED BY <2>1 DEF TimesInv, CheckpointShaped, WorkShaped, PlaceShaped
<1>6. CASE Stop \/ PowerGoes
  <2>1. UNCHANGED <<clock, places>> /\ requests' = [r \in Requests |-> Idle]
    BY <1>6 DEF Stop, PowerGoes, Crash, RestartAccounts
  <2> QED BY <2>1, IdleRequest DEF TimesInv, PlaceShaped
<1>7. ASSUME NEW r \in Requests, ForgetPart(r)
      PROVE  TimesInv'
  <2>1. places' = places \/ places' = [places EXCEPT ![requests[r].user] = None]
    BY <1>7 DEF ForgetPart
  <2>2. DOMAIN places' = Users /\ \A u \in Users : PlaceShaped(places'[u])
    BY <1>0, <2>1 DEF PlaceShaped
  <2>3. UNCHANGED clock
    BY <1>7 DEF ForgetPart
  <2> QED BY <1>7, <2>2, <2>3, OthersUntouched, TimesStand
<1>8. ASSUME NEW r \in Requests, GivesUpListening(r) \/ RecordsOnlyOnDisk(r)
      PROVE  TimesInv'
  <2>1. Ends(r) /\ UNCHANGED <<clock, places>>
    BY <1>8 DEF GivesUpListening, GivesUp, RecordsOnlyOnDisk
  <2>2. requests'[r] = Idle /\ \A x \in Requests : x # r => requests'[x] = requests[x]
    BY <2>1, OneRequest DEF AccountInv, Ends
  <2> QED BY <2>1, <2>2, IdleRequest DEF TimesInv, CheckpointShaped, WorkShaped, PlaceShaped
<1>9. ASSUME NEW r \in Requests, WritesOnlyDisk(r), UNCHANGED listenVars
      PROVE  TimesInv'
  <2>1. UNCHANGED <<clock, places>>
    BY <1>9 DEF WritesOnlyDisk, listenVars
  <2> QED BY <1>0, <1>9, <2>1, OthersUntouched, TimesStand
<1>10. CASE Minute
  <2>1. UNCHANGED <<requests, places>> /\ clock' = clock + 1
    BY <1>10 DEF Minute, Tick, listenVars
  <2>2. \A r \in Requests : Recording(requests[r]) => requests[r].work.at = clock
    BY <1>10 DEF Minute
  <2>3. \A r \in Requests : requests[r].op = "checkpoint" => CheckpointShaped(requests[r])'
    BY <2>1, <2>2 DEF TimesInv, CheckpointShaped, WorkShaped, Recording
  <2> QED BY <2>1, <2>3 DEF TimesInv, PlaceShaped
<1> QED BY <1>1, <1>2, <1>3, <1>4, <1>5, <1>6, <1>7, <1>8, <1>9, <1>10 DEF ListenersNext

--------------------------------------------------------------------------------
(* Sittings and rows, while nothing is folded in, closed or written.           *)

\* Who is not counted once is not counted again.
AllCounted == \A u \in Users : Counted(u)' => Counted(u)

\* No step makes a listener's record whole again.
LEMMA CountedShrinks ==
  ASSUME AccountInv, Frames, FollowAll, cut \subseteq cut'
  PROVE  AllCounted
BY AccountLeftStays DEF AllCounted, Counted

\* Rows to be written are of whose checkpoint it is.
LEMMA RowsAreOwn ==
  ASSUME AccountInv, NEW r \in Requests, NEW row \in RowsOf(r)
  PROVE  /\ requests[r].op = "checkpoint" /\ requests[r].at = "rows"
         /\ row \in requests[r].work.rows /\ row.user = requests[r].by
<1>1. requests[r].at = "rows" /\ row \in requests[r].work.rows
  BY DEF RowsOf
<1>2. RequestShaped(requests[r])
  BY DEF AccountInv, Shaped
<1>3. requests[r].op = "checkpoint"
  BY <1>1, <1>2 DEF RequestShaped, Ops, Course
<1> QED BY <1>1, <1>2, <1>3 DEF RequestShaped

\* A request that no step moved holds the rows it held.
LEMMA UntouchedRows ==
  ASSUME AccountInv, AccountInv', AllUntouched, NEW r \in Requests
  PROVE  RowsOf(r)' = RowsOf(r)
<1>1. CASE requests'[r] = requests[r]
  BY <1>1 DEF RowsOf
<1>2. CASE requests[r].op # "checkpoint" /\ requests'[r].op # "checkpoint"
  <2>1. requests[r].at # "rows" /\ requests'[r].at # "rows"
    BY <1>2 DEF AccountInv, Shaped, RequestShaped, Ops, Course
  <2> QED BY <2>1 DEF RowsOf
<1> QED BY <1>1, <1>2 DEF AllUntouched, Untouched

\* A row and a sitting of one id are of one listener.
LEMMA RowsOfOneSitting ==
  ASSUME LogInv, NEW f \in folded, NEW row, OnRecord(row), row.id = f.id
  PROVE  row.user = f.user
BY DEF LogInv, Writes

\* Requests drop rows only where a fault is noted, and the rest stands.
RowsDropped ==
  \A r \in Requests : \/ RowsOf(r)' = RowsOf(r)
                      \/ RowsOf(r)' = {} /\ \A row \in RowsOf(r) : row.user \in cut'

\* A step that leaves sittings and history alone keeps what is recorded, if the rows
\* that requests drop are of listeners a fault has touched.
LEMMA LogStands ==
  ASSUME LogInv, PendInv, StoredInv, UNCHANGED <<folded, open, sweep>>,
         serial \in Nat, serial' \in Nat, serial' >= serial,
         clock \in Int, clock' = clock \/ (clock' = clock + 1 /\ sweep = {} /\ \A r \in Requests : RowsOf(r) = {}),
         history'.mem.rows = history.mem.rows,
         \A row \in history'.disk.rows : OnRecord(row),
         RowsDropped, AllCounted
  PROVE  LogInv' /\ PendInv' /\ StoredInv'
<1>1. \A r \in Requests : RowsOf(r)' \subseteq RowsOf(r)
  BY DEF RowsDropped
<1>2. ASSUME NEW row, OnRecord(row)'
      PROVE  OnRecord(row)
  BY <1>1, <1>2 DEF OnRecord
<1>3. LogInv'
  <2>1. \A f \in folded : FoldShaped(f)'
    BY DEF LogInv, FoldShaped
  <2>2. \A row : OnRecord(row)' => \E f \in folded : Writes(row, f)
    BY <1>2 DEF LogInv
  <2>3. \A r \in Requests : OnePerSitting(RowsOf(r)')
    BY <1>1 DEF LogInv, OnePerSitting
  <2>4. \A u \in DOMAIN open : SittingTimed(open[u]) /\ \E f \in folded : Opens(open[u], u, f)
    BY DEF LogInv
  <2> QED BY <2>1, <2>2, <2>3, <2>4 DEF LogInv, SittingTimed, Opens, Writes, OnePerSitting
<1>4. PendInv'
  <2>1. CASE clock' = clock
    <3>1. \A x : JustFlushed(x) => JustFlushed(x)'
      BY <2>1 DEF JustFlushed
    <3> QED BY <1>1, <3>1 DEF PendInv, JustFlushed
  <2>2. CASE sweep = {} /\ \A r \in Requests : RowsOf(r) = {}
    BY <1>1, <2>2 DEF PendInv
  <2> QED BY <2>1, <2>2
<1>5. StoredInv'
  <2> SUFFICES ASSUME NEW f \in folded, Counted(f.user)', Settled(f)'
               PROVE  Stored(f)'
    BY DEF StoredInv
  <2>1. f.user \in Users
    BY DEF LogInv, FoldShaped
  <2>2. Settled(f) /\ Counted(f.user)
    BY <2>1 DEF Settled, AllCounted
  <2>3. Stored(f)
    BY <2>2 DEF StoredInv
  <2>4. ASSUME NEW r \in Requests, NEW row \in RowsOf(r), row.id = f.id
        PROVE  row \in RowsOf(r)'
    <3>1. row.user = f.user
      BY <2>4, RowsOfOneSitting DEF OnRecord
    <3>2. f.user \notin cut'
      BY DEF Counted
    <3> QED BY <3>1, <3>2 DEF RowsDropped
  <2> QED BY <1>1, <2>3, <2>4 DEF Stored
<1> QED BY <1>3, <1>4, <1>5

\* The history and its copy on disk.
LEMMA SameStands ==
  ASSUME SameInv, cut \subseteq cut', UNCHANGED history \/ \E h : history' = Both(h)
  PROVE  SameInv'
<1>1. CASE UNCHANGED history
  BY <1>1 DEF SameInv, SameOnDisk
<1>2. ASSUME NEW h, history' = Both(h)
      PROVE  SameInv'
  BY <1>2 DEF Both, SameInv, SameOnDisk
<1> QED BY <1>1, <1>2

--------------------------------------------------------------------------------
(* Rows are written.                                                           *)

\* Some rows on their way come to the history, in memory and on disk.
LEMMA RowsTaken ==
  ASSUME LogInv, PendInv, StoredInv, RecordShaped, NEW W, OnePerSitting(W),
         \A row \in W : row \in sweep \/ \E r \in Requests : row \in RowsOf(r),
         UNCHANGED <<folded, open, serial, clock>>, history' = Both(WithRows(W)),
         sweep' \subseteq sweep, \A row \in sweep : row \in sweep' \/ row \in W,
         \A r \in Requests : RowsOf(r)' \subseteq RowsOf(r),
         \A r \in Requests : \A row \in RowsOf(r) : row \in RowsOf(r)' \/ row \in W,
         AllCounted
  PROVE  LogInv' /\ PendInv' /\ StoredInv'
<1>1. /\ history'.mem.rows = Replaced(history.mem.rows, W)
      /\ history'.disk.rows = Replaced(history.mem.rows, W)
  BY DEF Both, WithRows, RecordShaped
<1>2. \A row \in Replaced(history.mem.rows, W) :
        row \in W \/ (row \in history.mem.rows /\ \A x \in W : x.id # row.id)
  BY DEF Replaced
<1>3. ASSUME NEW row, OnRecord(row)'
      PROVE  OnRecord(row)
  <2>1. \/ row \in sweep' \/ row \in Replaced(history.mem.rows, W)
        \/ \E r \in Requests : row \in RowsOf(r)'
    BY <1>1, <1>3 DEF OnRecord
  <2> QED BY <1>2, <2>1 DEF OnRecord
<1>4. LogInv'
  <2>1. \A f \in folded : FoldShaped(f)'
    BY DEF LogInv, FoldShaped
  <2>2. \A row : OnRecord(row)' => \E f \in folded : Writes(row, f)
    BY <1>3 DEF LogInv
  <2>3. OnePerSitting(sweep') /\ \A r \in Requests : OnePerSitting(RowsOf(r)')
    BY DEF LogInv, OnePerSitting
  <2>4. \A u \in DOMAIN open : SittingTimed(open[u]) /\ \E f \in folded : Opens(open[u], u, f)
    BY DEF LogInv
  <2> QED BY <2>1, <2>2, <2>3, <2>4 DEF LogInv, SittingTimed, Opens, Writes, OnePerSitting
<1>5. PendInv'
  <2>1. \A x : JustFlushed(x) => JustFlushed(x)'
    BY DEF JustFlushed
  <2> QED BY <2>1 DEF PendInv, JustFlushed
<1>6. StoredInv'
  <2> SUFFICES ASSUME NEW f \in folded, Counted(f.user)', Settled(f)'
               PROVE  Stored(f)'
    BY DEF StoredInv
  <2>1. f.user \in Users
    BY DEF LogInv, FoldShaped
  <2>2. Settled(f) /\ Counted(f.user)
    BY <2>1 DEF Settled, AllCounted
  <2>3. Stored(f)
    BY <2>2 DEF StoredInv
  <2>4. /\ \A row \in sweep' : row.id = f.id => row.heard = f.heard
        /\ \A r \in Requests : \A row \in RowsOf(r)' : row.id = f.id => row.heard = f.heard
    BY <2>3 DEF Stored
  <2>5. CASE \E row \in W : row.id = f.id
    <3>1. PICK row \in W : row.id = f.id
      BY <2>5
    <3>2. row.heard = f.heard
      BY <2>3, <3>1 DEF Stored
    <3>3. row \in Replaced(history.mem.rows, W)
      BY DEF Replaced
    <3>4. \A x \in Replaced(history.mem.rows, W) : x.id = f.id => x = row
      BY <1>2, <3>1 DEF OnePerSitting
    <3> QED BY <1>1, <2>4, <3>1, <3>2, <3>3, <3>4 DEF Stored
  <2>6. CASE \A row \in W : row.id # f.id
    <3>1. CASE \E row \in sweep : row.id = f.id
      BY <2>4, <2>6, <3>1 DEF Stored
    <3>2. CASE \E r \in Requests : \E row \in RowsOf(r) : row.id = f.id
      <4>1. \E r \in Requests : \E row \in RowsOf(r)' : row.id = f.id
        BY <2>6, <3>2
      <4> QED BY <2>4, <4>1 DEF Stored
    <3>3. ASSUME NEW row \in history.mem.rows, row.id = f.id, row.heard = f.heard,
                 \A x \in history.mem.rows : x.id = f.id => x = row
          PROVE  Stored(f)'
      <4>1. row \in Replaced(history.mem.rows, W)
        BY <2>6, <3>3 DEF Replaced
      <4>2. \A x \in Replaced(history.mem.rows, W) : x.id = f.id => x = row
        BY <1>2, <2>6, <3>3
      <4> QED BY <1>1, <2>4, <3>3, <4>1, <4>2 DEF Stored
    <3> QED BY <2>3, <3>1, <3>2, <3>3 DEF Stored
  <2> QED BY <2>5, <2>6
<1> QED BY <1>4, <1>5, <1>6

\* A checkpoint writes what it gave out.
LEMMA WriteRowsKeeps ==
  ASSUME AccountInv, RecordShaped, KeptInv, AllCounted, NEW r \in Requests, WriteRows(r)
  PROVE  LogInv' /\ PendInv' /\ StoredInv' /\ SameInv'
<1> DEFINE q == requests[r]
           W == q.work.rows
<1>1. /\ q.at = "rows" /\ history' = Both(WithRows(W))
      /\ Proceeds(r, [q.work EXCEPT !.rows = {}], AfterFolding(q.work))
      /\ UNCHANGED <<folded, open, serial, clock, sweep, cut>>
  BY DEF WriteRows, accountVars
<1>2. RowsOf(r) = W /\ q.op = "checkpoint"
  <2>1. RequestShaped(q)
    BY DEF AccountInv, Shaped
  <2> QED BY <1>1, <2>1 DEF RowsOf, RequestShaped, Ops, Course
<1>3. \A x \in Requests : x # r => requests'[x] = requests[x]
  BY <1>1, <1>2, ProceedsBecomes DEF Becomes
<1>4. requests'[r].at # "rows"
  <2>1. \/ AfterFolding(q.work) = "done" /\ requests'[r] = Idle
        \/ AfterFolding(q.work) = "complete" /\ requests'[r].at = "complete"
    BY <1>1, <1>2, ProceedsBecomes DEF Becomes, AfterFolding
  <2> QED BY <2>1, IdleRequest
<1>5. RowsOf(r)' = {} /\ \A x \in Requests : x # r => RowsOf(x)' = RowsOf(x)
  BY <1>3, <1>4 DEF RowsOf
<1>6. OnePerSitting(W)
  BY <1>2 DEF KeptInv, LogInv
<1> HIDE DEF W, q
<1>7. LogInv' /\ PendInv' /\ StoredInv'
  <2>1. \A row \in W : row \in sweep \/ \E x \in Requests : row \in RowsOf(x)
    BY <1>2
  <2>2. \A x \in Requests : RowsOf(x)' \subseteq RowsOf(x)
    BY <1>5
  <2>3. \A x \in Requests : \A row \in RowsOf(x) : row \in RowsOf(x)' \/ row \in W
    BY <1>2, <1>5
  <2> QED BY <1>1, <1>6, <2>1, <2>2, <2>3, RowsTaken DEF KeptInv
<1> QED BY <1>1, <1>7, SameStands DEF KeptInv

\* The sweeper writes what it took.
LEMMA WriteQuietKeeps ==
  ASSUME AccountInv, RecordShaped, KeptInv, AllCounted, WriteQuiet
  PROVE  LogInv' /\ PendInv' /\ StoredInv' /\ SameInv'
<1>1. /\ history' = Both(WithRows(sweep)) /\ sweep' = {}
      /\ UNCHANGED <<folded, open, serial, clock, requests, cut>>
  BY DEF WriteQuiet, vars, accountVars
<1>2. \A r \in Requests : RowsOf(r)' = RowsOf(r)
  BY <1>1 DEF RowsOf
<1>3. LogInv' /\ PendInv' /\ StoredInv'
  BY <1>1, <1>2, RowsTaken DEF KeptInv, LogInv
<1> QED BY <1>1, <1>3, SameStands DEF KeptInv

\* A write that only the disk sees touches the rows of its listener alone.
LEMMA DiskRecordKeeps ==
  ASSUME AccountInv, RecordShaped, KeptInv, AllCounted, NEW r \in Requests, RecordsOnlyOnDisk(r)
  PROVE  LogInv' /\ PendInv' /\ StoredInv' /\ SameInv'
<1> DEFINE q == requests[r]
           W == q.work.rows
<1>1. /\ Ends(r) /\ cut' = cut \cup {q.by}
      /\ UNCHANGED <<folded, open, serial, clock, sweep>>
  BY DEF RecordsOnlyOnDisk, accountVars
<1>2. \/ UNCHANGED history
      \/ q.at = "rows" /\ history' = OnDisk(history, WithRows(W))
      \/ history' = OnDisk(history, WithCompletion(q.by))
  BY DEF RecordsOnlyOnDisk
<1>3. requests'[r] = Idle /\ \A x \in Requests : x # r => requests'[x] = requests[x]
  BY <1>1, OneRequest DEF AccountInv, Ends
<1>4. RowsDropped
  <2>1. RowsOf(r)' = {} /\ \A x \in Requests : x # r => RowsOf(x)' = RowsOf(x)
    BY <1>3, IdleRequest DEF RowsOf
  <2>2. \A row \in RowsOf(r) : row.user \in cut'
    BY <1>1, RowsAreOwn
  <2> QED BY <2>1, <2>2 DEF RowsDropped
<1>5. /\ history'.mem = history.mem
      /\ \/ history'.disk = history.disk
         \/ q.at = "rows" /\ history'.disk = WithRows(W)
         \/ history'.disk = WithCompletion(q.by)
  BY <1>2 DEF OnDisk, RecordShaped
<1>6. /\ WithRows(W).rows = Replaced(history.mem.rows, W) /\ WithRows(W).done = history.mem.done
      /\ WithCompletion(q.by).rows = history.mem.rows
      /\ WithCompletion(q.by).done = [history.mem.done EXCEPT ![q.by] = @ + 1]
  BY DEF WithRows, WithCompletion, RecordShaped
<1>7. q.at = "rows" => RowsOf(r) = W
  BY DEF RowsOf
<1> HIDE DEF q, W
<1>8. \A row \in history'.disk.rows : OnRecord(row)
  <2>1. \A row \in Replaced(history.mem.rows, W) : row \in history.mem.rows \/ row \in W
    BY DEF Replaced
  <2> QED BY <1>5, <1>6, <1>7, <2>1 DEF OnRecord
<1>9. LogInv' /\ PendInv' /\ StoredInv'
  <2>1. serial \in Nat /\ serial' \in Nat /\ serial' >= serial
    BY <1>1 DEF AccountInv, Shaped
  <2> QED BY <1>1, <1>4, <1>5, <1>8, <2>1, LogStands DEF KeptInv, TimesInv
<1>10. ASSUME NEW u \in Users \ cut'
       PROVE  SameOnDisk(u)'
  <2>1. u \in Users \ cut /\ u # q.by
    BY <1>1
  <2>2. SameOnDisk(u)
    BY <2>1 DEF KeptInv, SameInv
  <2>3. CASE history'.disk = history.disk
    BY <1>5, <2>2, <2>3 DEF SameOnDisk
  <2>4. CASE q.at = "rows" /\ history'.disk = WithRows(W)
    <3>1. ASSUME NEW row, row.user = u
          PROVE  row \in Replaced(history.mem.rows, W) <=> row \in history.mem.rows
      <4>1. \A x \in W : x.user = q.by /\ OnRecord(x)
        BY <1>7, <2>4, RowsAreOwn DEF OnRecord, q
      <4>2. row \in history.mem.rows => OnRecord(row)
        BY DEF OnRecord
      <4>3. \A x \in W : row \in history.mem.rows => x.id # row.id
        BY <2>1, <3>1, <4>1, <4>2 DEF KeptInv, LogInv, Writes
      <4> QED BY <2>1, <3>1, <4>1, <4>3 DEF Replaced
    <3> QED BY <1>5, <1>6, <2>2, <2>4, <3>1 DEF SameOnDisk
  <2>5. CASE history'.disk = WithCompletion(q.by)
    <3>1. WithCompletion(q.by).done[u] = history.mem.done[u]
      BY <1>6, <2>1 DEF RecordShaped
    <3> QED BY <1>5, <1>6, <2>2, <2>5, <3>1 DEF SameOnDisk
  <2> QED BY <1>5, <2>3, <2>4, <2>5
<1> QED BY <1>9, <1>10 DEF SameInv

--------------------------------------------------------------------------------
(* Sittings are closed.                                                        *)

LEMMA SinceIs ==
  ASSUME NEW now \in Int, NEW then \in Int
  PROVE  Since(now, then) = IF now >= then THEN now - then ELSE 0
<1> DEFINE gone == now - then
<1>0. gone \in Int
  OBVIOUS
<1> HIDE DEF gone
<1>1. \E x \in {0, gone} : \A y \in {0, gone} : x >= y
  BY <1>0
<1>2. Max({0, gone}) \in {0, gone} /\ \A y \in {0, gone} : Max({0, gone}) >= y
  BY <1>1 DEF Max
<1>3. Max({0, gone}) = IF gone >= 0 THEN gone ELSE 0
  BY <1>0, <1>2
<1> QED BY <1>3 DEF Since, gone

\* A sitting that has gone quiet was last added to more than a tick ago.
LEMMA QuietIsOld ==
  ASSUME NEW x, SittingTimed(x), NEW at \in Int, ~Accepts(x, at)
  PROVE  x.ended < at - 1
<1>1. SessionGap \in Nat \ {0}
  BY ReadingLogAssumption DEF ReadingLogAssumption
<1>2. x.ended \in Int /\ ~(Since(at, x.ended) <= SessionGap)
  BY DEF SittingTimed, Accepts
<1>3. Since(at, x.ended) = IF at >= x.ended THEN at - x.ended ELSE 0
  BY <1>2, SinceIs
<1> QED BY <1>1, <1>2, <1>3

\* The open sitting of an id, and what was folded into it.
LEMMA OpenIsFolded ==
  ASSUME LogInv, NEW u \in DOMAIN open
  PROVE  /\ SittingTimed(open[u])
         /\ \E f \in folded : Opens(open[u], u, f)
         /\ \A f \in folded : f.id = open[u].id => Opens(open[u], u, f)
         /\ \A v \in DOMAIN open : open[v].id = open[u].id => v = u
<1>1. PICK f \in folded : Opens(open[u], u, f)
  BY DEF LogInv
<1>2. \A g \in folded : g.id = open[u].id => g = f
  BY <1>1 DEF LogInv, Opens
<1>3. ASSUME NEW v \in DOMAIN open, open[v].id = open[u].id
      PROVE  v = u
  <2>1. PICK g \in folded : Opens(open[v], v, g)
    BY DEF LogInv
  <2> QED BY <1>1, <1>2, <1>3, <2>1 DEF Opens
<1> QED BY <1>1, <1>2, <1>3 DEF LogInv

\* The rows that closing sittings gives out.
LEMMA ClosedRowsAre ==
  ASSUME LogInv, OpenInv, NEW set \in SUBSET DOMAIN open
  PROVE  /\ \A row \in ClosedRows(open, set) :
              \E u \in set : /\ open[u].dirty /\ row.id = open[u].id /\ row.user = u
                             /\ row.heard = open[u].heard /\ row = RowOf(open[u])
                             /\ \E f \in folded : Opens(open[u], u, f) /\ Writes(row, f)
         /\ \A u \in set : open[u].dirty /\ open[u].heard >= MinSession =>
              RowOf(open[u]) \in ClosedRows(open, set)
         /\ OnePerSitting(ClosedRows(open, set))
<1>1. ASSUME NEW row \in ClosedRows(open, set)
      PROVE  \E u \in set : /\ open[u].dirty /\ row.id = open[u].id /\ row.user = u
                            /\ row.heard = open[u].heard /\ row = RowOf(open[u])
                            /\ \E f \in folded : Opens(open[u], u, f) /\ Writes(row, f)
  <2>1. PICK u \in set : open[u].dirty /\ open[u].heard >= MinSession /\ row = RowOf(open[u])
    BY DEF ClosedRows, IsSubstantive
  <2>2. row.id = open[u].id /\ row.user = u /\ row.heard = open[u].heard
    BY <2>1 DEF RowOf, OpenInv, SittingShaped
  <2>3. PICK f \in folded : Opens(open[u], u, f)
    BY OpenIsFolded
  <2>4. Writes(row, f)
    BY <2>1, <2>2, <2>3 DEF Opens, Writes
  <2> QED BY <2>1, <2>2, <2>3, <2>4
<1>2. \A u \in set : open[u].dirty /\ open[u].heard >= MinSession =>
        RowOf(open[u]) \in ClosedRows(open, set)
  BY DEF ClosedRows, IsSubstantive
<1>3. OnePerSitting(ClosedRows(open, set))
  <2> SUFFICES ASSUME NEW x \in ClosedRows(open, set), NEW y \in ClosedRows(open, set), x.id = y.id
               PROVE  x = y
    BY DEF OnePerSitting
  <2>1. PICK u \in set : x.id = open[u].id /\ x = RowOf(open[u])
    BY <1>1
  <2>2. PICK v \in set : y.id = open[v].id /\ y = RowOf(open[v])
    BY <1>1
  <2>3. u = v
    BY <2>1, <2>2, OpenIsFolded
  <2> QED BY <2>1, <2>2, <2>3
<1> QED BY <1>1, <1>2, <1>3

\* The sweeper takes what has gone quiet.
LEMMA TakeQuietKeeps ==
  ASSUME AccountInv, OpenInv, KeptInv, AllCounted, TakeQuiet
  PROVE  LogInv' /\ PendInv' /\ StoredInv' /\ SameInv'
<1> DEFINE quiet == Quiet(open, clock)
<1>1. /\ sweep = {} /\ sweep' = ClosedRows(open, quiet) /\ open' = Without(open, quiet)
      /\ UNCHANGED <<folded, history, serial, clock, requests, cut>>
  BY DEF TakeQuiet, vars, accountVars
<1>2. /\ quiet \subseteq DOMAIN open
      /\ \A u \in quiet : ~Accepts(open[u], clock)
  BY DEF Quiet
<1> HIDE DEF quiet
<1>3. /\ DOMAIN open' = DOMAIN open \ quiet
      /\ \A u \in DOMAIN open' : u \in DOMAIN open /\ u \notin quiet /\ open'[u] = open[u]
  BY <1>1 DEF Without, Restrict
<1>4. \A r \in Requests : RowsOf(r)' = RowsOf(r)
  BY <1>1 DEF RowsOf
<1>5. LogInv /\ PendInv /\ StoredInv /\ SameInv /\ clock \in Int
  BY DEF KeptInv, TimesInv
<1>6. \A row \in sweep' : \E u \in quiet :
         /\ open[u].dirty /\ row.id = open[u].id /\ row.user = u /\ row.heard = open[u].heard
         /\ \E f \in folded : Opens(open[u], u, f) /\ Writes(row, f)
  BY <1>1, <1>2, <1>5, ClosedRowsAre
<1>7. LogInv'
  <2>1. \A f \in folded : FoldShaped(f)'
    BY <1>1, <1>5 DEF LogInv, FoldShaped
  <2>2. ASSUME NEW row, OnRecord(row)'
        PROVE  \E f \in folded : Writes(row, f)
    <3>1. row \in sweep' \/ OnRecord(row)
      BY <1>1, <1>4, <2>2 DEF OnRecord
    <3> QED BY <1>5, <1>6, <3>1 DEF LogInv
  <2>3. OnePerSitting(sweep') /\ \A r \in Requests : OnePerSitting(RowsOf(r)')
    BY <1>1, <1>2, <1>4, <1>5, ClosedRowsAre DEF LogInv
  <2>4. \A u \in DOMAIN open' : SittingTimed(open'[u]) /\ \E f \in folded : Opens(open'[u], u, f)
    BY <1>3, <1>5 DEF LogInv
  <2> QED BY <1>1, <1>5, <2>1, <2>2, <2>3, <2>4 DEF LogInv, SittingTimed, Opens, Writes, OnePerSitting
<1>8. PendInv'
  <2>1. \A x : JustFlushed(x) => JustFlushed(x)'
    BY <1>1 DEF JustFlushed
  <2>2. ASSUME NEW u \in DOMAIN open', NEW row \in sweep'
        PROVE  row.id # open'[u].id
    <3>1. PICK v \in quiet : row.id = open[v].id
      BY <1>6
    <3>2. u \in DOMAIN open /\ v \in DOMAIN open /\ u # v /\ open'[u] = open[u]
      BY <1>2, <1>3
    <3> QED BY <1>5, <3>1, <3>2, OpenIsFolded
  <2>3. ASSUME NEW u \in DOMAIN open', NEW r \in Requests, NEW row \in RowsOf(r)',
               row.id = open'[u].id
        PROVE  JustFlushed(open[u])
    BY <1>3, <1>4, <1>5, <2>3 DEF PendInv
  <2> QED BY <1>1, <1>3, <2>1, <2>2, <2>3 DEF PendInv, JustFlushed
<1>9. StoredInv'
  <2> SUFFICES ASSUME NEW f \in folded, Counted(f.user)', Settled(f)'
               PROVE  Stored(f)'
    BY <1>1 DEF StoredInv
  <2>1. f.user \in Users /\ Counted(f.user) /\ f.heard >= MinSession
    BY <1>5 DEF LogInv, FoldShaped, AllCounted, Settled
  <2>2. ASSUME NEW u \in quiet, open[u].id = f.id, open[u].dirty
        PROVE  Stored(f)'
    <3>0. u \in DOMAIN open
      BY <1>2
    <3>1. Opens(open[u], u, f) /\ SittingTimed(open[u])
          /\ \A v \in DOMAIN open : open[v].id = open[u].id => v = u
      BY <1>5, <2>2, <3>0, OpenIsFolded
    <3>2. RowOf(open[u]) \in sweep' /\ RowOf(open[u]).id = f.id
      BY <1>1, <1>2, <1>5, <2>1, <2>2, <3>1, ClosedRowsAre DEF Opens, RowOf
    <3>3. \A row \in sweep' : row.id = f.id => row.heard = f.heard
      BY <1>2, <1>6, <2>2, <3>1 DEF Opens
    <3>4. ~JustFlushed(open[u])
      BY <1>2, <1>5, <3>1, QuietIsOld DEF JustFlushed, SittingTimed
    <3>5. \A r \in Requests : \A row \in RowsOf(r) : row.id # f.id
      BY <1>5, <2>2, <3>0, <3>4 DEF PendInv
    <3> QED BY <1>4, <3>2, <3>3, <3>5 DEF Stored
  <2>3. CASE ~ \E u \in quiet : open[u].id = f.id /\ open[u].dirty
    <3>1. \A u \in DOMAIN open : open[u].id = f.id => ~open[u].dirty
      BY <1>3, <2>3 DEF Settled
    <3>2. Stored(f)
      BY <1>5, <2>1, <3>1 DEF StoredInv, Settled
    <3>3. \A row \in sweep' : row.id # f.id
      BY <1>6, <2>3
    <3> QED BY <1>1, <1>4, <3>2, <3>3 DEF Stored
  <2> QED BY <2>2, <2>3
<1>10. SameInv'
  BY <1>1, <1>5, SameStands
<1> QED BY <1>7, <1>8, <1>9, <1>10

\* Where no fault was, the disk has the same rows of a sitting.
LEMMA SameRows ==
  ASSUME LogInv, SameInv, NEW f \in folded, f.user \notin cut, NEW row, row.id = f.id
  PROVE  row \in history.disk.rows <=> row \in history.mem.rows
<1>1. f.user \in Users
  BY DEF LogInv, FoldShaped
<1>2. SameOnDisk(f.user)
  BY <1>1 DEF SameInv
<1>3. OnRecord(row) => row.user = f.user
  BY RowsOfOneSitting
<1> QED BY <1>2, <1>3 DEF SameOnDisk, OnRecord

\* The server starts with what is on disk, and nothing on its way.
LEMMA StartKeeps ==
  ASSUME AccountInv, OpenInv, RecordShaped, KeptInv, AllCounted,
         NEW rows, rows = {} \/ rows = ClosedRows(open, DOMAIN open),
         history' = Both(IF rows = {} THEN history.disk ELSE WithRows(rows)),
         open' = NoSittings, sweep' = {}, requests' = [r \in Requests |-> Idle],
         UNCHANGED <<folded, serial, clock>>,
         \A row \in sweep : row.user \in cut',
         \A r \in Requests : \A row \in RowsOf(r) : row.user \in cut',
         \A u \in DOMAIN open : open[u].dirty =>
            u \in cut' \/ rows = ClosedRows(open, DOMAIN open),
         cut \subseteq cut'
  PROVE  LogInv' /\ PendInv' /\ StoredInv' /\ SameInv'
<1>1. /\ history'.mem.rows = history'.disk.rows
      /\ history'.mem.rows = IF rows = {} THEN history.disk.rows ELSE Replaced(history.mem.rows, rows)
  BY DEF Both, WithRows, RecordShaped
<1>2. DOMAIN open' = {}
  BY DEF NoSittings
<1>3. \A r \in Requests : RowsOf(r)' = {}
  BY IdleRequest DEF RowsOf
<1>4. LogInv /\ PendInv /\ StoredInv /\ SameInv
  BY DEF KeptInv
<1>5. /\ \A row \in rows : \E u \in DOMAIN open :
            /\ open[u].dirty /\ row.id = open[u].id /\ row.heard = open[u].heard
            /\ \E f \in folded : Opens(open[u], u, f) /\ Writes(row, f)
      /\ OnePerSitting(rows)
  <2>1. CASE rows = {}
    BY <2>1 DEF OnePerSitting
  <2>2. CASE rows = ClosedRows(open, DOMAIN open)
    BY <1>4, <2>2, ClosedRowsAre
  <2> QED BY <2>1, <2>2
<1>6. LogInv'
  <2>1. \A f \in folded : FoldShaped(f)'
    BY <1>4 DEF LogInv, FoldShaped
  <2>2. ASSUME NEW row, OnRecord(row)'
        PROVE  \E f \in folded : Writes(row, f)
    <3>1. row \in history'.mem.rows
      BY <1>1, <1>3, <2>2 DEF OnRecord
    <3>2. OnRecord(row) \/ row \in rows
      BY <1>1, <3>1 DEF Replaced, OnRecord
    <3> QED BY <1>4, <1>5, <3>2 DEF LogInv
  <2>3. OnePerSitting(sweep') /\ \A r \in Requests : OnePerSitting(RowsOf(r)')
    BY <1>3 DEF OnePerSitting
  <2> QED BY <1>2, <1>4, <2>1, <2>2, <2>3 DEF LogInv, Opens, Writes, OnePerSitting, SittingTimed
<1>7. PendInv'
  BY <1>2 DEF PendInv
<1>8. StoredInv'
  <2> SUFFICES ASSUME NEW f \in folded, Counted(f.user)', Settled(f)'
               PROVE  Stored(f)'
    BY DEF StoredInv
  <2>1. f.user \in Users /\ Counted(f.user) /\ f.heard >= MinSession
        /\ f.user \notin cut' /\ f.user \notin cut
    BY <1>4 DEF LogInv, FoldShaped, AllCounted, Settled, Counted
  <2>2. SUFFICES \E row \in history'.mem.rows : /\ row.id = f.id /\ row.heard = f.heard
                                                /\ \A x \in history'.mem.rows : x.id = f.id => x = row
    BY <1>3 DEF Stored
  <2>3. ASSUME NEW u \in DOMAIN open, open[u].id = f.id, open[u].dirty
        PROVE  \E row \in history'.mem.rows : /\ row.id = f.id /\ row.heard = f.heard
                                              /\ \A x \in history'.mem.rows : x.id = f.id => x = row
    <3>1. Opens(open[u], u, f)
      BY <1>4, <2>3, OpenIsFolded
    <3>2. rows = ClosedRows(open, DOMAIN open)
      BY <2>1, <2>3, <3>1 DEF Opens
    <3>3. RowOf(open[u]) \in rows /\ RowOf(open[u]).id = f.id /\ RowOf(open[u]).heard = f.heard
      BY <1>4, <2>1, <2>3, <3>1, <3>2, ClosedRowsAre DEF Opens, RowOf
    <3> DEFINE row == RowOf(open[u])
    <3> HIDE DEF row
    <3>4. row \in rows /\ row.id = f.id /\ row.heard = f.heard
      BY <3>3 DEF row
    <3>5. history'.mem.rows = Replaced(history.mem.rows, rows)
      BY <1>1, <3>4
    <3>6. row \in history'.mem.rows /\ \A x \in history'.mem.rows : x.id = f.id => x = row
      BY <1>5, <3>4, <3>5 DEF Replaced, OnePerSitting
    <3> QED BY <3>4, <3>6
  <2>4. CASE ~ \E u \in DOMAIN open : open[u].id = f.id /\ open[u].dirty
    <3>1. Stored(f)
      BY <1>4, <2>1, <2>4 DEF StoredInv, Settled
    <3>2. \A row : OnRecord(row) /\ row.id = f.id => row.user = f.user
      BY <1>4, RowsOfOneSitting
    <3>3. /\ \A row \in sweep : row.id # f.id
          /\ \A r \in Requests : \A row \in RowsOf(r) : row.id # f.id
      BY <2>1, <3>2 DEF OnRecord
    <3>4. PICK row \in history.mem.rows : /\ row.id = f.id /\ row.heard = f.heard
                                          /\ \A x \in history.mem.rows : x.id = f.id => x = row
      BY <3>1, <3>3 DEF Stored
    <3>5. \A x \in rows : x.id # f.id
      BY <1>5, <2>4
    <3>6. \A x : x.id = f.id => (x \in history'.mem.rows <=> x \in history.mem.rows)
      <4>1. CASE rows = {}
        BY <1>1, <1>4, <2>1, <4>1, SameRows
      <4>2. CASE rows # {}
        BY <1>1, <3>5, <4>2 DEF Replaced
      <4> QED BY <4>1, <4>2
    <3> QED BY <3>4, <3>6
  <2> QED BY <2>3, <2>4
<1>9. SameInv'
  BY <1>4, SameStands
<1> QED BY <1>6, <1>7, <1>8, <1>9

\* A stop, and a loss of power.
LEMMA StopKeeps ==
  ASSUME AccountInv, OpenInv, RecordShaped, KeptInv, AllCounted, Stop \/ PowerGoes
  PROVE  LogInv' /\ PendInv' /\ StoredInv' /\ SameInv'
<1>1. CASE Stop
  <2> DEFINE rows == ClosedRows(open, DOMAIN open)
  <2>1. /\ history' = Both(IF rows = {} THEN history.disk ELSE WithRows(rows))
        /\ open' = NoSittings /\ sweep' = {} /\ requests' = [r \in Requests |-> Idle]
        /\ UNCHANGED <<folded, serial, clock>>
        /\ cut' = cut \cup {row.user : row \in sweep}
        /\ \A r \in Requests : requests[r] = Idle
    BY <1>1 DEF Stop, RestartAccounts
  <2>2. \A r \in Requests : RowsOf(r) = {}
    BY <2>1, IdleRequest DEF RowsOf
  <2> HIDE DEF rows
  <2> QED BY <2>1, <2>2, StartKeeps DEF rows
<1>2. CASE PowerGoes
  <2>1. /\ history' = Both(history.disk)
        /\ open' = NoSittings /\ sweep' = {} /\ requests' = [r \in Requests |-> Idle]
        /\ UNCHANGED <<folded, serial, clock>>
        /\ cut' = cut \cup {u \in DOMAIN open : open[u].dirty}
                      \cup {row.user : row \in sweep}
                      \cup {requests[r].by : r \in {x \in Requests : Recording(requests[x])}}
    BY <1>2 DEF PowerGoes, Crash, RestartAccounts
  <2>2. \A r \in Requests : \A row \in RowsOf(r) : row.user \in cut'
    BY <2>1, RowsAreOwn DEF Recording
  <2>3. /\ \A row \in sweep : row.user \in cut'
        /\ \A u \in DOMAIN open : open[u].dirty => u \in cut'
    BY <2>1
  <2>4. PICK rows : rows = {}
    OBVIOUS
  <2> QED BY <2>1, <2>2, <2>3, <2>4, StartKeeps
<1> QED BY <1>1, <1>2

\* What a deletion takes away is of somebody who is not counted any more.
LEMMA ForgetKeeps ==
  ASSUME AccountInv, AccountInv', OpenInv, GoneInv, GoneInv', KeptInv, Frames, FollowAll, AllCounted,
         NEW r \in Requests, ForgetPart(r)
  PROVE  LogInv' /\ PendInv' /\ StoredInv' /\ SameInv'
<1> PICK u : u = requests[r].user
  OBVIOUS
<1>1. /\ requests[r].op = "delete" /\ requests[r].at \in {"places", "forget", "purge"}
      /\ UNCHANGED <<folded, serial, clock, sweep, cut>>
      /\ UNCHANGED open \/ open' = Without(open, {u})
      /\ \/ UNCHANGED history
         \/ history' = Both([rows |-> {row \in history.mem.rows : row.user # u},
                             done |-> [history.mem.done EXCEPT ![u] = 0]])
  BY DEF ForgetPart
<1>2. u \in Users /\ ~Counted(u) /\ ~Counted(u)'
  <2>1. u \in Users
    BY <1>1 DEF AccountInv, Shaped, RequestShaped
  <2>2. Past(u, AfterUsers)
    BY <1>1 DEF Past, AfterUsers
  <2>3. AccountLeft(u)
    BY <2>1, <2>2 DEF GoneInv
  <2>4. AccountLeft(u)'
    BY <2>1, <2>3, AccountLeftStays
  <2> QED BY <2>1, <2>3, <2>4 DEF Counted
<1>3. \A x \in Requests : RowsOf(x)' = RowsOf(x)
  BY OthersUntouched, UntouchedRows
<1>4. LogInv /\ PendInv /\ StoredInv /\ SameInv
  BY DEF KeptInv
<1>5. \A x \in DOMAIN open' : x \in DOMAIN open /\ open'[x] = open[x]
  BY <1>1 DEF Without, Restrict
<1>6. \A x \in DOMAIN open : x # u => x \in DOMAIN open'
  BY <1>1 DEF Without, Restrict
<1>7. /\ \A row \in history'.mem.rows : row \in history.mem.rows
      /\ \A row \in history'.disk.rows : row \in history.disk.rows \/ row \in history.mem.rows
      /\ \A row \in history.mem.rows : row.user # u => row \in history'.mem.rows
  BY <1>1 DEF Both
<1>8. LogInv'
  <2>1. \A f \in folded : FoldShaped(f)'
    BY <1>1, <1>4 DEF LogInv, FoldShaped
  <2>2. ASSUME NEW row, OnRecord(row)'
        PROVE  OnRecord(row)
    BY <1>1, <1>3, <1>7, <2>2 DEF OnRecord
  <2>3. \A row : OnRecord(row)' => \E f \in folded : Writes(row, f)
    BY <1>4, <2>2 DEF LogInv
  <2>4. OnePerSitting(sweep') /\ \A x \in Requests : OnePerSitting(RowsOf(x)')
    BY <1>1, <1>3, <1>4 DEF LogInv
  <2>5. \A x \in DOMAIN open' : SittingTimed(open'[x]) /\ \E f \in folded : Opens(open'[x], x, f)
    BY <1>4, <1>5 DEF LogInv
  <2> QED BY <1>1, <1>4, <2>1, <2>3, <2>4, <2>5 DEF LogInv, SittingTimed, Opens, Writes, OnePerSitting
<1>9. PendInv'
  <2>1. \A x : JustFlushed(x) => JustFlushed(x)'
    BY <1>1 DEF JustFlushed
  <2>2. \A x \in DOMAIN open' :
          /\ \A row \in sweep' : row.id # open'[x].id
          /\ \A y \in Requests : \A row \in RowsOf(y)' :
                row.id = open'[x].id => JustFlushed(open[x])
    BY <1>1, <1>3, <1>4, <1>5 DEF PendInv
  <2> QED BY <1>5, <2>1, <2>2 DEF PendInv, JustFlushed
<1>10. StoredInv'
  <2> SUFFICES ASSUME NEW f \in folded, Counted(f.user)', Settled(f)'
               PROVE  Stored(f)'
    BY <1>1 DEF StoredInv
  <2>1. f.user \in Users /\ Counted(f.user) /\ f.heard >= MinSession /\ f.user # u
    BY <1>2, <1>4 DEF LogInv, FoldShaped, AllCounted, Settled
  <2>2. ASSUME NEW x \in DOMAIN open, open[x].id = f.id
        PROVE  ~open[x].dirty
    <3>1. x = f.user
      BY <1>4, <2>2, OpenIsFolded DEF Opens
    <3> QED BY <1>5, <1>6, <2>1, <2>2, <3>1 DEF Settled
  <2>3. Stored(f)
    BY <1>4, <2>1, <2>2 DEF StoredInv, Settled
  <2>4. \A row \in history.mem.rows : row.id = f.id => row \in history'.mem.rows
    BY <1>4, <1>7, <2>1, RowsOfOneSitting DEF OnRecord
  <2> QED BY <1>1, <1>3, <1>7, <2>3, <2>4 DEF Stored
<1>11. SameInv'
  BY <1>1, <1>4, SameStands
<1> QED BY <1>8, <1>9, <1>10, <1>11

--------------------------------------------------------------------------------
(* A checkpoint is folded in.                                                  *)

LEMMA SmallerOf ==
  ASSUME NEW x \in Int, NEW y \in Int
  PROVE  Min({x, y}) = IF x <= y THEN x ELSE y
<1>1. \E z \in {x, y} : \A w \in {x, y} : z <= w
  OBVIOUS
<1>2. Min({x, y}) \in {x, y} /\ \A w \in {x, y} : Min({x, y}) <= w
  BY <1>1 DEF Min
<1> QED BY <1>2

\* The sitting goes on: its latest revision is flushed, or has to wait.
Joined(old, y, at, more) ==
  /\ DOMAIN y = DOMAIN old /\ y.id = old.id /\ y.user = old.user
  /\ y.heard = old.heard + more /\ y.ended = at
FlushedNow(old, y, at, rows) ==
  /\ y.dirty = FALSE /\ y.flushed = at /\ y.interval \in Int /\ y.interval >= 2 /\ y.interval >= FlushFirst
  /\ y.heard >= MinSession /\ at - old.flushed >= old.interval
  /\ rows = {[id |-> y.id, user |-> y.user, heard |-> y.heard]}
FlushedLater(old, y, rows) ==
  y.dirty = TRUE /\ y.flushed = old.flushed /\ y.interval = old.interval /\ rows = {}

\* A checkpoint soon after the last one lengthens the sitting, and flushes it when due.
LEMMA JoinIs ==
  ASSUME OpenInv, LogInv, NEW u \in DOMAIN open, NEW at \in Int, NEW more \in Nat, NEW id,
         Accepts(open[u], at)
  PROVE  LET result == Recorded(open, u, at, more, id)
             y == result.open[u]
         IN /\ Joined(open[u], y, at, more)
            /\ FlushedNow(open[u], y, at, result.rows) \/ FlushedLater(open[u], y, result.rows)
<1> PICK old : old = open[u]
  OBVIOUS
<1> PICK result : result = Recorded(open, u, at, more, id)
  OBVIOUS
<1>1. DOMAIN old = {"id", "user", "ended", "heard", "flushed", "interval", "dirty"}
  BY DEF OpenInv, SittingShaped
<1>2. /\ old.ended \in Int /\ old.flushed \in Int /\ old.interval \in Int /\ old.interval >= FlushFirst
      /\ old.heard \in Nat
  BY OpenIsFolded DEF SittingTimed, LogInv, FoldShaped, Opens
<1> PICK longer : longer = [old EXCEPT !.ended = at, !.heard = @ + more, !.dirty = TRUE]
  OBVIOUS
<1> PICK sum, yes : sum = old.heard + more /\ yes = TRUE
  OBVIOUS
<1>3. longer = [old EXCEPT !.ended = at, !.heard = sum, !.dirty = yes]
  BY Zenon
<1>4. /\ DOMAIN longer = DOMAIN old /\ longer.id = old.id /\ longer.user = old.user
      /\ longer.heard = sum /\ longer.ended = at /\ longer.dirty = yes
      /\ longer.flushed = old.flushed /\ longer.interval = old.interval
  BY <1>1, <1>3
<1> PICK due : due = (Since(at, longer.flushed) >= longer.interval /\ IsSubstantive(longer))
  OBVIOUS
<1> PICK next : next = IF due THEN Flushed(longer, at) ELSE longer
  OBVIOUS
<1>5. result = [open |-> [open EXCEPT ![u] = next], rows |-> IF due THEN {RowOf(longer)} ELSE {}]
  BY Zenon DEF Recorded
<1>6. result.open[u] = next /\ result.rows = IF due THEN {RowOf(longer)} ELSE {}
  BY <1>5
<1>7. CASE due
  <2> PICK wait, no : wait = Min({2 * longer.interval, FlushMax}) /\ no = FALSE
    OBVIOUS
  <2>1. next = [longer EXCEPT !.flushed = at, !.dirty = no, !.interval = wait]
    BY <1>7, Zenon DEF Flushed
  <2>2. /\ DOMAIN next = DOMAIN old /\ next.id = old.id /\ next.user = old.user
        /\ next.heard = sum /\ next.ended = at /\ next.dirty = no
        /\ next.flushed = at /\ next.interval = wait
    BY <1>1, <1>4, <2>1
  <2>3. FlushFirst \in Nat \ {0} /\ FlushMax \in Nat /\ FlushFirst < FlushMax
    BY ReadingLogAssumption DEF ReadingLogAssumption
  <2>4. wait = IF 2 * old.interval <= FlushMax THEN 2 * old.interval ELSE FlushMax
    BY <1>2, <1>4, <2>3, SmallerOf
  <2>5. wait \in Int /\ wait >= 2 /\ wait >= FlushFirst
    <3> PICK n : n = old.interval
      OBVIOUS
    <3>1. n \in Int /\ n >= FlushFirst /\ FlushFirst \in Int /\ FlushFirst >= 1
          /\ FlushMax \in Int /\ FlushMax >= 2 /\ FlushMax >= FlushFirst
      BY <1>2, <2>3
    <3>2. CASE wait = 2 * n
      BY <3>1, <3>2
    <3>3. CASE wait = FlushMax
      BY <3>1, <3>3
    <3> QED BY <2>4, <3>2, <3>3
  <2>6. Since(at, old.flushed) >= old.interval /\ sum >= MinSession
    BY <1>4, <1>7 DEF IsSubstantive
  <2>7. at - old.flushed >= old.interval
    <3>1. Since(at, old.flushed) = IF at >= old.flushed THEN at - old.flushed ELSE 0
      BY <1>2, SinceIs
    <3> QED BY <1>2, <2>3, <2>6, <3>1
  <2>8. result.rows = {[id |-> next.id, user |-> next.user, heard |-> next.heard]}
    BY <1>4, <1>6, <1>7, <2>2 DEF RowOf
  <2> QED BY <1>6, <2>2, <2>5, <2>6, <2>7, <2>8 DEF Joined, FlushedNow
<1>8. CASE ~due
  <2>1. next = longer /\ result.rows = {}
    BY <1>6, <1>8
  <2> QED BY <1>4, <1>6, <2>1 DEF Joined, FlushedLater
<1> QED BY <1>7, <1>8

\* Another sitting begins, and the one before is closed.
Begun(y, u, at, more, id) ==
  /\ y.id = id /\ y.user = u /\ y.heard = more /\ y.ended = at /\ y.flushed = at
  /\ y.interval = FlushFirst /\ y.dirty = TRUE

\* A late checkpoint closes the sitting there was and begins another.
LEMMA BeginIs ==
  ASSUME NEW u, NEW at, NEW more, NEW id, ~(u \in DOMAIN open /\ Accepts(open[u], at))
  PROVE  LET result == Recorded(open, u, at, more, id) IN
         /\ Begun(result.open[u], u, at, more, id)
         /\ result.rows = ClosedRows(open, DOMAIN open \cap {u})
<1> PICK result : result = Recorded(open, u, at, more, id)
  OBVIOUS
<1> PICK yes : yes = TRUE
  OBVIOUS
<1> DEFINE new == [id |-> id, user |-> u, ended |-> at, heard |-> more, flushed |-> at,
                   interval |-> FlushFirst, dirty |-> yes]
<1>1. result = [open |-> [x \in DOMAIN open \cup {u} |-> IF x = u THEN new ELSE open[x]],
                rows |-> ClosedRows(open, DOMAIN open \cap {u})]
  BY Zenon DEF Recorded
<1>2. Begun(new, u, at, more, id)
  BY DEF Begun
<1> HIDE DEF new
<1>3. result.open[u] = new /\ result.rows = ClosedRows(open, DOMAIN open \cap {u})
  BY <1>1
<1> QED BY <1>2, <1>3

\* The checkpoint's request is left with the rows to write, the others as they were.
Hands(r, rows) ==
  /\ RowsOf(r) = {} /\ RowsOf(r)' = rows
  /\ \A x \in Requests : x # r => RowsOf(x)' = RowsOf(x)

\* Lengthening a sitting, and flushing it, keeps every sitting accounted for.
LEMMA JoinKeeps ==
  ASSUME AccountInv, TimesInv, LogInv, PendInv, StoredInv, AllCounted, NEW u \in DOMAIN open, NEW at \in Int,
         clock - 1 <= at, at <= clock, NEW more \in Nat, NEW rows, NEW r \in Requests, Hands(r, rows),
         Joined(open[u], open'[u], at, more),
         FlushedNow(open[u], open'[u], at, rows) \/ FlushedLater(open[u], open'[u], rows),
         DOMAIN open' = DOMAIN open, \A v \in DOMAIN open : v # u => open'[v] = open[v],
         open[u].user = u,
         NEW f \in folded, Opens(open[u], u, f),
         folded' = (folded \ {f}) \cup {[f EXCEPT !.heard = @ + more]},
         serial' = serial + 1, UNCHANGED <<clock, history, sweep>>
  PROVE  LogInv' /\ PendInv' /\ StoredInv'
<1> PICK old : old = open[u]
  OBVIOUS
<1> PICK y : y = open'[u]
  OBVIOUS
<1>1. /\ clock \in Int /\ serial \in Nat
      /\ Joined(old, y, at, more) /\ (FlushedNow(old, y, at, rows) \/ FlushedLater(old, y, rows))
  BY DEF TimesInv, AccountInv, Shaped
<1>2. SittingTimed(old) /\ old.heard \in Nat /\ old.interval >= 1 /\ FlushFirst \in Nat
  <2>1. FoldShaped(f)
    BY DEF LogInv
  <2>2. FlushFirst \in Nat \ {0}
    BY ReadingLogAssumption DEF ReadingLogAssumption
  <2> QED BY <2>1, <2>2, OpenIsFolded DEF Opens, FoldShaped, SittingTimed
<1>3. SittingTimed(y)
  BY <1>1, <1>2 DEF Joined, FlushedNow, FlushedLater, SittingTimed
<1> PICK g : g = [f EXCEPT !.heard = @ + more]
  OBVIOUS
<1>4. /\ g = [id |-> g.id, user |-> g.user, heard |-> g.heard]
      /\ g.id = f.id /\ g.user = f.user /\ g.heard = f.heard + more
      /\ FoldShaped(f)
  BY DEF LogInv, FoldShaped
<1>5. f.user = u /\ f.id = old.id /\ f.heard = old.heard /\ u \in Users /\ f.heard \in Nat /\ f.id \in Int
      /\ f.id < serial
  BY <1>4 DEF Opens, FoldShaped
<1>6. Opens(y, u, g)
  BY <1>1, <1>4, <1>5 DEF Opens, Joined
<1>7. \A h \in folded : h.id = f.id => h = f
  BY DEF LogInv
<1>8. \A h : h \in folded' <=> (h \in folded /\ h.id # f.id) \/ h = g
  BY <1>7
\* The row that is given out, if one is.
<1>9. \A row \in rows : row.id = f.id /\ row.user = u /\ row.heard = g.heard /\ g.heard >= MinSession
                        /\ y.dirty = FALSE
  BY <1>1, <1>4, <1>5 DEF FlushedNow, FlushedLater, Joined
<1>10. OnePerSitting(rows)
  BY <1>1 DEF FlushedNow, FlushedLater, OnePerSitting
<1>11. \A x \in Requests : \A row \in RowsOf(x) : row.id = f.id => JustFlushed(old)
  BY <1>5 DEF PendInv
<1>12. rows # {} => FlushedNow(old, y, at, rows) /\ ~JustFlushed(old)
  <2> SUFFICES ASSUME FlushedNow(old, y, at, rows), JustFlushed(old)
               PROVE  FALSE
    BY <1>1 DEF FlushedLater
  <2>1. at - old.flushed >= old.interval /\ old.interval >= 2 /\ old.flushed >= clock - 1
    BY DEF FlushedNow, JustFlushed
  <2> QED BY <1>1, <1>2, <2>1 DEF SittingTimed
<1>13. LogInv'
  <2>1. \A h \in folded' : FoldShaped(h)'
    <3>1. FoldShaped(g)'
      BY <1>1, <1>4, <1>5 DEF FoldShaped
    <3>2. \A h \in folded : FoldShaped(h)'
      BY <1>1 DEF LogInv, FoldShaped
    <3> QED BY <1>8, <3>1, <3>2
  <2>2. \A h, k \in folded' : h.id = k.id => h = k
    BY <1>4, <1>8 DEF LogInv
  <2>3. \A v \in DOMAIN open' : SittingTimed(open'[v]) /\ \E h \in folded' : Opens(open'[v], v, h)
    <3> SUFFICES ASSUME NEW v \in DOMAIN open'
                 PROVE  SittingTimed(open'[v]) /\ \E h \in folded' : Opens(open'[v], v, h)
      OBVIOUS
    <3>1. CASE v = u
      BY <1>3, <1>6, <1>8, <3>1
    <3>2. CASE v # u
      <4>1. v \in DOMAIN open /\ open'[v] = open[v]
        BY <3>2
      <4>2. PICK h \in folded : Opens(open[v], v, h) /\ SittingTimed(open[v])
        BY <4>1 DEF LogInv
      <4>3. h.id # f.id
        BY <1>5, <1>7, <3>2, <4>2 DEF Opens
      <4> QED BY <1>8, <4>1, <4>2, <4>3
    <3> QED BY <3>1, <3>2
  <2>4. ASSUME NEW row, OnRecord(row)'
        PROVE  \E h \in folded' : Writes(row, h)
    <3>1. CASE OnRecord(row)
      <4>1. PICK h \in folded : Writes(row, h)
        BY <3>1 DEF LogInv
      <4>2. CASE h.id # f.id
        BY <1>8, <4>1, <4>2
      <4>3. CASE h.id = f.id
        <5>1. MinSession \in Nat
          BY ReadingLogAssumption DEF ReadingLogAssumption
        <5>2. row.id = f.id /\ row.user = f.user /\ f.heard >= MinSession
          BY <1>7, <4>1, <4>3 DEF Writes
        <5>3. g.heard >= MinSession
          BY <1>4, <1>5, <5>1, <5>2
        <5>4. Writes(row, g)
          BY <1>4, <5>2, <5>3 DEF Writes
        <5> QED BY <1>8, <5>4
      <4> QED BY <4>2, <4>3
    <3>2. CASE row \in rows
      <4>1. Writes(row, g)
        BY <1>4, <1>5, <1>9, <3>2 DEF Writes
      <4> QED BY <1>8, <4>1
    <3> QED BY <2>4, <3>1, <3>2 DEF OnRecord, Hands
  <2>5. OnePerSitting(sweep') /\ \A x \in Requests : OnePerSitting(RowsOf(x)')
    BY <1>10 DEF LogInv, Hands
  <2> QED BY <2>1, <2>2, <2>3, <2>4, <2>5 DEF LogInv, SittingTimed, Opens, Writes, OnePerSitting
<1>14. PendInv'
  <2> SUFFICES ASSUME NEW v \in DOMAIN open'
               PROVE  /\ \A row \in sweep : row.id # open'[v].id
                      /\ \A x \in Requests : \A row \in RowsOf(x)' :
                            row.id = open'[v].id => JustFlushed(open'[v])
    BY DEF PendInv, JustFlushed
  <2>1. CASE v # u
    <3>1. v \in DOMAIN open /\ open'[v] = open[v] /\ open[v].id # f.id
      BY <1>5, <2>1, OpenIsFolded
    <3>2. \A row \in rows : row.id # open[v].id
      BY <1>9, <3>1
    <3> QED BY <3>1, <3>2 DEF PendInv, Hands
  <2>2. CASE v = u
    <3>1. y.id = f.id
      BY <1>1, <1>5 DEF Joined
    <3>2. \A row \in sweep : row.id # y.id
      BY <1>5, <3>1 DEF PendInv
    <3>3. JustFlushed(old) => JustFlushed(y)
      BY <1>1, <1>2 DEF JustFlushed, Joined, FlushedNow, FlushedLater, SittingTimed
    <3>4. FlushedNow(old, y, at, rows) => JustFlushed(y)
      BY <1>1 DEF JustFlushed, Joined, FlushedNow
    <3>5. \A x \in Requests : \A row \in RowsOf(x)' : row.id = y.id => JustFlushed(y)
      BY <1>11, <1>12, <3>1, <3>3, <3>4 DEF Hands
    <3> QED BY <2>2, <3>2, <3>5
  <2> QED BY <2>1, <2>2
<1>15. StoredInv'
  <2> SUFFICES ASSUME NEW h \in folded', Counted(h.user)', Settled(h)'
               PROVE  Stored(h)'
    BY DEF StoredInv
  <2>1. CASE h.id # f.id
    <3>1. h \in folded
      BY <1>4, <1>8, <2>1
    <3>2. Counted(h.user) /\ h.heard >= MinSession
      BY <3>1 DEF LogInv, FoldShaped, AllCounted, Settled
    <3>3. ASSUME NEW v \in DOMAIN open, open[v].id = h.id
          PROVE  ~open[v].dirty
      BY <1>5, <2>1, <3>3 DEF Settled
    <3>4. Stored(h)
      BY <3>1, <3>2, <3>3 DEF StoredInv, Settled
    <3>5. \A row \in rows : row.id # h.id
      BY <1>9, <2>1
    <3> QED BY <3>4, <3>5 DEF Stored, Hands
  <2>2. CASE h.id = f.id
    <3>1. h = g
      BY <1>8, <2>2
    <3>2. ~y.dirty
      BY <1>6, <3>1 DEF Settled, Opens
    <3>3. FlushedNow(old, y, at, rows)
      BY <1>1, <3>2 DEF FlushedLater
    <3>4. \E row \in rows : row.id = f.id
      BY <1>1, <1>5, <3>3 DEF FlushedNow, Joined
    <3>5. \A x \in Requests : \A row \in RowsOf(x) : row.id # f.id
      BY <1>11, <1>12, <3>4
    <3>6. \A row \in sweep : row.id # f.id
      BY <1>5 DEF PendInv
    <3>7. \E x \in Requests : \E row \in RowsOf(x)' : row.id = g.id
      BY <1>4, <3>4 DEF Hands
    <3>8. \A x \in Requests : \A row \in RowsOf(x)' : row.id = g.id => row.heard = g.heard
      BY <1>4, <1>9, <3>5 DEF Hands
    <3> QED BY <1>4, <3>1, <3>6, <3>7, <3>8 DEF Stored
  <2> QED BY <2>1, <2>2
<1> QED BY <1>13, <1>14, <1>15

\* So does closing one and beginning another.
LEMMA BeginKeeps ==
  ASSUME AccountInv, OpenInv, TimesInv, LogInv, PendInv, StoredInv, AllCounted,
         NEW u \in Users, NEW at \in Int,
         clock - 1 <= at, at <= clock, NEW more \in Nat, NEW rows, NEW r \in Requests, Hands(r, rows),
         u \in DOMAIN open => ~Accepts(open[u], at),
         rows = ClosedRows(open, DOMAIN open \cap {u}),
         Begun(open'[u], u, at, more, serial),
         DOMAIN open' = DOMAIN open \cup {u}, \A v \in DOMAIN open : v # u => open'[v] = open[v],
         folded' = folded \cup {[id |-> serial, user |-> u, heard |-> more]},
         serial' = serial + 1, UNCHANGED <<clock, history, sweep>>
  PROVE  LogInv' /\ PendInv' /\ StoredInv'
<1> PICK y : y = open'[u]
  OBVIOUS
<1> PICK g : g = [id |-> serial, user |-> u, heard |-> more]
  OBVIOUS
<1>1. clock \in Int /\ serial \in Nat /\ g.id = serial /\ g.user = u /\ g.heard = more
  BY DEF TimesInv, AccountInv, Shaped
<1>2. SittingTimed(y) /\ Opens(y, u, g) /\ y.dirty = TRUE
  <2>1. FlushFirst \in Nat
    BY ReadingLogAssumption DEF ReadingLogAssumption
  <2>2. Begun(y, u, at, more, serial)
    OBVIOUS
  <2>3. SittingTimed(y)
    <3>1. y.dirty \in BOOLEAN
      BY <2>2, Zenon DEF Begun
    <3> QED BY <2>1, <2>2, <3>1 DEF Begun, SittingTimed
  <2>4. Opens(y, u, g)
    BY <1>1, <2>2 DEF Begun, Opens
  <2> QED BY <2>2, <2>3, <2>4 DEF Begun
<1>3. \A h \in folded : h.id < serial /\ h.id \in Int
  BY DEF LogInv, FoldShaped
<1>4. \A h : h \in folded' <=> h \in folded \/ h = g
  OBVIOUS
\* The rows that closing the sitting before gives out.
<1>5. \A row \in rows :
         /\ u \in DOMAIN open /\ open[u].dirty /\ row.id = open[u].id /\ row.user = u
         /\ row.heard = open[u].heard /\ \E f \in folded : Opens(open[u], u, f) /\ Writes(row, f)
  BY ClosedRowsAre
<1>6. OnePerSitting(rows)
  BY ClosedRowsAre
<1>7. u \in DOMAIN open /\ open[u].dirty /\ open[u].heard >= MinSession =>
        \E row \in rows : row.id = open[u].id
  <2> SUFFICES ASSUME u \in DOMAIN open, open[u].dirty, open[u].heard >= MinSession
               PROVE  \E row \in rows : row.id = open[u].id
    OBVIOUS
  <2>1. RowOf(open[u]) \in rows
    BY ClosedRowsAre
  <2>2. RowOf(open[u]).id = open[u].id
    BY DEF RowOf
  <2> QED BY <2>1, <2>2
<1>8. u \in DOMAIN open => ~JustFlushed(open[u])
  <2> SUFFICES ASSUME u \in DOMAIN open, JustFlushed(open[u])
               PROVE  FALSE
    OBVIOUS
  <2>1. SittingTimed(open[u])
    BY OpenIsFolded
  <2>2. open[u].ended < at - 1
    BY <2>1, QuietIsOld
  <2> QED BY <1>1, <2>1, <2>2 DEF JustFlushed, SittingTimed
<1>9. ASSUME NEW v \in DOMAIN open, v # u
      PROVE  open'[v] = open[v] /\ open[v].id \in Int /\ open[v].id < serial
             /\ \A row \in rows : row.id # open[v].id
  <2>1. PICK f \in folded : Opens(open[v], v, f)
    BY DEF LogInv
  <2>2. open[v].id \in Int /\ open[v].id < serial
    BY <1>3, <2>1 DEF Opens
  <2>3. \A row \in rows : row.id # open[v].id
    BY <1>5, <1>9, OpenIsFolded
  <2> QED BY <1>9, <2>2, <2>3
<1>10. \A row : OnRecord(row) => row.id # serial
  <2> SUFFICES ASSUME NEW row, OnRecord(row)
               PROVE  row.id # serial
    OBVIOUS
  <2>1. PICK f \in folded : Writes(row, f)
    BY DEF LogInv
  <2> QED BY <1>1, <1>3, <2>1 DEF Writes
<1>11. LogInv'
  <2>1. \A h \in folded' : FoldShaped(h)'
    <3>1. FoldShaped(g)'
      BY <1>1 DEF FoldShaped
    <3>2. \A h \in folded : FoldShaped(h)'
      BY <1>1 DEF LogInv, FoldShaped
    <3> QED BY <1>4, <3>1, <3>2
  <2>2. \A h, k \in folded' : h.id = k.id => h = k
    BY <1>1, <1>3, <1>4 DEF LogInv
  <2>3. \A v \in DOMAIN open' : SittingTimed(open'[v]) /\ \E h \in folded' : Opens(open'[v], v, h)
    <3> SUFFICES ASSUME NEW v \in DOMAIN open'
                 PROVE  SittingTimed(open'[v]) /\ \E h \in folded' : Opens(open'[v], v, h)
      OBVIOUS
    <3>1. CASE v = u
      BY <1>2, <1>4, <3>1
    <3>2. CASE v # u
      BY <1>4, <1>9, <3>2 DEF LogInv
    <3> QED BY <3>1, <3>2
  <2>4. ASSUME NEW row, OnRecord(row)'
        PROVE  \E h \in folded' : Writes(row, h)
    <3>1. CASE OnRecord(row)
      BY <1>4, <3>1 DEF LogInv
    <3>2. CASE row \in rows
      BY <1>4, <1>5, <3>2
    <3> QED BY <2>4, <3>1, <3>2 DEF OnRecord, Hands
  <2>5. OnePerSitting(sweep') /\ \A x \in Requests : OnePerSitting(RowsOf(x)')
    BY <1>6 DEF LogInv, Hands
  <2> QED BY <2>1, <2>2, <2>3, <2>4, <2>5 DEF LogInv, SittingTimed, Opens, Writes, OnePerSitting
<1>12. PendInv'
  <2> SUFFICES ASSUME NEW v \in DOMAIN open'
               PROVE  /\ \A row \in sweep : row.id # open'[v].id
                      /\ \A x \in Requests : \A row \in RowsOf(x)' :
                            row.id = open'[v].id => JustFlushed(open'[v])
    BY DEF PendInv, JustFlushed
  <2>1. CASE v # u
    BY <1>9, <2>1 DEF PendInv, Hands
  <2>2. CASE v = u
    <3>1. y.id = serial
      BY <1>1, <1>2 DEF Opens
    <3>2. \A row \in rows : row.id # serial
      <4> SUFFICES ASSUME NEW row \in rows
                   PROVE  row.id # serial
        OBVIOUS
      <4>1. PICK f \in folded : Writes(row, f)
        BY <1>5
      <4> QED BY <1>1, <1>3, <4>1 DEF Writes
    <3> QED BY <1>10, <2>2, <3>1, <3>2 DEF OnRecord, Hands
  <2> QED BY <2>1, <2>2
<1>13. StoredInv'
  <2> SUFFICES ASSUME NEW h \in folded', Counted(h.user)', Settled(h)'
               PROVE  Stored(h)'
    BY DEF StoredInv
  <2>1. h \in folded
    <3>1. h # g
      BY <1>2 DEF Settled, Opens
    <3> QED BY <1>4, <3>1
  <2>2. Counted(h.user) /\ h.heard >= MinSession
    BY <2>1 DEF LogInv, FoldShaped, AllCounted, Settled
  <2>3. ASSUME NEW v \in DOMAIN open, v # u, open[v].id = h.id
        PROVE  ~open[v].dirty
    BY <1>9, <2>3 DEF Settled
  <2>4. CASE u \in DOMAIN open /\ open[u].id = h.id /\ open[u].dirty
    <3>1. Opens(open[u], u, h)
      BY <2>1, <2>4, OpenIsFolded
    <3>2. \A x \in Requests : \A row \in RowsOf(x) : row.id # h.id
      BY <1>8, <2>4 DEF PendInv
    <3>3. \A row \in sweep : row.id # h.id
      BY <2>4 DEF PendInv
    <3>4. \A row \in rows : row.heard = h.heard
      BY <1>5, <3>1 DEF Opens
    <3>5. \E row \in rows : row.id = h.id
      BY <1>7, <2>2, <2>4, <3>1 DEF Opens
    <3> QED BY <3>2, <3>3, <3>4, <3>5 DEF Stored, Hands
  <2>5. CASE ~(u \in DOMAIN open /\ open[u].id = h.id /\ open[u].dirty)
    <3>1. Stored(h)
      BY <2>1, <2>2, <2>3, <2>5 DEF StoredInv, Settled
    <3>2. \A row \in rows : row.id # h.id
      BY <1>5, <2>5
    <3> QED BY <3>1, <3>2 DEF Stored, Hands
  <2> QED BY <2>4, <2>5
<1> QED BY <1>11, <1>12, <1>13

\* A checkpoint is folded in.
LEMMA FoldKeeps ==
  ASSUME AccountInv, OpenInv, KeptInv, AllCounted, NEW r \in Requests, FoldIn(r)
  PROVE  LogInv' /\ PendInv' /\ StoredInv' /\ SameInv'
<1> DEFINE q == requests[r]
<1> PICK u, at, more : u = q.by /\ at = q.work.at /\ more = q.work.heard
  OBVIOUS
<1> PICK result : result = Recorded(open, u, at, more, serial)
  OBVIOUS
<1>1. q.op = "checkpoint" /\ q.at = "fold"
  <2>1. RequestShaped(q) /\ q.at = "fold"
    BY Zenon DEF AccountInv, Shaped, FoldIn
  <2> QED BY <2>1 DEF RequestShaped, Ops, Course
<1>2. /\ u \in Users /\ at \in Int /\ clock - 1 <= at /\ at <= clock /\ more \in Nat
      /\ TimesInv /\ LogInv /\ PendInv /\ StoredInv /\ SameInv
  BY <1>1 DEF KeptInv, TimesInv, CheckpointShaped, WorkShaped
<1>3. /\ open' = result.open
      /\ \/ /\ \A f \in folded : f.id # result.open[u].id
            /\ folded' = folded \cup {[id |-> result.open[u].id, user |-> u, heard |-> more]}
         \/ \E f \in folded : /\ f.id = result.open[u].id
                              /\ folded' = (folded \ {f}) \cup {[f EXCEPT !.heard = @ + more]}
      /\ serial' = serial + 1
      /\ Proceeds(r, [q.work EXCEPT !.rows = result.rows],
                  IF result.rows # {} THEN "rows" ELSE AfterFolding(q.work))
  BY Zenon DEF FoldIn
<1>4. UNCHANGED <<clock, history, sweep, cut>>
  BY DEF FoldIn
<1>5. /\ DOMAIN open' = DOMAIN open \cup {u}
      /\ \A v \in DOMAIN open : v # u => open'[v] = open[v]
  <2>1. /\ DOMAIN Recorded(open, u, at, more, serial).open = DOMAIN open \cup {u}
        /\ \A v \in DOMAIN open : v # u => Recorded(open, u, at, more, serial).open[v] = open[v]
    BY RecordedIsShaped
  <2> QED BY <1>3, <2>1
<1>6. Hands(r, result.rows)
  <2> PICK work, next : work = [q.work EXCEPT !.rows = result.rows]
                        /\ next = IF result.rows # {} THEN "rows" ELSE AfterFolding(q.work)
    OBVIOUS
  <2>1. Becomes(r, work, next)
    BY <1>1, <1>3, ProceedsBecomes
  <2>2. work.rows = result.rows
    <3>1. "rows" \in DOMAIN q.work
      BY <1>1 DEF AccountInv, Shaped, RequestShaped
    <3> QED BY <3>1
  <2>3. AfterFolding(q.work) \in {"complete", "done"}
    BY DEF AfterFolding
  <2>4. RowsOf(r) = {}
    BY <1>1 DEF RowsOf
  <2>5. \A x \in Requests : x # r => RowsOf(x)' = RowsOf(x)
    BY <2>1 DEF Becomes, RowsOf
  <2>6. RowsOf(r)' = result.rows
    <3>1. CASE result.rows # {}
      <4>1. requests'[r].at = "rows" /\ requests'[r].work = work
        BY <2>1, <3>1 DEF Becomes
      <4> QED BY <2>2, <4>1 DEF RowsOf
    <3>2. CASE result.rows = {}
      <4>1. requests'[r].at # "rows"
        BY <2>1, <2>3, <3>2, IdleRequest DEF Becomes
      <4> QED BY <3>2, <4>1 DEF RowsOf
    <3> QED BY <3>1, <3>2
  <2> QED BY <2>4, <2>5, <2>6 DEF Hands
<1>7. SameInv'
  BY <1>2, <1>4, SameStands
<1> HIDE DEF q
<1>8. CASE u \in DOMAIN open /\ Accepts(open[u], at)
  <2> PICK y : y = result.open[u]
    OBVIOUS
  <2>1. /\ Joined(open[u], y, at, more)
        /\ FlushedNow(open[u], y, at, result.rows) \/ FlushedLater(open[u], y, result.rows)
    BY <1>2, <1>8, JoinIs
  <2>2. PICK f \in folded : Opens(open[u], u, f)
    BY <1>2, <1>8, OpenIsFolded
  <2>3. y.id = f.id /\ \A h \in folded : h.id = f.id => h = f
    BY <1>2, <2>1, <2>2 DEF Opens, Joined, LogInv
  <2>4. folded' = (folded \ {f}) \cup {[f EXCEPT !.heard = @ + more]}
    BY <1>3, <2>3
  <2>5. open[u].user = u /\ DOMAIN open' = DOMAIN open
    BY <1>5, <1>8 DEF OpenInv, SittingShaped
  <2>6. LogInv' /\ PendInv' /\ StoredInv'
    BY <1>2, <1>3, <1>4, <1>5, <1>6, <1>8, <2>1, <2>2, <2>4, <2>5, JoinKeeps
  <2> QED BY <1>7, <2>6
<1>9. CASE ~(u \in DOMAIN open /\ Accepts(open[u], at))
  <2>1. /\ Begun(result.open[u], u, at, more, serial)
        /\ result.rows = ClosedRows(open, DOMAIN open \cap {u})
    <3>1. /\ Begun(Recorded(open, u, at, more, serial).open[u], u, at, more, serial)
          /\ Recorded(open, u, at, more, serial).rows = ClosedRows(open, DOMAIN open \cap {u})
      BY ONLY <1>9, BeginIs, ZenonT(30)
    <3> QED BY <3>1
  <2>2. \A h \in folded : h.id # serial
    BY <1>2 DEF LogInv, FoldShaped, AccountInv, Shaped
  <2>3. folded' = folded \cup {[id |-> serial, user |-> u, heard |-> more]}
    BY <1>3, <2>1, <2>2 DEF Begun
  <2>4. LogInv' /\ PendInv' /\ StoredInv'
    BY <1>2, <1>3, <1>4, <1>5, <1>6, <1>9, <2>1, <2>3, BeginKeeps
  <2> QED BY <1>7, <2>4
<1> QED BY <1>8, <1>9

--------------------------------------------------------------------------------
(* Every step keeps what is recorded.                                          *)

\* A step takes one number at most.
NumbersOn == serial' \in {serial, serial + 1}

\* The numbers of sittings only grow, by one at most.
LEMMA SerialGoesOn ==
  ASSUME AccountInv, AccountsStep
  PROVE  NumbersOn
<1>1. ASSUME NEW name, NEW address, SignInRefused(name, address)
      PROVE  NumbersOn
  BY <1>1 DEF NumbersOn, SignInRefused
<1>2. ASSUME NEW r \in Requests,
             \/ \E name, address, pw : SignIn(r, name, address, pw)
             \/ CheckPassword(r) \/ ClearCharge(r) \/ FinishSignIn(r) \/ CheckAgent(r)
             \/ WriteUsers(r) \/ WriteSessions(r) \/ PublishLinks(r) \/ WriteNewAgent(r)
             \/ RevokeAgents(r)
      PROVE  NumbersOn
  <2>1. ASSUME \/ \E name, address, pw : SignIn(r, name, address, pw)
               \/ WriteNewAgent(r)
        PROVE  NumbersOn
    BY <2>1 DEF NumbersOn, SignIn, WriteNewAgent
  <2>2. ASSUME \/ CheckPassword(r) \/ ClearCharge(r) \/ FinishSignIn(r) \/ CheckAgent(r)
               \/ PublishLinks(r) \/ RevokeAgents(r)
        PROVE  NumbersOn
    BY <2>2 DEF NumbersOn, CheckPassword, ClearCharge, FinishSignIn, CheckAgent, PublishLinks, RevokeAgents,
                accountVars
  <2>3. ASSUME WriteUsers(r)
        PROVE  NumbersOn
    BY <2>3 DEF NumbersOn, WriteUsers
  <2>4. ASSUME WriteSessions(r)
        PROVE  NumbersOn
    BY <2>4 DEF NumbersOn, WriteSessions
  <2> QED BY <1>2, <2>1, <2>2, <2>3, <2>4
<1>3. ASSUME NEW r \in Requests, NEW s \in sessions.mem, NEW u, NEW role,
             \/ AskNewPassword(r, s, u) \/ AskDeletion(r, s, u) \/ AskRole(r, s, u, role)
             \/ AskAccount(r, s, u, role) \/ AskAgent(r, s) \/ AskSignOut(r, s) \/ UseExpired(r, s)
      PROVE  NumbersOn
  BY <1>3 DEF NumbersOn, AskNewPassword, AskDeletion, AskRole, AskAccount, AskAgent, AskSignOut, UseExpired,
              accountVars
<1>4. ASSUME NEW s \in sessions.mem, NEW t \in agents.mem, RevokeAgent(s, t)
      PROVE  NumbersOn
  BY <1>4 DEF NumbersOn, RevokeAgent
<1> QED BY <1>1, <1>2, <1>3, <1>4 DEF AccountsStep

\* A step that leaves sittings and rows alone, or drops rows where it notes a fault.
LEMMA KeptStands ==
  ASSUME AccountInv, AccountInv', KeptInv, AllCounted, UNCHANGED <<folded, open, sweep>>,
         NumbersOn,
         \/ clock' = clock
         \/ clock' = clock + 1 /\ sweep = {} /\ \A r \in Requests : RowsOf(r) = {},
         \/ UNCHANGED history
         \/ /\ \E h : history' = Both(h)
            /\ history'.mem.rows = history.mem.rows,
         RowsDropped, cut \subseteq cut'
  PROVE  LogInv' /\ PendInv' /\ StoredInv' /\ SameInv'
<1>1. serial \in Nat /\ serial' \in Nat /\ serial' >= serial
  BY DEF AccountInv, Shaped, NumbersOn
<1>2. clock \in Int /\ LogInv /\ PendInv /\ StoredInv /\ SameInv
  BY DEF KeptInv, TimesInv
<1>3. history'.mem.rows = history.mem.rows /\ \A row \in history'.disk.rows : OnRecord(row)
  BY DEF Both, OnRecord
<1>4. LogInv' /\ PendInv' /\ StoredInv'
  BY <1>1, <1>2, <1>3, LogStands
<1> QED BY <1>2, <1>4, SameStands

\* A checkpoint's steps that write no rows.
LEMMA CheckpointKeeps ==
  ASSUME AccountInv, AccountInv', RecordShaped, KeptInv, AllCounted, NEW r \in Requests,
         \/ StorePlace(r) \/ AddActivity(r) \/ WriteCompletion(r) \/ LosesStatistic(r)
         \/ GivesUpListening(r)
  PROVE  LogInv' /\ PendInv' /\ StoredInv' /\ SameInv'
<1> DEFINE q == requests[r]
<1>1. /\ UNCHANGED <<folded, open, sweep, serial, clock>>
      /\ cut' = cut \/ cut' = cut \cup {q.by}
      /\ RowsOf(r) # {} => q.by \in cut'
  <2>1. ASSUME StorePlace(r) \/ AddActivity(r) \/ WriteCompletion(r)
        PROVE  /\ UNCHANGED <<folded, open, sweep, serial, clock, cut>>
               /\ RowsOf(r) = {}
    BY <2>1 DEF StorePlace, AddActivity, WriteCompletion, accountVars, recordVars, RowsOf
  <2>2. ASSUME LosesStatistic(r)
        PROVE  UNCHANGED <<folded, open, sweep, serial, clock>> /\ cut' = cut \cup {q.by}
    BY <2>2 DEF LosesStatistic, accountVars
  <2>3. ASSUME GivesUpListening(r)
        PROVE  /\ UNCHANGED <<folded, open, sweep, serial, clock>>
               /\ cut' = cut \/ cut' = cut \cup {q.by}
               /\ RowsOf(r) # {} => q.by \in cut'
    <3>1. /\ UNCHANGED <<folded, open, sweep, serial, clock>>
          /\ cut' = IF Recording(q) THEN cut \cup {q.by} ELSE cut
      BY <2>3 DEF GivesUpListening, GivesUp
    <3>2. RowsOf(r) # {} => Recording(q)
      BY RowsAreOwn DEF Recording
    <3> QED BY <3>1, <3>2
  <2> QED BY <2>1, <2>2, <2>3
<1>2. \/ UNCHANGED history
      \/ /\ \E h : history' = Both(h)
         /\ history'.mem.rows = history.mem.rows
  <2>1. ASSUME WriteCompletion(r)
        PROVE  /\ \E h : history' = Both(h)
               /\ history'.mem.rows = history.mem.rows
    BY <2>1 DEF WriteCompletion, WithCompletion, Both, RecordShaped
  <2> QED BY <2>1 DEF StorePlace, AddActivity, LosesStatistic, GivesUpListening, recordVars
<1>3. /\ \A x \in Requests : x # r => requests'[x] = requests[x]
      /\ RowsOf(r)' = {}
  <2>1. CASE GivesUpListening(r)
    <3>1. requests'[r] = Idle /\ \A x \in Requests : x # r => requests'[x] = requests[x]
      BY <2>1, OneRequest DEF GivesUpListening, GivesUp, Ends, AccountInv
    <3> QED BY <3>1, IdleRequest DEF RowsOf
  <2>2. ASSUME NEW work, NEW at, Becomes(r, work, at), at # "rows"
        PROVE  /\ \A x \in Requests : x # r => requests'[x] = requests[x]
               /\ RowsOf(r)' = {}
    BY <2>2, IdleRequest DEF Becomes, RowsOf
  <2>3. CASE StorePlace(r) \/ AddActivity(r) \/ WriteCompletion(r) \/ LosesStatistic(r)
    <3>1. q.op = "checkpoint"
      BY <2>3 DEF StorePlace, AddActivity, WriteCompletion, LosesStatistic, AccountInv, Shaped,
                  RequestShaped, Ops, Course
    <3>2. \E work, at : (Proceeds(r, work, at) \/ (Ends(r) /\ at = "done")) /\ at # "rows"
      <4>1. \A work : /\ AfterFolding(work) \in {"complete", "done"}
                      /\ AfterStoring(work) \in {"activity", "complete", "done"}
        BY DEF AfterFolding, AfterStoring
      <4>2. ASSUME StorePlace(r)
            PROVE  Ends(r) \/ \E work : Proceeds(r, work, AfterStoring(work))
        BY <4>2, Zenon DEF StorePlace
      <4>3. ASSUME LosesStatistic(r)
            PROVE  \E work, at : /\ Proceeds(r, work, at)
                                 /\ at \in {"fold", "done"} \/ at = AfterFolding(q.work)
        BY <4>3, Zenon DEF LosesStatistic
      <4>4. AddActivity(r) => Proceeds(r, q.work, "fold")
        BY DEF AddActivity
      <4>5. WriteCompletion(r) => Ends(r)
        BY DEF WriteCompletion
      <4> HIDE DEF q
      <4> QED BY <2>3, <4>1, <4>2, <4>3, <4>4, <4>5
    <3>3. ASSUME Ends(r)
          PROVE  Becomes(r, q.work, "done")
      BY <3>3, OneRequest DEF Ends, AccountInv, Becomes
    <3> QED BY <2>2, <3>1, <3>2, <3>3, ProceedsBecomes
  <2> QED BY <2>1, <2>3
<1>4. RowsDropped
  <2>1. \A row \in RowsOf(r) : row.user \in cut'
    BY <1>1, RowsAreOwn
  <2> QED BY <1>3, <2>1 DEF RowsDropped, RowsOf
<1>5. cut \subseteq cut'
  BY <1>1
<1>6. NumbersOn
  BY <1>1 DEF NumbersOn
<1> QED BY <1>1, <1>2, <1>4, <1>5, <1>6, KeptStands

\* Every step.
LEMMA KeptSteps ==
  ASSUME AccountInv, AccountInv', OpenInv, GoneInv, GoneInv', KeptInv, ListenersNext
  PROVE  KeptInv'
<1>0. RecordShaped /\ Frames /\ FollowAll
  BY NextFrames DEF GoneInv
<1>1. ASSUME AccountsStep \/ (\E r \in Requests : WritesOnlyDisk(r)), UNCHANGED listenVars
      PROVE  LogInv' /\ PendInv' /\ StoredInv' /\ SameInv'
  <2>1. /\ UNCHANGED <<folded, open, sweep, history, cut>>
        /\ AllCounted
    BY <1>0, <1>1, CountedShrinks DEF listenVars, recordVars
  <2>2. UNCHANGED clock /\ NumbersOn /\ AllUntouched
    <3>1. CASE AccountsStep
      BY <3>1, AccountsUntouched, SerialGoesOn
    <3>2. ASSUME NEW r \in Requests, WritesOnlyDisk(r)
          PROVE  UNCHANGED clock /\ NumbersOn /\ AllUntouched
      <4>1. UNCHANGED clock /\ serial' = serial + 1
        BY <3>2 DEF WritesOnlyDisk
      <4> QED BY <3>2, <4>1, OthersUntouched DEF NumbersOn
    <3> QED BY <1>1, <3>1, <3>2
  <2>3. RowsDropped
    BY <2>2, UntouchedRows DEF RowsDropped
  <2> QED BY <2>1, <2>2, <2>3, KeptStands
<1>2. ASSUME NEW r \in Requests, NEW s \in sessions.mem, NEW spot, NEW seek,
             AskCheckpoint(r, s, spot, seek)
      PROVE  LogInv' /\ PendInv' /\ StoredInv' /\ SameInv'
  <2>1. /\ UNCHANGED <<folded, open, sweep, history, cut, clock, serial>>
        /\ AllCounted
    BY <1>0, <1>2, CountedShrinks DEF AskCheckpoint, accountVars, listenVars, recordVars
  <2>2. RowsDropped
    BY <1>2, CheckpointBegins, IdleRequest DEF RowsDropped, RowsOf
  <2> QED BY <2>1, <2>2, KeptStands DEF NumbersOn
<1>3. ASSUME NEW r \in Requests,
             \/ StorePlace(r) \/ AddActivity(r) \/ WriteCompletion(r) \/ LosesStatistic(r)
             \/ GivesUpListening(r)
      PROVE  LogInv' /\ PendInv' /\ StoredInv' /\ SameInv'
  <2>1. cut \subseteq cut'
    BY <1>3 DEF StorePlace, AddActivity, WriteCompletion, LosesStatistic, GivesUpListening, recordVars
  <2> QED BY <1>0, <1>3, <2>1, CountedShrinks, CheckpointKeeps
<1>4. ASSUME NEW r \in Requests, FoldIn(r)
      PROVE  LogInv' /\ PendInv' /\ StoredInv' /\ SameInv'
  <2>1. cut \subseteq cut'
    BY <1>4 DEF FoldIn
  <2> QED BY <1>0, <1>4, <2>1, CountedShrinks, FoldKeeps
<1>5. ASSUME NEW r \in Requests, WriteRows(r)
      PROVE  LogInv' /\ PendInv' /\ StoredInv' /\ SameInv'
  <2>1. cut \subseteq cut'
    BY <1>5 DEF WriteRows
  <2> QED BY <1>0, <1>5, <2>1, CountedShrinks, WriteRowsKeeps
<1>6. ASSUME NEW r \in Requests, RecordsOnlyOnDisk(r)
      PROVE  LogInv' /\ PendInv' /\ StoredInv' /\ SameInv'
  <2>1. cut \subseteq cut'
    BY <1>6 DEF RecordsOnlyOnDisk
  <2> QED BY <1>0, <1>6, <2>1, CountedShrinks, DiskRecordKeeps
<1>7. ASSUME NEW r \in Requests, ForgetPart(r)
      PROVE  LogInv' /\ PendInv' /\ StoredInv' /\ SameInv'
  <2>1. cut \subseteq cut'
    BY <1>7 DEF ForgetPart
  <2> QED BY <1>0, <1>7, <2>1, CountedShrinks, ForgetKeeps
<1>8. ASSUME TakeQuiet \/ WriteQuiet
      PROVE  LogInv' /\ PendInv' /\ StoredInv' /\ SameInv'
  <2>1. cut \subseteq cut'
    BY <1>8 DEF TakeQuiet, WriteQuiet
  <2>2. AllCounted
    BY <1>0, <2>1, CountedShrinks
  <2> QED BY <1>0, <1>8, <2>2, TakeQuietKeeps, WriteQuietKeeps
<1>9. ASSUME Stop \/ PowerGoes
      PROVE  LogInv' /\ PendInv' /\ StoredInv' /\ SameInv'
  <2>1. cut \subseteq cut'
    BY <1>9 DEF Stop, PowerGoes
  <2>2. AllCounted
    BY <1>0, <2>1, CountedShrinks
  <2> QED BY <1>0, <1>9, <2>2, StopKeeps
<1>10. ASSUME Minute
      PROVE  LogInv' /\ PendInv' /\ StoredInv' /\ SameInv'
  <2>1. /\ UNCHANGED <<folded, open, history, cut, requests, serial, sweep>>
        /\ clock' = clock + 1 /\ sweep = {} /\ AllCounted
    BY <1>0, <1>10, CountedShrinks DEF Minute, Tick, accountVars, listenVars, recordVars
  <2>2. \A r \in Requests : RowsOf(r) = {} /\ RowsOf(r)' = {}
    <3>1. ASSUME NEW r \in Requests
          PROVE  RowsOf(r) = {}
      <4>1. requests[r].at # "rows"
        BY <1>10, RowsAreOwn DEF Minute, Recording, AccountInv, Shaped, RequestShaped, Ops, Course
      <4> QED BY <4>1 DEF RowsOf
    <3> QED BY <2>1, <3>1 DEF RowsOf
  <2>3. RowsDropped /\ NumbersOn
    BY <2>1, <2>2 DEF RowsDropped, NumbersOn
  <2> QED BY <2>1, <2>2, <2>3, KeptStands
<1>11. TimesInv'
  BY TimesSteps DEF KeptInv
<1>12. LogInv' /\ PendInv' /\ StoredInv' /\ SameInv'
  BY <1>1, <1>2, <1>3, <1>4, <1>5, <1>6, <1>7, <1>8, <1>9, <1>10 DEF ListenersNext
<1> QED BY <1>11, <1>12 DEF KeptInv

\* At first nothing is recorded.
LEMMA KeptAtFirst ==
  ASSUME ListenersInit
  PROVE  KeptInv
<1>1. /\ clock = 0 /\ open = NoSittings /\ folded = {} /\ sweep = {}
      /\ history = Both([rows |-> {}, done |-> Zero])
      /\ places = [u \in Users |-> IF u \in Readers THEN [spot |-> 0, at |-> 0] ELSE None]
      /\ requests = [r \in Requests |-> Idle]
  BY DEF ListenersInit, AccountsInit
<1>2. \A r \in Requests : RowsOf(r) = {} /\ requests[r].op # "checkpoint"
  BY <1>1, IdleRequest DEF RowsOf
<1>3. \A row : ~OnRecord(row)
  BY <1>1, <1>2 DEF OnRecord, Both
<1>4. TimesInv
  <2>1. \A u \in Users : PlaceShaped(places[u])
    BY <1>1, ListenersAssumption DEF PlaceShaped, ListenersAssumption
  <2> QED BY <1>1, <1>2, <2>1 DEF TimesInv
<1>5. LogInv /\ PendInv /\ StoredInv
  BY <1>1, <1>2, <1>3 DEF LogInv, PendInv, StoredInv, NoSittings, OnePerSitting
<1>6. SameInv
  BY <1>1 DEF SameInv, SameOnDisk, Both
<1> QED BY <1>4, <1>5, <1>6 DEF KeptInv

\* Whatever is recorded stays accounted for.
LEMMA RecordIsKept == ListenersSpec => []KeptInv
<1>1. ListenersInit => KeptInv
  BY KeptAtFirst
<1>2. /\ AccountInv /\ OpenInv /\ GoneInv /\ KeptInv /\ AccountInv' /\ GoneInv'
      /\ [ListenersNext]_allVars
      => KeptInv'
  <2> SUFFICES ASSUME AccountInv, OpenInv, GoneInv, KeptInv, AccountInv', GoneInv',
                      [ListenersNext]_allVars
               PROVE  KeptInv'
    OBVIOUS
  <2>1. CASE ListenersNext
    BY <2>1, KeptSteps
  <2>2. CASE UNCHANGED allVars
    <3>1. /\ UNCHANGED <<clock, users, requests, serial, used, lingering>>
          /\ UNCHANGED <<places, folded, open, sweep, history, cut>>
      BY <2>2 DEF allVars, vars, accountVars, listenVars, recordVars
    <3>2. AllCounted
      BY <3>1 DEF AllCounted, Counted, AccountLeft, IsCreating
    <3>3. RowsDropped /\ NumbersOn
      BY <3>1 DEF RowsDropped, RowsOf, NumbersOn
    <3>4. TimesInv'
      BY <3>1 DEF KeptInv, TimesInv, CheckpointShaped, WorkShaped, PlaceShaped
    <3>5. LogInv' /\ PendInv' /\ StoredInv' /\ SameInv'
      BY <3>1, <3>2, <3>3, KeptStands
    <3> QED BY <3>4, <3>5 DEF KeptInv
  <2> QED BY <2>1, <2>2
<1> QED BY <1>1, <1>2, AccountsAreSound, GoneStays, PTL DEF ListenersSpec

\* Whoever has an account and was spared by faults is counted.
LEMMA KnownAreCounted ==
  ASSUME AccountInv, NEW u \in Known \ cut
  PROVE  Counted(u)
BY DEF Counted, AccountLeft, Known, AccountInv, Shaped, TableShaped

\* While no fault has touched a listener's record, every sitting there was is
\* open with all that was folded into it, or closed and its latest revision on its
\* way to the history, or in the history exactly once and complete, unless it was
\* too short: whatever the order in which two devices' checkpoints, the flushes
\* of a sitting, the sweeper, a shutdown and a restart come.
THEOREM SittingsStayKept == ListenersSpec => []SittingsAreKept
<1>1. AccountInv /\ KeptInv => SittingsAreKept
  <2> SUFFICES ASSUME AccountInv, KeptInv, NEW u \in Known \ cut, NEW f \in folded, f.user = u
               PROVE  IsKept(f)
    BY DEF SittingsAreKept
  <2>1. LogInv /\ StoredInv /\ Counted(u)
    BY KnownAreCounted DEF KeptInv
  <2>2. \A row : row \in InHand <=> row \in sweep \/ \E r \in Requests : row \in RowsOf(r)
    BY DEF InHand, RowsOf
  <2>3. CASE \E v \in DOMAIN open : open[v].id = f.id
    BY <2>1, <2>3, OpenIsFolded DEF Opens, IsKept
  <2>4. CASE \A v \in DOMAIN open : open[v].id # f.id
    <3> DEFINE found == {row \in InHand : row.id = f.id}
               rows == {row \in history.mem.rows : row.id = f.id}
    <3>1. CASE f.heard < MinSession
      <4>1. f.heard \in Nat /\ MinSession \in Nat
        BY <2>1, ReadingLogAssumption DEF LogInv, FoldShaped, ReadingLogAssumption
      <4>2. ASSUME NEW row, OnRecord(row), row.id = f.id
            PROVE  FALSE
        <5>1. PICK g \in folded : Writes(row, g)
          BY <2>1, <4>2 DEF LogInv
        <5>2. g = f
          BY <2>1, <4>2, <5>1 DEF LogInv, Writes
        <5> QED BY <3>1, <4>1, <5>1, <5>2 DEF Writes
      <4>3. found \cup rows = {}
        BY <2>2, <4>2 DEF OnRecord
      <4> QED BY <2>4, <3>1, <4>3 DEF IsKept
    <3>2. CASE ~(f.heard < MinSession)
      <4>1. f.heard >= MinSession
        BY <2>1, <3>2, ReadingLogAssumption DEF LogInv, FoldShaped, ReadingLogAssumption
      <4>2. Stored(f)
        BY <2>1, <2>4, <4>1 DEF StoredInv, Settled
      <4>3. \A row \in found : row.heard = f.heard
        BY <2>2, <4>2 DEF Stored
      <4>4. CASE found = {}
        <5>1. PICK row \in history.mem.rows : /\ row.id = f.id /\ row.heard = f.heard
                                              /\ \A x \in history.mem.rows : x.id = f.id => x = row
          BY <2>2, <4>2, <4>4 DEF Stored
        <5>2. rows = {row}
          BY <5>1
        <5>3. Cardinality(rows) = 1 /\ \A x \in rows : x.heard = f.heard
          BY <5>1, <5>2, FS_Singleton
        <5> QED BY <2>4, <3>2, <4>4, <5>3 DEF IsKept
      <4>5. CASE found # {}
        BY <2>4, <3>2, <4>3, <4>5 DEF IsKept
      <4> QED BY <4>4, <4>5
    <3> QED BY <3>1, <3>2
  <2> QED BY <2>3, <2>4
<1> QED BY <1>1, AccountsAreSound, RecordIsKept, PTL

--------------------------------------------------------------------------------
(* Completions.                                                                *)

\* A request that has stored the end of the book and not counted it yet.
IsFinishing(q, u) == q.by = u /\ q.op = "checkpoint" /\ q.at # "store" /\ q.work.finished

\* The requests about to count a finish, by what each of them is.
LEMMA FinishingIs ==
  ASSUME NEW u, NEW r
  PROVE  /\ r \in Finishing(u) <=> r \in Requests /\ IsFinishing(requests[r], u)
         /\ r \in Finishing(u)' <=> r \in Requests /\ IsFinishing(requests[r], u)'
BY DEF Finishing, IsFinishing

\* Nobody comes to have finished, and nobody's finish is lost but where a fault is noted.
FinishingStands ==
  \A u \in Users : /\ Finishing(u)' \subseteq Finishing(u)
                   /\ u \notin cut' => Finishing(u)' = Finishing(u)
DoneStands ==
  \A u \in Users : /\ history'.mem.done[u] \in Nat /\ history'.disk.done[u] \in Nat
                   /\ Counted(u)' => history'.mem.done[u] = history.mem.done[u]

\* A step that counts no finish, and has none to count, keeps the count.
LEMMA CompletionsStand ==
  ASSUME DoneInv, AllCounted, FinishingStands, DoneStands, UNCHANGED finishes
  PROVE  DoneInv'
<1>1. \A u \in Users : IsFiniteSet(Finishing(u)')
  BY FS_Subset DEF DoneInv, FinishingStands
<1>2. ASSUME NEW u \in Users, Counted(u)'
      PROVE  history'.mem.done[u] + Cardinality(Finishing(u)') = finishes[u]
  <2>1. Counted(u) /\ Finishing(u)' = Finishing(u) /\ history'.mem.done[u] = history.mem.done[u]
    BY <1>2 DEF AllCounted, FinishingStands, DoneStands, Counted
  <2> QED BY <2>1 DEF DoneInv
<1> QED BY <1>1, <1>2 DEF DoneInv, DoneStands

\* One request changes, and is finishing afterwards if it was before.
LEMMA OneStillFinishes ==
  ASSUME NEW r \in Requests, \A x \in Requests : x # r => requests'[x] = requests[x],
         \A u \in Users : IsFinishing(requests[r], u)' => IsFinishing(requests[r], u),
         \A u \in Users : u \notin cut' /\ IsFinishing(requests[r], u) => IsFinishing(requests[r], u)'
  PROVE  FinishingStands
<1> SUFFICES ASSUME NEW u \in Users
             PROVE  /\ Finishing(u)' \subseteq Finishing(u)
                    /\ u \notin cut' => Finishing(u)' = Finishing(u)
  BY DEF FinishingStands
<1>1. \A x \in Requests : x # r => (IsFinishing(requests[x], u)' <=> IsFinishing(requests[x], u))
  BY DEF IsFinishing
<1> QED BY <1>1, FinishingIs

\* Requests that no step moved have the finishes to count that they had.
LEMMA UntouchedFinish ==
  ASSUME AllUntouched
  PROVE  FinishingStands
<1>1. \A u, x : x \in Requests => (IsFinishing(requests[x], u)' <=> IsFinishing(requests[x], u))
  BY DEF AllUntouched, Untouched, IsFinishing
<1> QED BY <1>1, FinishingIs DEF FinishingStands

\* Storing the place.
LEMMA StoringFinishes ==
  ASSUME AccountInv, TimesInv, DoneInv, AllCounted, NEW r \in Requests, StorePlace(r)
  PROVE  DoneInv'
<1> DEFINE q == requests[r]
<1>1. /\ q.op = "checkpoint" /\ q.at = "store" /\ q.by \in Users /\ q.work.spot \in 0 .. BookEnd
      /\ DOMAIN q.work = {"spot", "seek", "at", "heard", "finished", "rows"}
  <2>1. q.at = "store" /\ RequestShaped(q)
    BY DEF StorePlace, AccountInv, Shaped
  <2>2. q.op = "checkpoint" /\ DOMAIN q.work = {"spot", "seek", "at", "heard", "finished", "rows"}
    BY <2>1 DEF RequestShaped, Ops, Course
  <2> QED BY <2>1, <2>2 DEF TimesInv, CheckpointShaped
<1>2. UNCHANGED <<history, cut>>
  BY DEF StorePlace, recordVars
<1>3. DoneStands
  BY <1>2 DEF DoneStands, DoneInv
<1>4. CASE Ends(r) /\ UNCHANGED finishes
  <2>1. requests'[r] = Idle /\ \A x \in Requests : x # r => requests'[x] = requests[x]
    BY <1>4, OneRequest DEF Ends, AccountInv
  <2>2. \A u : ~IsFinishing(requests[r], u) /\ ~IsFinishing(requests[r], u)'
    BY <1>1, <2>1, IdleRequest DEF IsFinishing
  <2>3. FinishingStands
    BY <2>1, <2>2, OneStillFinishes
  <2> QED BY <1>3, <1>4, <2>3, CompletionsStand
<1>5. CASE ~(Ends(r) /\ UNCHANGED finishes)
  <2> PICK delta : delta = Plausible(places[q.by], q.work.spot, q.work.seek, clock)
    OBVIOUS
  <2> PICK yes : yes = Finishes(places[q.by], q.work.spot)
    OBVIOUS
  <2> DEFINE work == [q.work EXCEPT !.at = clock, !.heard = delta, !.finished = yes]
  <2>1. /\ Proceeds(r, work, AfterStoring(work))
        /\ finishes' = IF /\ q.work.spot = BookEnd
                          /\ places[q.by] # None => places[q.by].spot < BookEnd
                       THEN [finishes EXCEPT ![q.by] = @ + 1] ELSE finishes
    BY <1>5, Zenon DEF StorePlace
  <2>2. work.finished = yes
    BY <1>1
  <2> HIDE DEF work
  <2>3. Becomes(r, work, AfterStoring(work))
    BY <1>1, <2>1, ProceedsBecomes
  <2>4. finishes' = IF yes THEN [finishes EXCEPT ![q.by] = @ + 1] ELSE finishes
    <3>1. PlaceShaped(places[q.by]) /\ BookEnd \in Nat
      BY <1>1, ListenersAssumption DEF TimesInv, ListenersAssumption
    <3>2. places[q.by] # None => (places[q.by].spot < BookEnd <=> places[q.by].spot # BookEnd)
      BY <3>1 DEF PlaceShaped
    <3>3. yes <=> /\ q.work.spot = BookEnd
                  /\ places[q.by] # None => places[q.by].spot < BookEnd
      BY <3>2 DEF Finishes
    <3> QED BY <2>1, <3>3
  <2>5. \A x \in Requests : x # r => requests'[x] = requests[x]
    BY <2>3 DEF Becomes
  <2>6. \A u : ~IsFinishing(requests[r], u)
    BY <1>1 DEF IsFinishing
  <2>7. CASE yes
    <3>1. AfterStoring(work) \in {"activity", "complete"}
      BY <2>2, <2>7 DEF AfterStoring, AfterFolding
    <3> PICK v : v = q.by
      OBVIOUS
    <3>2. \A u : IsFinishing(requests[r], u)' <=> u = v
      BY <2>2, <2>3, <2>7, <3>1 DEF Becomes, IsFinishing
    <3>3. \A u : \A x \in Requests : x # r => (IsFinishing(requests[x], u)' <=> IsFinishing(requests[x], u))
      BY <2>5 DEF IsFinishing
    <3> HIDE DEF q
    <3>4. ASSUME NEW u \in Users, u # v
          PROVE  Finishing(u)' = Finishing(u)
      <4>1. \A x : x \in Finishing(u)' <=> x \in Finishing(u)
        BY <2>6, <3>2, <3>3, <3>4, FinishingIs DEF q
      <4>2. Finishing(u)' \subseteq Requests /\ Finishing(u) \subseteq Requests
        BY DEF Finishing
      <4> QED BY <4>1, <4>2
    <3>5. r \notin Finishing(v) /\ Finishing(v)' = Finishing(v) \cup {r}
      <4>1. \A x : x \in Finishing(v)' <=> x \in Finishing(v) \/ x = r
        BY <2>6, <3>2, <3>3, FinishingIs DEF q
      <4>2. r \notin Finishing(v)
        BY <2>6, FinishingIs
      <4>3. Finishing(v)' = Finishing(v) \cup {r}
        BY <4>1
      <4> QED BY <4>2, <4>3
    <3>6. IsFiniteSet(Finishing(v)) /\ DOMAIN finishes = Users /\ v \in Users
      BY <1>1 DEF DoneInv, q
    <3>7. /\ IsFiniteSet(Finishing(v)')
          /\ Cardinality(Finishing(v)') = Cardinality(Finishing(v)) + 1
          /\ Cardinality(Finishing(v)) \in Nat
      BY <3>5, <3>6, FS_AddElement, FS_CardinalityType
    <3>8. /\ DOMAIN finishes' = Users
          /\ \A u \in Users : finishes'[u] = IF u = v THEN finishes[u] + 1 ELSE finishes[u]
      BY <2>4, <2>7, <3>6
    <3>9. ASSUME NEW u \in Users, Counted(u)'
          PROVE  history'.mem.done[u] + Cardinality(Finishing(u)') = finishes'[u]
      <4>1. Counted(u)
        BY <3>9 DEF AllCounted
      <4>2. history.mem.done[u] + Cardinality(Finishing(u)) = finishes[u] /\ history.mem.done[u] \in Nat
        BY <4>1 DEF DoneInv
      <4>3. CASE u = v
        <5>1. /\ Cardinality(Finishing(u)') = Cardinality(Finishing(u)) + 1
              /\ Cardinality(Finishing(u)) \in Nat /\ finishes'[u] = finishes[u] + 1
          BY <3>7, <3>8, <4>3
        <5> QED BY <1>2, <4>2, <5>1
      <4>4. CASE u # v
        BY <1>2, <3>4, <3>8, <4>2, <4>4
      <4> QED BY <4>3, <4>4
    <3>10. ASSUME NEW u \in Users
           PROVE  IsFiniteSet(Finishing(u)')
      BY <3>4, <3>7 DEF DoneInv
    <3> QED BY <1>3, <3>8, <3>9, <3>10 DEF DoneInv, DoneStands
  <2>8. CASE ~yes
    <3>1. \A u : ~IsFinishing(requests[r], u)'
      BY <2>2, <2>3, <2>8, IdleRequest DEF Becomes, IsFinishing
    <3>2. FinishingStands
      BY <2>5, <2>6, <3>1, OneStillFinishes
    <3>3. UNCHANGED finishes
      BY <2>4, <2>8
    <3> QED BY <1>3, <3>2, <3>3, CompletionsStand
  <2> QED BY <2>7, <2>8
<1> QED BY <1>4, <1>5

\* A checkpoint that goes on carries its finish along.
LEMMA CarryingFinishes ==
  ASSUME AccountInv, NEW r \in Requests, AddActivity(r) \/ FoldIn(r) \/ WriteRows(r)
  PROVE  FinishingStands
<1> DEFINE q == requests[r]
<1>1. /\ q.op = "checkpoint" /\ q.at # "store"
      /\ DOMAIN q.work = {"spot", "seek", "at", "heard", "finished", "rows"}
  <2>1. q.at \in {"activity", "fold", "rows"} /\ RequestShaped(q)
    BY DEF AddActivity, FoldIn, WriteRows, AccountInv, Shaped
  <2> QED BY <2>1 DEF RequestShaped, Ops, Course
<1>2. \E work, at : /\ Proceeds(r, work, at) /\ work.finished = q.work.finished
                    /\ at \in {"fold", "rows"} \/ at = AfterFolding(work)
  <2>1. \A rows : LET work == [q.work EXCEPT !.rows = rows] IN
          work.finished = q.work.finished /\ AfterFolding(work) = AfterFolding(q.work)
    BY <1>1 DEF AfterFolding
  <2>2. AddActivity(r) => Proceeds(r, q.work, "fold")
    BY DEF AddActivity
  <2>3. WriteRows(r) => Proceeds(r, [q.work EXCEPT !.rows = {}], AfterFolding(q.work))
    BY DEF WriteRows
  <2>4. ASSUME FoldIn(r)
        PROVE  \E rows : \/ Proceeds(r, [q.work EXCEPT !.rows = rows], "rows")
                         \/ Proceeds(r, [q.work EXCEPT !.rows = rows], AfterFolding(q.work))
    <3> PICK result : result = Recorded(open, q.by, q.work.at, q.work.heard, serial)
      OBVIOUS
    <3>1. Proceeds(r, [q.work EXCEPT !.rows = result.rows],
                   IF result.rows # {} THEN "rows" ELSE AfterFolding(q.work))
      BY <2>4 DEF FoldIn
    <3> HIDE DEF q
    <3> QED BY <3>1
  <2>5. ASSUME NEW rows, NEW at, Proceeds(r, [q.work EXCEPT !.rows = rows], at),
               at = "rows" \/ at = AfterFolding(q.work)
        PROVE  \E work, to : /\ Proceeds(r, work, to) /\ work.finished = q.work.finished
                             /\ to \in {"fold", "rows"} \/ to = AfterFolding(work)
    <3> DEFINE work == [q.work EXCEPT !.rows = rows]
    <3>1. work.finished = q.work.finished /\ AfterFolding(work) = AfterFolding(q.work)
      BY <2>1
    <3> HIDE DEF work, q
    <3>2. Proceeds(r, work, at)
      BY <2>5 DEF work
    <3> QED BY <2>5, <3>1, <3>2
  <2> HIDE DEF q
  <2>6. CASE AddActivity(r)
    BY <2>2, <2>6
  <2>7. CASE WriteRows(r)
    BY <2>3, <2>5, <2>7
  <2>8. CASE FoldIn(r)
    BY <2>4, <2>5, <2>8
  <2> QED BY <2>6, <2>7, <2>8
<1>3. PICK work, at : /\ Becomes(r, work, at) /\ work.finished = q.work.finished
                      /\ at \in {"fold", "rows"} \/ at = AfterFolding(work)
  BY <1>1, <1>2, ProceedsBecomes
<1>4. at # "store" /\ (at = "done" => ~work.finished)
  BY <1>3 DEF AfterFolding
<1>5. \A x \in Requests : x # r => requests'[x] = requests[x]
  BY <1>3 DEF Becomes
<1>6. \A u : IsFinishing(requests[r], u)' <=> IsFinishing(requests[r], u)
  <2>1. CASE at = "done"
    BY <1>3, <1>4, <2>1, IdleRequest DEF Becomes, IsFinishing
  <2>2. CASE at # "done"
    BY <1>1, <1>3, <1>4, <2>2 DEF Becomes, IsFinishing
  <2> QED BY <2>1, <2>2
<1> QED BY <1>5, <1>6, OneStillFinishes

\* Faults are noted.
LEMMA FaultsFinish ==
  ASSUME AccountInv, NEW r \in Requests,
         LosesStatistic(r) \/ GivesUpListening(r) \/ RecordsOnlyOnDisk(r)
  PROVE  FinishingStands
<1> DEFINE q == requests[r]
<1>1. Recording(q) => q.by \in cut'
  BY DEF LosesStatistic, GivesUpListening, RecordsOnlyOnDisk
<1>2. \A u : IsFinishing(q, u) => u = q.by /\ Recording(q)
  BY DEF IsFinishing, Recording
<1>3. CASE GivesUpListening(r) \/ RecordsOnlyOnDisk(r)
  <2>1. requests'[r] = Idle /\ \A x \in Requests : x # r => requests'[x] = requests[x]
    BY <1>3, OneRequest DEF GivesUpListening, GivesUp, RecordsOnlyOnDisk, Ends, AccountInv
  <2>2. \A u : ~IsFinishing(requests[r], u)'
    BY <2>1, IdleRequest DEF IsFinishing
  <2> QED BY <1>1, <1>2, <2>1, <2>2, OneStillFinishes
<1>4. CASE LosesStatistic(r)
  <2>1. /\ q.op = "checkpoint" /\ q.at # "store"
    BY <1>4, CheckpointSteps
  <2>2. PICK work, at : SameWork(q.work, work) /\ Becomes(r, work, at)
    BY <1>4, CheckpointSteps
  <2>3. \A x \in Requests : x # r => requests'[x] = requests[x]
    BY <2>2 DEF Becomes
  <2>4. \A u : IsFinishing(requests[r], u)' => IsFinishing(requests[r], u)
    BY <2>1, <2>2, IdleRequest DEF Becomes, SameWork, IsFinishing
  <2> QED BY <1>1, <1>2, <2>3, <2>4, OneStillFinishes
<1> QED BY <1>3, <1>4

\* A completion is written.
LEMMA CountingFinishes ==
  ASSUME AccountInv, RecordShaped, TimesInv, DoneInv, AllCounted, NEW r \in Requests, WriteCompletion(r)
  PROVE  DoneInv'
<1> PICK v : v = requests[r].by
  OBVIOUS
<1>1. requests[r].op = "checkpoint" /\ requests[r].at = "complete"
  <2>1. requests[r].at = "complete" /\ RequestShaped(requests[r])
    BY DEF WriteCompletion, AccountInv, Shaped
  <2> QED BY <2>1 DEF RequestShaped, Ops, Course
<1>2. v \in Users /\ requests[r].work.finished
  BY <1>1 DEF TimesInv, CheckpointShaped
<1>3. requests'[r] = Idle /\ \A x \in Requests : x # r => requests'[x] = requests[x]
  BY OneRequest DEF WriteCompletion, Ends, AccountInv
<1>4. /\ history'.mem.done = [history.mem.done EXCEPT ![v] = @ + 1]
      /\ history'.disk.done = [history.mem.done EXCEPT ![v] = @ + 1]
      /\ UNCHANGED <<finishes, cut>>
  BY DEF WriteCompletion, WithCompletion, Both, RecordShaped
<1>5. \A u, x : /\ x \in Finishing(u)' => x \in Finishing(u)
                /\ x \in Finishing(u) /\ x # r => x \in Finishing(u)'
                /\ x = r => x \notin Finishing(u)' /\ (x \in Finishing(u) <=> u = v)
  <2>1. \A u : ~IsFinishing(requests[r], u)' /\ (IsFinishing(requests[r], u) <=> u = v)
    BY <1>1, <1>2, <1>3, IdleRequest DEF IsFinishing
  <2>2. \A u : \A x \in Requests : x # r => (IsFinishing(requests[x], u)' <=> IsFinishing(requests[x], u))
    BY <1>3 DEF IsFinishing
  <2> QED BY <2>1, <2>2, FinishingIs
<1>6. \A u \in Users : u # v => Finishing(u)' = Finishing(u)
  BY <1>5
<1>7. Finishing(v)' = Finishing(v) \ {r} /\ r \in Finishing(v)
  BY <1>5
<1>8. /\ IsFiniteSet(Finishing(v)) /\ Cardinality(Finishing(v)) \in Nat
      /\ IsFiniteSet(Finishing(v)')
      /\ Cardinality(Finishing(v)') = Cardinality(Finishing(v)) - 1
  <2>1. IsFiniteSet(Finishing(v))
    BY <1>2 DEF DoneInv
  <2> QED BY <1>7, <2>1, FS_RemoveElement, FS_CardinalityType
<1>9. \A u \in Users : history.mem.done[u] \in Nat /\ history.disk.done[u] \in Nat
  BY DEF DoneInv
<1>10. \A u \in Users :
          /\ history'.mem.done[u] = IF u = v THEN history.mem.done[u] + 1 ELSE history.mem.done[u]
          /\ history'.disk.done[u] = IF u = v THEN history.mem.done[u] + 1 ELSE history.mem.done[u]
  BY <1>4 DEF RecordShaped
<1>11. \A u \in Users : history'.mem.done[u] \in Nat /\ history'.disk.done[u] \in Nat
  BY <1>9, <1>10
<1>12. ASSUME NEW u \in Users
       PROVE  IsFiniteSet(Finishing(u)')
  BY <1>6, <1>8 DEF DoneInv
<1>13. ASSUME NEW u \in Users, Counted(u)'
       PROVE  history'.mem.done[u] + Cardinality(Finishing(u)') = finishes[u]
  <2>1. history.mem.done[u] + Cardinality(Finishing(u)) = finishes[u]
    BY <1>13 DEF AllCounted, DoneInv
  <2>2. CASE u = v
    BY <1>8, <1>9, <1>10, <2>1, <2>2
  <2>3. CASE u # v
    BY <1>6, <1>10, <2>1, <2>3
  <2> QED BY <2>2, <2>3
<1> QED BY <1>4, <1>11, <1>12, <1>13 DEF DoneInv

\* A stop, and a loss of power.
LEMMA RestartFinishes ==
  ASSUME AccountInv, RecordShaped, SameInv, DoneInv, AllCounted, Stop \/ PowerGoes
  PROVE  DoneInv'
<1>1. /\ \A r \in Requests : requests'[r] = Idle
      /\ UNCHANGED finishes /\ cut \subseteq cut'
      /\ history' = Both(history.disk) \/ \E rows : history' = Both(WithRows(rows))
  BY DEF Stop, PowerGoes, Crash, RestartAccounts
<1>2. ASSUME NEW u \in Users
      PROVE  /\ Finishing(u)' = {}
             /\ u \notin cut' => Finishing(u) = {}
  <2>1. Finishing(u)' = {}
    BY <1>1, IdleRequest DEF Finishing
  <2>2. CASE Stop
    BY <2>1, <2>2, IdleRequest DEF Stop, Finishing
  <2>3. CASE PowerGoes
    <3>1. cut' = cut \cup {x \in DOMAIN open : open[x].dirty}
                     \cup {row.user : row \in sweep}
                     \cup {requests[r].by : r \in {x \in Requests : Recording(requests[x])}}
      BY <2>3 DEF PowerGoes
    <3>2. \A r \in Finishing(u) : r \in Requests /\ Recording(requests[r]) /\ requests[r].by = u
      BY DEF Finishing, Recording
    <3>3. \A r \in Finishing(u) : u \in cut'
      BY <3>1, <3>2
    <3> QED BY <2>1, <3>3
  <2> QED BY <2>2, <2>3
<1>3. FinishingStands
  BY <1>2 DEF FinishingStands
<1>4. \/ history'.mem.done = history.disk.done /\ history'.disk.done = history.disk.done
      \/ history'.mem.done = history.mem.done /\ history'.disk.done = history.mem.done
  <2>1. \A rows : WithRows(rows).done = history.mem.done
    BY DEF WithRows, RecordShaped
  <2> QED BY <1>1, <2>1 DEF Both
<1>5. DoneStands
  <2>1. \A u \in Users \ cut : history.disk.done[u] = history.mem.done[u]
    BY DEF SameInv, SameOnDisk
  <2>2. \A u \in Users : Counted(u)' => u \in Users \ cut
    BY <1>1 DEF Counted
  <2> QED BY <1>4, <2>1, <2>2 DEF DoneStands, DoneInv
<1> QED BY <1>1, <1>3, <1>5, CompletionsStand

\* Every step.
LEMMA DoneSteps ==
  ASSUME AccountInv, AccountInv', OpenInv, GoneInv, GoneInv', KeptInv, DoneInv, ListenersNext
  PROVE  DoneInv'
<1>0. /\ RecordShaped /\ Frames /\ FollowAll /\ TimesInv /\ SameInv
      /\ cut \subseteq cut' => AllCounted
  BY NextFrames, CountedShrinks DEF GoneInv, KeptInv
<1>1. ASSUME UNCHANGED history
      PROVE  DoneStands
  BY <1>1 DEF DoneInv, DoneStands
<1>2. ASSUME AccountsStep \/ (\E r \in Requests : WritesOnlyDisk(r)), UNCHANGED listenVars
      PROVE  DoneInv'
  <2>1. UNCHANGED <<history, finishes, cut>>
    BY <1>2 DEF listenVars, recordVars
  <2>2. AllUntouched
    BY <1>2, AccountsUntouched, OthersUntouched
  <2> QED BY <1>0, <1>1, <2>1, <2>2, UntouchedFinish, CompletionsStand
<1>3. ASSUME NEW r \in Requests, NEW s \in sessions.mem, NEW spot, NEW seek,
             AskCheckpoint(r, s, spot, seek)
      PROVE  DoneInv'
  <2>1. UNCHANGED <<history, finishes, cut>>
    BY <1>3 DEF AskCheckpoint, listenVars, recordVars
  <2>2. FinishingStands
    <3>1. /\ \A x \in Requests : x # r => requests'[x] = requests[x]
          /\ requests[r] = Idle /\ requests'[r].at = "store"
      BY <1>3, CheckpointBegins
    <3>2. \A u : ~IsFinishing(requests[r], u) /\ ~IsFinishing(requests[r], u)'
      BY <3>1, IdleRequest DEF IsFinishing
    <3> QED BY <3>1, <3>2, OneStillFinishes
  <2> QED BY <1>0, <1>1, <2>1, <2>2, CompletionsStand
<1>4. ASSUME NEW r \in Requests, StorePlace(r)
      PROVE  DoneInv'
  <2>1. cut \subseteq cut'
    BY <1>4 DEF StorePlace, recordVars
  <2> QED BY <1>0, <1>4, <2>1, StoringFinishes
<1>5. ASSUME NEW r \in Requests, AddActivity(r) \/ FoldIn(r) \/ WriteRows(r)
      PROVE  DoneInv'
  <2>1. UNCHANGED <<finishes, cut>>
    BY <1>5 DEF AddActivity, FoldIn, WriteRows
  <2>2. \/ UNCHANGED history
        \/ \E rows : history' = Both(WithRows(rows))
    BY <1>5 DEF AddActivity, FoldIn, WriteRows
  <2>3. DoneStands
    <3>1. \A rows : WithRows(rows).done = history.mem.done
      BY <1>0 DEF WithRows, RecordShaped
    <3> QED BY <1>1, <2>2, <3>1 DEF Both, DoneStands, DoneInv
  <2>4. FinishingStands
    BY <1>5, CarryingFinishes
  <2> QED BY <1>0, <2>1, <2>3, <2>4, CompletionsStand
<1>6. ASSUME NEW r \in Requests, WriteCompletion(r)
      PROVE  DoneInv'
  <2>1. cut \subseteq cut'
    BY <1>6 DEF WriteCompletion
  <2> QED BY <1>0, <1>6, <2>1, CountingFinishes
<1>7. ASSUME NEW r \in Requests, LosesStatistic(r) \/ GivesUpListening(r) \/ RecordsOnlyOnDisk(r)
      PROVE  DoneInv'
  <2>1. UNCHANGED finishes /\ cut \subseteq cut'
    BY <1>7 DEF LosesStatistic, GivesUpListening, RecordsOnlyOnDisk
  <2>2. DoneStands
    <3>1. CASE LosesStatistic(r) \/ GivesUpListening(r)
      BY <1>1, <3>1 DEF LosesStatistic, GivesUpListening
    <3>2. CASE RecordsOnlyOnDisk(r)
      <4>1. \/ UNCHANGED history
            \/ \E rows : history' = OnDisk(history, WithRows(rows))
            \/ \E u : history' = OnDisk(history, WithCompletion(u))
        BY <3>2 DEF RecordsOnlyOnDisk
      <4>2. /\ \A rows : WithRows(rows).done = history.mem.done
            /\ \A u : WithCompletion(u).done = [history.mem.done EXCEPT ![u] = @ + 1]
        BY <1>0 DEF WithRows, WithCompletion, RecordShaped
      <4>3. /\ history'.mem = history.mem
            /\ \/ history'.disk.done = history.disk.done
               \/ history'.disk.done = history.mem.done
               \/ \E u : history'.disk.done = [history.mem.done EXCEPT ![u] = @ + 1]
        <5>1. \A h : OnDisk(history, h).mem = history.mem /\ OnDisk(history, h).disk = h
          BY <1>0 DEF OnDisk, RecordShaped
        <5>2. CASE UNCHANGED history
          BY <5>2
        <5>3. ASSUME NEW rows, history' = OnDisk(history, WithRows(rows))
              PROVE  history'.mem = history.mem /\ history'.disk.done = history.mem.done
          BY <4>2, <5>1, <5>3
        <5>4. ASSUME NEW u, history' = OnDisk(history, WithCompletion(u))
              PROVE  /\ history'.mem = history.mem
                     /\ history'.disk.done = [history.mem.done EXCEPT ![u] = @ + 1]
          BY <4>2, <5>1, <5>4
        <5> QED BY <4>1, <5>2, <5>3, <5>4
      <4>4. \A u \in Users : history.mem.done[u] \in Nat /\ history.disk.done[u] \in Nat
        BY DEF DoneInv
      <4>5. ASSUME NEW u \in Users
            PROVE  history'.disk.done[u] \in Nat
        <5>1. ASSUME NEW v, history'.disk.done = [history.mem.done EXCEPT ![v] = @ + 1]
              PROVE  history'.disk.done[u] \in Nat
          <6>1. u \in DOMAIN history.mem.done
            BY <1>0 DEF RecordShaped
          <6>2. history'.disk.done[u] \in {history.mem.done[u], history.mem.done[u] + 1}
            BY <5>1, <6>1
          <6> QED BY <4>4, <6>2
        <5> QED BY <4>3, <4>4, <5>1
      <4> QED BY <4>3, <4>4, <4>5 DEF DoneStands
    <3> QED BY <1>7, <3>1, <3>2
  <2> QED BY <1>0, <1>7, <2>1, <2>2, FaultsFinish, CompletionsStand
<1>8. ASSUME NEW r \in Requests, ForgetPart(r)
      PROVE  DoneInv'
  <2> PICK v : v = requests[r].user
    OBVIOUS
  <2>1. /\ UNCHANGED <<finishes, cut>>
        /\ \/ UNCHANGED history
           \/ history' = Both([rows |-> {row \in history.mem.rows : row.user # v},
                               done |-> [history.mem.done EXCEPT ![v] = 0]])
    BY <1>8 DEF ForgetPart
  <2>2. ~Counted(v)
    <3>1. /\ requests[r].op = "delete" /\ requests[r].at \in {"places", "forget", "purge"}
      BY <1>8 DEF ForgetPart
    <3>2. v \in Users
      BY <3>1 DEF AccountInv, Shaped, RequestShaped
    <3>3. Past(v, AfterUsers)
      BY <3>1 DEF Past, AfterUsers
    <3> QED BY <3>2, <3>3 DEF GoneInv, Counted
  <2>3. DoneStands
    <3>1. CASE UNCHANGED history
      BY <1>1, <3>1
    <3>2. CASE ~UNCHANGED history
      <4>1. /\ history'.mem.done = [history.mem.done EXCEPT ![v] = 0]
            /\ history'.disk.done = [history.mem.done EXCEPT ![v] = 0]
        BY <2>1, <3>2 DEF Both
      <4>2. \A u \in Users : history'.mem.done[u] = (IF u = v THEN 0 ELSE history.mem.done[u])
                             /\ history'.disk.done[u] = (IF u = v THEN 0 ELSE history.mem.done[u])
        BY <1>0, <4>1 DEF RecordShaped
      <4>3. \A u \in Users : Counted(u)' => u # v
        BY <1>0, <2>1, <2>2 DEF AllCounted
      <4> QED BY <4>2, <4>3 DEF DoneStands, DoneInv
    <3> QED BY <3>1, <3>2
  <2>4. FinishingStands
    BY <1>8, OthersUntouched, UntouchedFinish
  <2> QED BY <1>0, <2>1, <2>3, <2>4, CompletionsStand
<1>9. ASSUME TakeQuiet \/ WriteQuiet \/ Minute
      PROVE  DoneInv'
  <2>1. UNCHANGED <<requests, finishes, cut>>
    BY <1>9 DEF TakeQuiet, WriteQuiet, Minute, Tick, accountVars, vars, listenVars, recordVars
  <2>2. UNCHANGED history \/ \E rows : history' = Both(WithRows(rows))
    BY <1>9 DEF TakeQuiet, WriteQuiet, Minute, listenVars, recordVars
  <2>3. DoneStands
    <3>1. \A rows : WithRows(rows).done = history.mem.done
      BY <1>0 DEF WithRows, RecordShaped
    <3> QED BY <1>1, <2>2, <3>1 DEF Both, DoneStands, DoneInv
  <2>4. FinishingStands
    BY <2>1 DEF FinishingStands, Finishing
  <2> QED BY <1>0, <2>1, <2>3, <2>4, CompletionsStand
<1>10. ASSUME Stop \/ PowerGoes
       PROVE  DoneInv'
  <2>1. cut \subseteq cut'
    BY <1>10 DEF Stop, PowerGoes
  <2> QED BY <1>0, <1>10, <2>1, RestartFinishes
<1> QED BY <1>2, <1>3, <1>4, <1>5, <1>6, <1>7, <1>8, <1>9, <1>10 DEF ListenersNext

\* While no fault has touched a listener's record, every time their place came
\* from before the end of the book to its end is counted once, or a request is
\* about to count it: whatever devices repeat, withdraw or race.
THEOREM CompletionsStayKept == ListenersSpec => []CompletionsAreKept
<1>1. ListenersInit => DoneInv
  <2> SUFFICES ASSUME ListenersInit
               PROVE  DoneInv
    OBVIOUS
  <2>1. /\ requests = [r \in Requests |-> Idle] /\ finishes = Zero
        /\ history.mem.done = Zero /\ history.disk.done = Zero
    BY DEF ListenersInit, AccountsInit, Both
  <2>2. \A u : Finishing(u) = {}
    BY <2>1, IdleRequest DEF Finishing
  <2> QED BY <2>1, <2>2, FS_EmptySet DEF DoneInv, Zero
<1>2. /\ AccountInv /\ OpenInv /\ GoneInv /\ KeptInv /\ DoneInv /\ AccountInv' /\ GoneInv'
      /\ [ListenersNext]_allVars
      => DoneInv'
  <2> SUFFICES ASSUME AccountInv, OpenInv, GoneInv, KeptInv, DoneInv, AccountInv', GoneInv',
                      [ListenersNext]_allVars
               PROVE  DoneInv'
    OBVIOUS
  <2>1. CASE ListenersNext
    BY <2>1, DoneSteps
  <2>2. CASE UNCHANGED allVars
    <3>1. UNCHANGED <<users, requests, used, lingering, history, finishes, cut>>
      BY <2>2 DEF allVars, vars, accountVars, listenVars, recordVars
    <3>2. AllCounted
      BY <3>1 DEF AllCounted, Counted, AccountLeft, IsCreating
    <3>3. FinishingStands /\ DoneStands
      BY <3>1 DEF FinishingStands, Finishing, DoneStands, DoneInv
    <3> QED BY <3>1, <3>2, <3>3, CompletionsStand
  <2> QED BY <2>1, <2>2
<1>3. AccountInv /\ DoneInv => CompletionsAreKept
  <2> SUFFICES ASSUME AccountInv, DoneInv, NEW u \in Known \ cut
               PROVE  history.mem.done[u] + Cardinality(Finishing(u)) = finishes[u]
    BY DEF CompletionsAreKept
  <2>1. Counted(u)
    BY KnownAreCounted
  <2> QED BY <2>1 DEF DoneInv, Counted
<1> QED BY <1>1, <1>2, <1>3, AccountsAreSound, GoneStays, RecordIsKept, PTL DEF ListenersSpec

================================================================================
