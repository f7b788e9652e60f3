-------------------------------- MODULE Accounts --------------------------------
(* Accounts, sessions and agent tokens of the server (auth.rs, agent.rs,       *)
(* storage.rs). Each of the three stores is held in memory and written through *)
(* to the database; a handler changes them one after the other, and handlers   *)
(* of several people interleave between any two of their awaits. Passwords are *)
(* numbers: the hash of a password is the password, and every new one is new.  *)
EXTENDS LoginThrottle, TLC

CONSTANTS
    None,
    Users,              \* user ids
    NameOf,             \* the user name each id goes by, ids with one name coming one after the other
    Root,               \* the owner the server was set up with
    Readers,            \* the readers there are at first
    Requests,           \* requests under way at once
    MaxPerUser,         \* MAX_SESSIONS_PER_USER
    MaxSessions,        \* MAX_SESSIONS_TOTAL
    MaxAgents,          \* MAX_AGENT_TOKENS_PER_USER
    SessionAge,         \* SESSION_COOKIE_MAX_AGE_SECONDS, in ticks of the clock
    Bounds              \* rows of how often each kind of event may happen, which names are
                        \* signed in to from which addresses, whose sessions ask for
                        \* something, and how many requests overlap

ASSUME AccountsAssumption ==
    /\ Root \in Users /\ Readers \subseteq Users \ {Root} /\ None \notin Users \cup Requests
    /\ DOMAIN NameOf = Users
    /\ {MaxPerUser, MaxSessions, MaxAgents} \subseteq Nat \ {0} /\ SessionAge \in Nat

VARIABLES
    clock,
    users,              \* [mem, disk], each from ids to [role, pw, reset]
    sessions,           \* [mem, disk], each a set of [n, user, at, pw]
    agents,             \* [mem, disk], each a set of [n, user, pw]
    links,              \* SessionStore.by_media_token: the sessions its tokens lead to
    attempts,           \* the table of failed sign-ins
    issuance,           \* the request that holds credential_issuance_lock, or None
    gate,               \* the request that holds SessionStore.mutate_gate, or None
    requests,           \* what each request is about and how far it got
    serial,             \* numbers passwords, sessions, tokens and attempts
    allowed,            \* what is left of the bounds
    guesses,            \* (history) the admitted attempts, and whether they were right
    halfway,            \* (history) whose change of account a fault cut short
    used,               \* ids that were ever taken
    lingering,          \* (history) whose requests were under way when they were removed
    unpublished         \* (history) a session change was cut short before its links

accountVars == <<users, sessions, agents, links, attempts, issuance, gate, serial,
                 guesses, halfway, used, lingering, unpublished>>
vars == <<clock, requests, allowed, accountVars>>

Wrong == -1             \* a password nobody has

Idle == [op |-> "none", at |-> "idle", user |-> None, by |-> None, boss |-> FALSE,
         session |-> 0, pw |-> Wrong, role |-> "reader", name |-> None, address |-> None, runs |-> NoAttempts,
         index |-> {}, work |-> None]

Both(value) == [mem |-> value, disk |-> value]
OnDisk(store, value) == [store EXCEPT !.disk = value]

Known == DOMAIN users.mem
Names == {NameOf[u] : u \in Users}
Owners(table) == {u \in DOMAIN table : table[u].role = "owner"}
Privileged(u) == users.mem[u].role # "reader"
Expired(s) == clock - s.at > SessionAge
Numbers(set) == {s.n : s \in set}

AccountsInit ==
    /\ clock = 0
    /\ users = Both([u \in {Root} \cup Readers |->
                        [role |-> IF u = Root THEN "owner" ELSE "reader", pw |-> 0, reset |-> 0]])
    /\ sessions = Both({[n |-> 1, user |-> Root, at |-> 0, pw |-> 0]}
                        \cup {[n |-> 2, user |-> u, at |-> 0, pw |-> 0] : u \in Readers})
    /\ agents = Both({})
    /\ links = Numbers(sessions.mem)
    /\ attempts = NoAttempts
    /\ issuance = None /\ gate = None
    /\ requests = [r \in Requests |-> Idle]
    /\ serial = 3
    /\ allowed \in Bounds
    /\ guesses = {} /\ used = Known /\ halfway = {} /\ lingering = {} /\ unpublished = FALSE

Spend(kind) == allowed[kind] > 0 /\ allowed' = [allowed EXCEPT ![kind] = @ - 1]
Begins(r, request) ==
    /\ requests[r] = Idle
    /\ Cardinality({other \in Requests : requests[other] # Idle}) < allowed.overlap
    /\ requests' = [requests EXCEPT ![r] = request]
Moves(r, at) == requests' = [requests EXCEPT ![r].at = at]
Ends(r) == requests' = [requests EXCEPT ![r] = Idle]
Freed(lock, r) == IF lock = r THEN None ELSE lock
Self(q) == q.user = q.by

--------------------------------------------------------------------------------
(* Signing in                                                                  *)

\* authenticate_and_open_session, under the table's lock: too many attempts.
SignInRefused(name, address) ==
    LET keys == KeysOf(address, name)
        table == Swept(attempts, clock)
    IN /\ Spend("signIns")
       /\ \/ /\ Refuses(table, address, name, clock)
             /\ attempts' = table
          \/ /\ ~Refuses(table, address, name, clock)
             /\ \E gone \in Evictions(table, keys, clock) :
                    LET kept == Restrict(table, DOMAIN table \ gone) IN
                    ~HasRoom(kept, keys) /\ attempts' = kept
       /\ UNCHANGED <<clock, users, sessions, agents, links, issuance, gate, requests, serial,
                      guesses, halfway, used, lingering, unpublished>>

\* It is charged to all three counters before any password work.
SignIn(r, name, address, pw) ==
    LET keys == KeysOf(address, name)
        table == Swept(attempts, clock)
    IN /\ Spend("signIns")
       /\ ~Refuses(table, address, name, clock)
       /\ \E gone \in Evictions(table, keys, clock) :
            LET kept == Restrict(table, DOMAIN table \ gone)
                charged == Charge(kept, keys, clock, serial)
            IN /\ HasRoom(kept, keys)
               /\ attempts' = charged
               /\ Begins(r, [Idle EXCEPT !.op = "signIn", !.at = "admitted", !.pw = pw,
                                          !.session = serial, !.name = name, !.address = address,
                                          !.runs = ChargedRuns(charged, address, name)])
       /\ guesses' = guesses \cup {[n |-> serial, network |-> NetworkOf[address],
                                    at |-> clock, back |-> FALSE]}
       /\ serial' = serial + 1
       /\ UNCHANGED <<clock, users, sessions, agents, links, issuance, gate,
                      halfway, used, lingering, unpublished>>

\* The account is looked up and the password checked against it, without a lock.
CheckPassword(r) ==
    LET q == requests[r]
        match == {u \in Known : NameOf[u] = q.name /\ users.mem[u].pw = q.pw}
    IN /\ q.op = "signIn" /\ q.at = "admitted"
       /\ \/ /\ match = {}
             /\ Ends(r)
          \/ \E u \in match :
                requests' = [requests EXCEPT ![r].at = "verified", ![r].user = u]
       /\ UNCHANGED <<clock, allowed, accountVars>>

\* A right password clears the pair and gives back the other two charges.
ClearCharge(r) ==
    LET q == requests[r] IN
    /\ q.at = "verified"
    /\ attempts' = Cleared(attempts, q.address, q.name, q.runs)
    /\ guesses' = {IF g.n = q.session THEN [g EXCEPT !.back = TRUE] ELSE g : g \in guesses}
    /\ Moves(r, "issuing")
    /\ UNCHANGED <<clock, allowed, users, sessions, agents, links, issuance, gate, serial,
                   halfway, used, lingering, unpublished>>

\* (Mutated form: the account is not looked at again.)
AnyPassword(q) == TRUE
\* finish_password_login: still the same account with the same password?
StillTrue(q) == q.user \in Known /\ users.mem[q.user].pw = q.pw

FinishSignIn(r) ==
    LET q == requests[r] IN
    /\ q.at = "issuing" /\ issuance = None
    /\ IF StillTrue(q) THEN issuance' = r /\ Moves(r, "sessions")
                       ELSE UNCHANGED issuance /\ Ends(r)
    /\ UNCHANGED <<clock, allowed, users, sessions, agents, links, attempts, gate, serial,
                   guesses, halfway, used, lingering, unpublished>>

\* evict_oldest_sessions: the sets of sessions that may make room below limit.
Oldest(set, matching, limit) ==
    {gone \in SUBSET matching :
        /\ Cardinality(gone) = Max({0, Cardinality(matching) + 1 - limit})
        /\ \A s \in gone, t \in matching \ gone : s.at <= t.at}

\* prune_sessions_for_new_session, then the new one.
Opened(set, u, new) ==
    LET live == {s \in set : ~Expired(s)} IN
    UNION {LET kept == live \ own IN
           {(kept \ oldest) \cup {new} : oldest \in Oldest(kept, kept, MaxSessions)}
           : own \in Oldest(live, {s \in live : s.user = u}, MaxPerUser)}

--------------------------------------------------------------------------------
(* What a signed-in person asks for                                            *)

\* auth_middleware and the extractors: a live session of a known account. What
\* its request may do is decided by the account as it is now.
Live(s) == ~Expired(s) /\ s.user \in Known
Role(u) == users.mem[u].role
Asks(r, s, request) ==
    /\ s.user \in allowed.asking
    /\ Begins(r, [request EXCEPT !.by = s.user, !.session = s.n, !.boss = Role(s.user) = "owner"])

\* change_password up to its password work: one's own, knowing the current one,
\* or another's, an owner's word being needed for a privileged account.
AskNewPassword(r, s, u) ==
    /\ Spend("changes")
    /\ Live(s) /\ u \in Known
    /\ \/ s.user = u
       \/ Role(s.user) = "owner"
       \/ Role(s.user) = "admin" /\ ~Privileged(u)
    /\ Asks(r, s, [Idle EXCEPT !.op = "change", !.at = "users", !.user = u, !.pw = users.mem[u].pw])
    /\ UNCHANGED <<clock, accountVars>>

AskDeletion(r, s, u) ==
    /\ Spend("deletions")
    /\ Live(s) /\ Privileged(s.user) /\ s.user # u
    /\ Asks(r, s, [Idle EXCEPT !.op = "delete", !.at = "users", !.user = u])
    /\ UNCHANGED <<clock, accountVars>>

AskRole(r, s, u, role) ==
    /\ Spend("roles")
    /\ Live(s) /\ Role(s.user) = "owner"
    /\ Asks(r, s, [Idle EXCEPT !.op = "role", !.at = "users", !.user = u, !.role = role])
    /\ UNCHANGED <<clock, accountVars>>

\* create_user: only an owner makes an administrator or another owner. Ids are
\* new, whoever had the name before. In the code an id is drawn from the name and
\* the second (stable_id): it is taken here that a name is not created, deleted
\* and created again within one.
AskAccount(r, s, u, role) ==
    /\ Spend("accounts")
    /\ u \notin used
    /\ Live(s) /\ Privileged(s.user) /\ (role # "reader" => Role(s.user) = "owner")
    /\ Asks(r, s, [Idle EXCEPT !.op = "create", !.at = "users", !.user = u, !.role = role])
    /\ used' = used \cup {u}
    /\ UNCHANGED <<clock, users, sessions, agents, links, attempts, issuance, gate, serial,
                   guesses, halfway, lingering, unpublished>>

AskAgent(r, s) ==
    /\ Spend("agents")
    /\ Live(s)
    /\ Asks(r, s, [Idle EXCEPT !.op = "agent", !.at = "asked", !.user = s.user])
    /\ UNCHANGED <<clock, accountVars>>

\* logout needs no authority, and an expired session is removed by its next use.
AskSignOut(r, s) ==
    /\ Spend("signOuts")
    /\ Begins(r, [Idle EXCEPT !.op = "signOut", !.at = "sessions", !.session = s.n])
    /\ UNCHANGED <<clock, accountVars>>

UseExpired(r, s) ==
    /\ Expired(s)
    /\ Begins(r, [Idle EXCEPT !.op = "signOut", !.at = "sessions", !.session = s.n])
    /\ UNCHANGED <<clock, allowed, accountVars>>

\* create_agent_token: the authority is looked at again under the issuance lock.
CheckAgent(r) ==
    LET q == requests[r] IN
    /\ q.op = "agent" /\ q.at = "asked" /\ issuance = None
    /\ \/ \E s \in sessions.mem :
            /\ s.n = q.session /\ s.user = q.by /\ ~Expired(s)
            /\ issuance' = r
            /\ requests' = [requests EXCEPT ![r].at = "agents", ![r].pw = s.pw]
       \/ /\ \A s \in sessions.mem : s.n = q.session => s.user # q.by \/ Expired(s)
          /\ UNCHANGED issuance
          /\ Ends(r)
    /\ UNCHANGED <<clock, allowed, users, sessions, agents, links, attempts, gate, serial,
                   guesses, halfway, used, lingering, unpublished>>

--------------------------------------------------------------------------------
(* The writes                                                                  *)

\* The checks repeated inside the mutation of the accounts.
MayChange(q) ==
    /\ q.user \in Known
    /\ Self(q) \/ q.boss \/ ~Privileged(q.user)
    /\ Self(q) => users.mem[q.user].pw = q.pw
MayDelete(q) ==
    /\ q.user \in Known
    /\ Privileged(q.user) => q.boss
    /\ Owners(users.mem) # {q.user}
MaySetRole(q) ==
    /\ q.user \in Known
    /\ q.role # "owner" => Owners(users.mem) # {q.user}
MayCreate(q) == \A u \in Known : NameOf[u] # NameOf[q.user]
MayWrite(q) ==
    CASE q.op = "change" -> MayChange(q) [] q.op = "delete" -> MayDelete(q)
      [] q.op = "role" -> MaySetRole(q) [] OTHER -> MayCreate(q)

\* The accounts, the sessions and the agent tokens after a request's write.
UsersAfter(q) ==
    CASE q.op = "change" ->
            [users.mem EXCEPT ![q.user] =
                [role |-> @.role, pw |-> serial, reset |-> IF Self(q) THEN @.reset ELSE serial]]
      [] q.op = "delete" -> Restrict(users.mem, Known \ {q.user})
      [] q.op = "role" -> [users.mem EXCEPT ![q.user].role = q.role]
      [] OTHER -> [u \in Known \cup {q.user} |->
                        IF u = q.user THEN [role |-> q.role, pw |-> serial, reset |-> serial]
                        ELSE users.mem[u]]

\* revoke_password_change_sessions: a listener changing their own password
\* stays signed in where they did it.
Revoked(set, q) ==
    {s \in set : s.user # q.user}
        \cup {[s EXCEPT !.pw = users.mem[q.user].pw] :
                s \in {t \in set : q.user \in Known /\ t.user = q.user /\ Self(q) /\ t.n = q.session}}

SessionsAfter(q) ==
    CASE q.op = "signIn" ->
            Opened(sessions.mem, q.user, [n |-> serial, user |-> q.user, at |-> clock, pw |-> q.pw])
      [] q.op = "change" -> {Revoked(sessions.mem, q)}
      [] q.op = "delete" -> {{s \in sessions.mem : s.user # q.user}}
      [] OTHER -> {{s \in sessions.mem : s.n # q.session}}

\* Requests that have changed an account and still owe the rest of it.
Owing(q) == q.op \in {"change", "delete"} /\ q.at \notin {"users", "idle"}

\* Whose requests are under way.
UnderWay(u, r) ==
    \E other \in Requests \ {r} :
        LET q == requests[other] IN u \in {q.by} \cup (IF q.op = "signIn" THEN {q.user} ELSE {})

WriteUsers(r) ==
    LET q == requests[r] IN
    /\ q.at = "users"
    /\ q.op = "change" => issuance = None
    /\ \/ /\ MayWrite(q)
          /\ users' = Both(UsersAfter(q))
          /\ serial' = serial + 1
          /\ IF q.op \in {"change", "delete"} THEN Moves(r, "sessions") ELSE Ends(r)
          /\ issuance' = IF q.op = "change" THEN r ELSE issuance
          /\ lingering' = IF q.op = "delete" /\ UnderWay(q.user, r)
                          THEN lingering \cup {q.user} ELSE lingering
       \/ /\ ~MayWrite(q)
          /\ Ends(r)
          /\ UNCHANGED <<users, serial, issuance, lingering>>
    /\ UNCHANGED <<clock, allowed, sessions, agents, links, attempts, gate,
                   guesses, halfway, used, unpublished>>

\* (Mutated form: session changes do not wait for one another's links.)
NoGate(r) == TRUE
\* SessionStore::mutate holds its gate from before the write to after the links.
GateIsFree(r) == gate = None

WriteSessions(r) ==
    LET q == requests[r] IN
    /\ q.at = "sessions" /\ GateIsFree(r)
    /\ \E new \in SessionsAfter(q) :
        /\ sessions' = Both(new)
        /\ requests' = [requests EXCEPT ![r].at = "publish", ![r].index = Numbers(new)]
    /\ gate' = r
    /\ serial' = IF q.op = "signIn" THEN serial + 1 ELSE serial
    /\ UNCHANGED <<clock, allowed, users, agents, links, attempts, issuance,
                   guesses, halfway, used, lingering, unpublished>>

PublishLinks(r) ==
    LET q == requests[r] IN
    /\ q.at = "publish"
    /\ links' = q.index
    /\ gate' = Freed(gate, r)
    /\ unpublished' = FALSE
    /\ IF q.op = "delete" \/ (q.op = "change" /\ ~Self(q))
       THEN Moves(r, "agents") /\ UNCHANGED issuance
       ELSE Ends(r) /\ issuance' = Freed(issuance, r)
    /\ UNCHANGED <<clock, allowed, users, sessions, agents, attempts, serial,
                   guesses, halfway, used, lingering>>

\* A new token while there is room for it.
HasAgentRoom(q) == Cardinality({t \in agents.mem : t.user = q.by}) < MaxAgents
NewAgents(q) == agents.mem \cup {[n |-> serial, user |-> q.by, pw |-> q.pw]}

WriteNewAgent(r) ==
    LET q == requests[r] IN
    /\ q.op = "agent" /\ q.at = "agents"
    /\ agents' = IF HasAgentRoom(q) THEN Both(NewAgents(q)) ELSE agents
    /\ serial' = serial + 1
    /\ issuance' = Freed(issuance, r)
    /\ Ends(r)
    /\ UNCHANGED <<clock, allowed, users, sessions, links, attempts, gate,
                   guesses, halfway, used, lingering, unpublished>>

\* revoke_agent_tokens_for_user writes nothing when memory holds none of them.
OthersAgents(q) == {t \in agents.mem : t.user # q.user}

RevokeAgents(r) ==
    LET q == requests[r] IN
    /\ q.op \in {"change", "delete"} /\ q.at = "agents"
    /\ agents' = IF OthersAgents(q) = agents.mem THEN agents ELSE Both(OthersAgents(q))
    /\ \/ /\ q.op = "delete"
          /\ Moves(r, "places")
          /\ UNCHANGED <<issuance, halfway>>
       \/ /\ q.op = "change"
          /\ Ends(r)
          /\ issuance' = Freed(issuance, r)
          /\ halfway' = IF agents'.disk = agents'.mem THEN halfway \ {q.user} ELSE halfway
    /\ UNCHANGED <<clock, allowed, users, sessions, links, attempts, gate, serial,
                   guesses, used, lingering, unpublished>>

\* revoke_agent_token: one of one's own.
RevokeAgent(s, t) ==
    /\ Spend("agents")
    /\ Live(s) /\ t.user = s.user
    /\ agents' = Both(agents.mem \ {t})
    /\ UNCHANGED <<clock, requests, users, sessions, links, attempts, issuance, gate, serial,
                   guesses, halfway, used, lingering, unpublished>>

--------------------------------------------------------------------------------
(* What goes wrong                                                             *)

\* A write is refused by the database, or the client goes away between two
\* steps and the handler with it. Its locks are released; nothing is undone.
GivesUp(r) ==
    LET q == requests[r] IN
    /\ Spend("faults")
    /\ q # Idle
    /\ Ends(r)
    /\ issuance' = Freed(issuance, r)
    /\ gate' = Freed(gate, r)
    /\ halfway' = IF Owing(q) THEN halfway \cup {q.user} ELSE halfway
    /\ unpublished' = (unpublished \/ q.at = "publish")
    /\ UNCHANGED <<clock, users, sessions, agents, links, attempts, serial, guesses, used, lingering>>

\* The client goes away while the write runs: it commits, and the copy in memory
\* is not replaced.
WritesOnlyDisk(r) ==
    LET q == requests[r] IN
    /\ Spend("faults")
    /\ \/ /\ q.at = "users" /\ MayWrite(q) /\ (q.op = "change" => issuance = None)
          /\ users' = OnDisk(users, UsersAfter(q))
          /\ UNCHANGED <<sessions, agents>>
       \/ /\ q.at = "sessions" /\ GateIsFree(r)
          /\ \E new \in SessionsAfter(q) : sessions' = OnDisk(sessions, new)
          /\ UNCHANGED <<users, agents>>
       \/ /\ q.at = "agents"
          /\ IF q.op = "agent" THEN HasAgentRoom(q) /\ agents' = OnDisk(agents, NewAgents(q))
                              ELSE agents' = OnDisk(agents, OthersAgents(q))
          /\ UNCHANGED <<users, sessions>>
    /\ Ends(r)
    /\ issuance' = Freed(issuance, r)
    /\ serial' = serial + 1
    /\ halfway' = IF q.op \in {"change", "delete", "agent"} THEN halfway \cup {q.user} ELSE halfway
    /\ UNCHANGED <<clock, links, attempts, gate, guesses, used, lingering, unpublished>>

\* The server stops and starts: memory is read back, the table is empty.
RestartAccounts ==
    /\ users' = Both(users.disk)
    /\ sessions' = Both(sessions.disk)
    /\ agents' = Both(agents.disk)
    /\ links' = Numbers(sessions.disk)
    /\ attempts' = NoAttempts
    /\ issuance' = None /\ gate' = None
    /\ requests' = [r \in Requests |-> Idle]
    /\ guesses' = {}
    /\ halfway' = halfway \cup {requests[r].user : r \in {x \in Requests : Owing(requests[x])}}
    /\ unpublished' = FALSE
    /\ UNCHANGED <<serial, used, lingering>>

Crash == Spend("faults") /\ RestartAccounts /\ UNCHANGED clock

Tick == Spend("ticks") /\ clock' = clock + 1 /\ UNCHANGED <<requests, accountVars>>

--------------------------------------------------------------------------------
\* The passwords somebody may try for a name.
Tried(name) ==
    {Wrong} \cup UNION {{t[u].pw : u \in {x \in DOMAIN t : NameOf[x] = name}}
                        : t \in {users.mem, users.disk}}

AccountsStep ==
    \/ \E name \in allowed.names, address \in allowed.from : SignInRefused(name, address)
    \/ \E r \in Requests, name \in allowed.names, address \in allowed.from :
            \E pw \in Tried(name) : SignIn(r, name, address, pw)
    \/ \E r \in Requests : CheckPassword(r)
    \/ \E r \in Requests : ClearCharge(r)
    \/ \E r \in Requests : FinishSignIn(r)
    \/ \E r \in Requests, s \in sessions.mem, u \in Users : AskNewPassword(r, s, u)
    \/ \E r \in Requests, s \in sessions.mem, u \in Users : AskDeletion(r, s, u)
    \/ \E r \in Requests, s \in sessions.mem, u \in Users, role \in {"reader", "admin", "owner"} :
            AskRole(r, s, u, role)
    \/ \E r \in Requests, s \in sessions.mem, u \in Users, role \in {"reader", "admin", "owner"} :
            AskAccount(r, s, u, role)
    \/ \E r \in Requests, s \in sessions.mem : AskAgent(r, s)
    \/ \E r \in Requests, s \in sessions.mem : AskSignOut(r, s)
    \/ \E r \in Requests, s \in sessions.mem : UseExpired(r, s)
    \/ \E r \in Requests : CheckAgent(r)
    \/ \E r \in Requests : WriteUsers(r)
    \/ \E r \in Requests : WriteSessions(r)
    \/ \E r \in Requests : PublishLinks(r)
    \/ \E r \in Requests : WriteNewAgent(r)
    \/ \E r \in Requests : RevokeAgents(r)
    \/ \E s \in sessions.mem, t \in agents.mem : RevokeAgent(s, t)

AccountsFaults ==
    \/ \E r \in Requests : GivesUp(r)
    \/ \E r \in Requests : WritesOnlyDisk(r)

AccountsNext == AccountsStep \/ AccountsFaults \/ Crash \/ Tick

AccountsSpec == AccountsInit /\ [][AccountsNext]_vars

--------------------------------------------------------------------------------
\* Between its writes a change of an account is neither the old nor the new one.
Halfway == halfway \cup {requests[r].user : r \in {x \in Requests : Owing(requests[x])}}

\* Once a password was reset, nothing obtained with an earlier one still works:
\* every session of the account was opened with the current password or is the
\* one its listener changed it in, and no agent token is older than the last
\* reset by somebody else. Sign-ins and new agents that were verified before the
\* reset and finish after it are what the issuance lock and the second look at
\* the account are for.
CredentialsAreCurrent ==
    \A u \in Known \ Halfway :
        /\ \A s \in sessions.mem : s.user = u => s.pw = users.mem[u].pw
        /\ \A t \in agents.mem : t.user = u => t.pw >= users.mem[u].reset

\* When no session change is under way, the media links lead to exactly the
\* sessions there are: two overlapping changes never publish out of order.
LinksFollowSessions ==
    gate = None /\ ~unpublished => links = Numbers(sessions.mem)

\* However attempts interleave, expire and are evicted, one network has no more
\* guesses in a lockout window than its limit, not counting the right ones.
GuessesAreBounded ==
    \A network \in {NetworkOf[a] : a \in Addresses} :
        Cardinality({g \in guesses : g.network = network /\ clock - g.at < Lockout /\ ~g.back})
            <= AddressLimit

\* A sign-in that would be refused stays refused until time passes or some
\* sign-in succeeds: making room in the table never lifts a lock.
LocksAreKept ==
    [][clock' = clock /\ guesses \subseteq guesses' =>
        \A address \in Addresses, name \in Names :
            Refuses(attempts, address, name, clock)
                => Refuses(attempts', address, name, clock)]_vars
================================================================================
