----------------------------- MODULE LoginThrottle -----------------------------
(* The table of failed sign-ins of the server (auth.rs): which counters a      *)
(* sign-in is checked against, how an attempt is charged before its password   *)
(* is looked at, which entries make room when the table is full, and what a    *)
(* success gives back. The table is a function from keys to entries; every     *)
(* operator here runs under one hold of the lock around it.                    *)
EXTENDS Integers, FiniteSets, FiniteSetsExt, Functions

CONSTANTS
    Addresses,          \* the addresses sign-ins come from
    NetworkOf,          \* the network an address is counted under: its /64, or itself
    AccountLimit,       \* LOGIN_MAX_FAILURES
    AddressLimit,       \* LOGIN_IP_MAX_FAILURES
    NameLimit,          \* LOGIN_ACCOUNT_MAX_FAILURES
    Lockout,            \* LOGIN_LOCKOUT_SECONDS, in ticks of the clock
    MaxEntries,         \* LOGIN_THROTTLE_MAX_ENTRIES
    LockedMaxEntries    \* LOGIN_THROTTLE_LOCKED_MAX_ENTRIES

ASSUME ThrottleAssumption ==
    /\ DOMAIN NetworkOf = Addresses
    /\ {AccountLimit, AddressLimit, NameLimit, Lockout} \subseteq Nat \ {0}
    /\ MaxEntries \in Nat /\ LockedMaxEntries \in Nat /\ MaxEntries <= LockedMaxEntries

\* The three counters of one attempt.
AccountKey(address, name) == <<"account", address, name>>
AddressKey(address) == <<"address", NetworkOf[address]>>
NameKey(name) == <<"name", name>>
KeysOf(address, name) == {AccountKey(address, name), AddressKey(address), NameKey(name)}

NoAttempts == [key \in {} |-> [failures |-> 0, last |-> 0, run |-> 0]]

IsStale(entry, now) == now - entry.last >= Lockout
IsLocked(entry, now, limit) == entry.failures >= limit /\ ~IsStale(entry, now)

Over(table, key, now, limit) == key \in DOMAIN table /\ IsLocked(table[key], now, limit)
Recent(table, key, now) == key \in DOMAIN table /\ ~IsStale(table[key], now)

\* What every sign-in does first: forget the entries whose lockout has passed.
Swept(table, now) == Restrict(table, {key \in DOMAIN table : ~IsStale(table[key], now)})

\* A name under attack refuses only the addresses that have failed against it.
Refuses(table, address, name, now) ==
    \/ Over(table, AccountKey(address, name), now, AccountLimit)
    \/ Over(table, AddressKey(address), now, AddressLimit)
    \/ /\ Recent(table, AccountKey(address, name), now)
       /\ Over(table, NameKey(name), now, NameLimit)

\* (Mutated form: only a name under attack keeps its place.)
HoldsNameLock(table, key, now) ==
    key[1] = "name" /\ IsLocked(table[key], now, NameLimit)

\* Whether dropping an entry would let some address past a refusal.
HoldsLock(table, key, now) ==
    CASE key[1] = "name" -> IsLocked(table[key], now, NameLimit)
      [] key[1] = "address" -> ~IsStale(table[key], now)
      [] OTHER -> \/ IsLocked(table[key], now, AccountLimit)
                  \/ /\ ~IsStale(table[key], now)
                     /\ Over(table, NameKey(key[3]), now, NameLimit)

\* The entry that says less about an attack goes first: fewer failures, then older.
Weaker(entry, other) ==
    \/ entry.failures < other.failures
    \/ entry.failures = other.failures /\ entry.last < other.last

\* The sets of entries that may be dropped for an attempt at keys: only as many
\* as it adds, only while the table is full, and none that holds a lock.
Evictions(table, keys, now) ==
    LET missing == Cardinality(keys \ DOMAIN table)
        over == Cardinality(DOMAIN table) + missing - MaxEntries
        mayGo == {key \in DOMAIN table \ keys : ~HoldsLock(table, key, now)}
        count == Min({missing, Cardinality(mayGo), Max({0, over})})
    IN {gone \in SUBSET mayGo :
            /\ Cardinality(gone) = count
            /\ \A key \in gone, kept \in mayGo \ gone : ~Weaker(table[kept], table[key])}

\* The table of a new attempt once room was made: refused when it is full of locks.
HasRoom(table, keys) == Cardinality(DOMAIN table \cup keys) <= LockedMaxEntries

\* Count the attempt against its keys. A count that starts again from zero is
\* a new run, told apart by the number of the attempt that started it.
Charge(table, keys, now, run) ==
    [key \in DOMAIN table \cup keys |->
        CASE key \notin keys -> table[key]
          [] key \in keys \cap DOMAIN table /\ table[key].failures > 0
               /\ ~IsStale(table[key], now) ->
                [table[key] EXCEPT !.failures = @ + 1, !.last = now]
          [] OTHER -> [failures |-> 1, last |-> now, run |-> run]]

\* The runs an attempt was charged in at its address and its name.
ChargedRuns(table, address, name) ==
    [key \in {AddressKey(address), NameKey(name)} |-> table[key].run]

\* (Mutated form: whatever run the counter is in.)
RefundAnyRun(table, runs) ==
    [key \in DOMAIN table |->
        IF key \in DOMAIN runs /\ table[key].failures > 0
        THEN [table[key] EXCEPT !.failures = @ - 1] ELSE table[key]]

\* Take the charge back from the counters that are still in the charged run.
Refund(table, runs) ==
    [key \in DOMAIN table |->
        IF key \in DOMAIN runs /\ table[key].run = runs[key] /\ table[key].failures > 0
        THEN [table[key] EXCEPT !.failures = @ - 1] ELSE table[key]]

\* A success forgets the pair and takes back the charge of the other two.
Cleared(table, address, name, runs) ==
    Refund(Restrict(table, DOMAIN table \ {AccountKey(address, name)}), runs)

================================================================================
