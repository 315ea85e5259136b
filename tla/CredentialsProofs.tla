-------------------------- MODULE CredentialsProofs --------------------------
(***************************************************************************)
(* Proofs about Credentials for any number of processes, commands, origins *)
(* and refreshes.                                                          *)
(***************************************************************************)
EXTENDS Credentials, TLAPS

RunRecord ==
    [pc: Locations,
     mem: Configs,
     cache: [store: Stores, secret: Secrets] \cup {Nothing},
     hand: Secrets \cup {Nothing},
     entry: Accounts \cup {Nothing},
     old: [account: Accounts, login: Logins] \cup {Nothing},
     mark: Marks, watching: BOOLEAN,
     result: Results, hint: BOOLEAN]

\* put_account, from the configuration it read under the lock to its end
Replacing == {"write", "save", "discard", "saved", "undo", "putback", "resave"}

Removing == {"logging out", "remove", "forget"}

\* Where a command holds the lock.
Holding == {"reread", "refreshing", "store", "take", "logout", "profile"} \cup Replacing \cup Removing

Renewing == {"use", "watch"}

\* What a process that runs a command of kind k knows at each step.
Local(k, r) ==
    /\ r \in RunRecord
    /\ r.pc \in {"read", "exchange", "watching"} => k \in Renewing
    /\ r.pc \in {"reread", "refreshing", "store"} => k \in Renewing /\ r.mem.account \in Accounts
    /\ r.pc = "lock" /\ k \in Renewing => r.mem.account \in Accounts
    /\ r.pc = "reread" => r.cache = Nothing
    /\ r.pc \in {"refreshing", "store"} => r.hand \in Logins
    /\ r.pc \in {"name", "ask", "polling", "identify", "disown", "disowning"} => k = "login"
    /\ r.pc \in {"identify", "lock", "take", "disown", "disowning"} \cup Replacing /\ k = "login"
         => r.hand \in Logins
    /\ r.pc \in {"lock", "take"} /\ k = "login" => r.entry \in Accounts
    /\ r.pc \in {"take", "revoking"} \cup Replacing => k \in {"login", "import"}
    /\ r.pc \in Replacing => r.entry \in Accounts
    /\ r.pc \in {"discard", "revoking"} => r.old # Nothing
    /\ r.pc \in {"logout"} \cup Removing => k \in {"logout", "local"}
    /\ r.pc \in Removing => r.mem.account \in Accounts
    /\ r.pc = "profile" => k = "profile"
    /\ r.mark \in {"refresh", "logout"} => r.hand \in Logins
    /\ r.mark = "revoke" => r.old # Nothing /\ r.pc \in {"revoking", "over", "dead"}
    /\ r.result # "none" => r.pc = "over"

\* What it knows of the lock, the stores and the configuration.
Own(p) ==
    LET r == run[p]
        s == secret[r.mem.account.store]
    IN
    /\ r.pc \in Holding => lock = p
    /\ r.pc = "refreshing" => r.hand \in expired /\ s = r.hand
    /\ r.pc = "store" => s \in Logins /\ s.session = r.hand.session
    /\ r.pc \in Replacing \cup Removing => r.mem.profiles = file.profiles
    /\ plan[p].kind = "profile" /\ r.result = "saved" => p \in file.profiles

\* Only a login with a refresh left expires, and only an expired one is refreshed.
Refreshable ==
    /\ \A login \in expired: login.gen < MaxGen
    /\ \A p \in Procs: wire[p] # Nothing /\ wire[p].op = "refresh" => wire[p].login.gen < MaxGen

Inv ==
    /\ TypeOK
    /\ \A p \in Procs: Local(plan[p].kind, run[p]) /\ Own(p)
    /\ Refreshable

\* The types of what Core does not speak of.
Outside ==
    /\ session \in [Sessions -> [state: {"none", "live", "revoked"}, gen: 0..MaxGen]]
    /\ wire \in [Procs -> [op: {"refresh", "revoke"}, login: Logins, origin: Origins,
                           answer: {"none", "ok", "refused"}]
                          \cup [op: {"issue"}, answer: {"none", "ok"}] \cup {Nothing}]
    /\ \A p \in Procs: wire[p] # Nothing /\ wire[p].op = "refresh" => wire[p].login.gen < MaxGen
    /\ told \subseteq Sessions
    /\ unsaid \subseteq Sessions
    /\ leftover \subseteq Stores

\* A process takes a free lock, releases its own, or leaves the lock alone.
LockStep(p) ==
    \/ lock' = lock
    \/ lock = p /\ lock' = Nobody
    \/ lock = Nobody /\ lock' = p

\* A step of p, which changes the stores and the configuration only under the lock.
Core(p) ==
    /\ plan' = plan /\ expired' = expired
    /\ \E q: run' = [run EXCEPT ![p] = q] /\ Local(plan[p].kind, q)
    /\ Own(p)'
    /\ LockStep(p)
    /\ file' \in Configs /\ secret' \in [Stores -> Secrets \cup {Nothing}]
    /\ UNCHANGED <<secret, file>> \/ run[p].pc \in Holding
    /\ file.profiles \subseteq file'.profiles

LEMMA TypeOfRun == TypeOK <=> /\ plan \in [Procs -> Plans] /\ run \in [Procs -> RunRecord]
                              /\ lock \in Procs \cup {Nobody} /\ file \in Configs
                              /\ secret \in [Stores -> Secrets \cup {Nothing}]
                              /\ expired \subseteq Logins
                              /\ session \in [Sessions -> [state: {"none", "live", "revoked"}, gen: 0..MaxGen]]
                              /\ wire \in [Procs -> [op: {"refresh", "revoke"}, login: Logins, origin: Origins,
                                           answer: {"none", "ok", "refused"}]
                                          \cup [op: {"issue"}, answer: {"none", "ok"}] \cup {Nothing}]
                              /\ told \subseteq Sessions /\ unsaid \subseteq Sessions /\ leftover \subseteq Stores
BY DEF TypeOK, RunRecord

LEMMA CoreKeeps ==
    ASSUME Inv, NEW p \in Procs, Core(p), Outside'
    PROVE  Inv'
<1>1. PICK q: run' = [run EXCEPT ![p] = q] /\ Local(plan[p].kind, q)
  BY DEF Core
<1>2. /\ run \in [Procs -> RunRecord] /\ q \in RunRecord /\ plan' = plan /\ expired' = expired
      /\ \A o \in Procs: o # p => run'[o] = run[o]
      /\ run'[p] = q
  BY <1>1, TypeOfRun DEF Inv, Core, Local
<1>3. run' \in [Procs -> RunRecord]
  BY <1>1, <1>2
<1>4. lock' \in Procs \cup {Nobody}
  BY DEF Core, LockStep, Inv, TypeOK
<1>5. TypeOK'
  BY <1>2, <1>3, <1>4, TypeOfRun DEF Core, Outside, Inv, TypeOK, RunRecord
<1>6. ASSUME NEW o \in Procs, o # p PROVE Own(o)'
  <2>1. run'[o] = run[o] /\ Own(o) /\ Nobody # o
    BY <1>2, <1>6, FirstIsNoProcess DEF Inv
  <2>2. CASE run[o].pc \in Holding
    <3>1. lock = o /\ run[p].pc \notin Holding
      BY <2>1, <2>2, <1>6 DEF Own, Inv
    <3>2. lock' = o /\ UNCHANGED <<secret, file>>
      BY <3>1, <1>6, <2>1 DEF Core, LockStep
    <3> QED BY <2>1, <3>2, <1>2 DEF Own
  <2>3. CASE run[o].pc \notin Holding
    BY <2>1, <2>3, <1>2 DEF Own, Holding, Core, Replacing, Removing
  <2> QED BY <2>2, <2>3
<1>7. \A o \in Procs: Local(plan'[o].kind, run'[o])
  BY <1>1, <1>2 DEF Inv
<1>8. Refreshable'
  BY <1>2 DEF Inv, Refreshable, Outside
<1> QED BY <1>5, <1>6, <1>7, <1>8 DEF Inv, Core

\* A step to where p knows nothing of the stores.
LEMMA MoveCore ==
    ASSUME Inv, NEW p \in Procs, NEW q, run' = [run EXCEPT ![p] = q],
           Local(plan[p].kind, q), LockStep(p),
           UNCHANGED <<plan, expired, secret, file>>,
           q.pc \in Holding => lock' = p,
           q.pc \notin {"refreshing", "store"} \cup Replacing \cup Removing,
           plan[p].kind = "profile" => q.result # "saved"
    PROVE  Core(p)
<1>1. run'[p] = q
  BY DEF Inv, TypeOK
<1>2. Own(p)'
  BY <1>1 DEF Own
<1> QED BY <1>2 DEF Core, Inv, TypeOK

LEMMA EndCore ==
    ASSUME Inv, NEW p \in Procs, NEW result \in Results, End(p, result),
           UNCHANGED <<plan, expired, secret, file>>,
           plan[p].kind = "profile" => result # "saved"
    PROVE  Core(p)
<1> DEFINE q == [run[p] EXCEPT !.pc = "over", !.result = result]
<1>1. run[p] \in RunRecord /\ Local(plan[p].kind, run[p])
  BY DEF Inv, Local
<1>2. run' = [run EXCEPT ![p] = q] /\ LockStep(p)
  BY DEF End, Release, LockStep
<1>3. q \in RunRecord /\ q.pc = "over" /\ q.result = result
  BY <1>1 DEF RunRecord, Locations
<1>4. Local(plan[p].kind, q)
  BY <1>1, <1>3 DEF Local, RunRecord, Replacing, Removing
<1>5. q.pc \notin {"refreshing", "store"} \cup Holding
  BY <1>3 DEF Holding, Replacing, Removing
<1> HIDE DEF q
<1> QED BY <1>2, <1>3, <1>4, <1>5, MoveCore DEF Holding

\* What a process in any location before "over" starts from.
LEMMA Here ==
    ASSUME Inv, NEW p \in Procs
    PROVE  /\ run[p] \in RunRecord /\ Local(plan[p].kind, run[p]) /\ Own(p)
           /\ plan[p].kind \in Kinds /\ plan[p].origin \in Origins
           /\ plan[p].store \in Stores \cup {"default"}
           /\ run \in [Procs -> RunRecord]
BY PlansAreCommands, TypeOfRun DEF Inv, TypeOK, AllPlans, Local

LEMMA HeldType ==
    ASSUME Inv, NEW p \in Procs, NEW store \in Stores
    PROVE  Held(p, store) \in Secrets \cup {Nothing}
BY Here DEF Held, Inv, TypeOK, RunRecord

LEMMA CachedType ==
    ASSUME NEW store \in Stores, NEW s \in Secrets
    PROVE  Cached(store, s) \in [store: Stores, secret: Secrets]
BY DEF Cached

-----------------------------------------------------------------------------
(* Use and refresh *)

LEMMA OpenCore == ASSUME Inv, NEW p \in Procs, Open(p) PROVE Core(p)
<1> USE DEF disk, server, history
<1> DEFINE q == [run[p] EXCEPT !.pc = FirstStep(plan[p].kind), !.mem = file]
<1>1. run' = [run EXCEPT ![p] = q] /\ UNCHANGED <<plan, lock, expired, secret, file>>
  BY DEF Open
<1>2. run[p] \in RunRecord /\ run[p].pc = "start" /\ file \in Configs
      /\ Local(plan[p].kind, run[p])
  BY Here DEF Open, Inv, TypeOK
<1>3. \/ plan[p].kind \in Renewing /\ FirstStep(plan[p].kind) = "read"
      \/ plan[p].kind = "login" /\ FirstStep(plan[p].kind) = "name"
      \/ plan[p].kind \notin {"login", "use", "watch"} /\ FirstStep(plan[p].kind) = "lock"
  BY Here DEF FirstStep, Renewing
<1>4. q \in RunRecord
  BY <1>2, <1>3 DEF RunRecord, Locations
<1>5. Local(plan[p].kind, q)
  BY <1>2, <1>3, <1>4 DEF Local, RunRecord, Replacing, Removing, Renewing
<1>6. q.pc \in {"read", "name", "lock"} /\ q.result = "none"
  BY <1>2, <1>3 DEF RunRecord, Local
<1> QED BY <1>1, <1>5, <1>6, MoveCore DEF LockStep, Holding, Replacing, Removing

LEMMA ReadCore == ASSUME Inv, NEW p \in Procs, Read(p) PROVE Core(p)
<1> USE DEF disk, server, history
<1> DEFINE r == run[p]
           a == r.mem.account
           s == Held(p, a.store)
<1>1. /\ r \in RunRecord /\ Local(plan[p].kind, r) /\ UNCHANGED <<plan, expired, secret, file>>
      /\ r.pc = "read" /\ r.result = "none" /\ plan[p].kind \in Renewing
  BY Here DEF Read, Local
<1>2. CASE \E result \in {"unknown", "unreadable", "used"}: End(p, result)
  BY <1>1, <1>2, EndCore DEF Results, Renewing
<1>3. ASSUME a # Nothing, s \in Logins
      PROVE  /\ a \in Accounts /\ s \in Secrets
             /\ Cached(a.store, s) \in [store: Stores, secret: Secrets]
  BY <1>1, <1>3, CachedType DEF RunRecord, Configs, Accounts, Secrets
<1>4. CASE /\ a # Nothing /\ s \in Logins /\ lock' = lock
           /\ run' = [run EXCEPT ![p].pc = "exchange", ![p].hand = s,
                                ![p].cache = Cached(a.store, s)]
  <2> DEFINE q == [r EXCEPT !.pc = "exchange", !.hand = s, !.cache = Cached(a.store, s)]
  <2>1. run' = [run EXCEPT ![p] = q]
    BY <1>4
  <2>2. q \in RunRecord /\ q.pc = "exchange" /\ q.result = "none"
    BY <1>1, <1>3, <1>4 DEF RunRecord, Locations
  <2>3. Local(plan[p].kind, q)
    BY <1>1, <1>4, <2>2 DEF Local, RunRecord, Replacing, Removing
  <2> QED BY <1>1, <1>4, <2>1, <2>2, <2>3, MoveCore DEF LockStep, Holding, Replacing, Removing
<1>5. CASE /\ a # Nothing /\ s \in Logins /\ lock' = lock
           /\ run' = [run EXCEPT ![p].pc = "lock", ![p].cache = Cached(a.store, s)]
  <2> DEFINE q == [r EXCEPT !.pc = "lock", !.cache = Cached(a.store, s)]
  <2>1. run' = [run EXCEPT ![p] = q]
    BY <1>5
  <2>2. q \in RunRecord /\ q.pc = "lock" /\ q.result = "none"
    BY <1>1, <1>3, <1>5 DEF RunRecord, Locations
  <2>3. Local(plan[p].kind, q)
    BY <1>1, <1>3, <1>5, <2>2 DEF Local, RunRecord, Replacing, Removing, Renewing
  <2> QED BY <1>1, <1>5, <2>1, <2>2, <2>3, MoveCore DEF LockStep, Holding, Replacing, Removing
<1> QED
  BY <1>2, <1>4, <1>5 DEF Read

LEMMA LockCore == ASSUME Inv, NEW p \in Procs, Lock(p) PROVE Core(p)
<1> USE DEF disk, server, history
<1> DEFINE k == plan[p].kind
<1>1. /\ run[p] \in RunRecord /\ Local(k, run[p]) /\ UNCHANGED <<plan, expired, secret, file>>
      /\ run[p].pc = "lock" /\ run[p].result = "none" /\ k \in Kinds
  BY Here DEF Lock, Local
<1>2. CASE End(p, "locked out")
  BY <1>1, <1>2, EndCore DEF Results
<1>3. CASE Goto(p, "disown") /\ k = "login"
  <2> DEFINE q == [run[p] EXCEPT !.pc = "disown"]
  <2>1. run' = [run EXCEPT ![p] = q] /\ lock' = lock
    BY <1>3 DEF Goto
  <2>2. q \in RunRecord /\ q.pc = "disown" /\ q.result = "none"
    BY <1>1 DEF RunRecord, Locations
  <2>3. Local(k, q)
    BY <1>1, <1>3, <2>2 DEF Local, RunRecord, Replacing, Removing, Renewing
  <2> QED BY <1>1, <2>1, <2>2, <2>3, MoveCore DEF LockStep, Holding, Replacing, Removing
<1>4. CASE /\ lock = Nobody /\ lock' = p
           /\ run' = [run EXCEPT ![p].pc = Locked(k), ![p].cache = Nothing]
  <2> DEFINE q == [run[p] EXCEPT !.pc = Locked(k), !.cache = Nothing]
  <2>1. run' = [run EXCEPT ![p] = q]
    BY <1>4
  <2>2. \/ k \in Renewing /\ Locked(k) = "reread"
        \/ k \in {"login", "import"} /\ Locked(k) = "take"
        \/ k \in {"logout", "local"} /\ Locked(k) = "logout"
        \/ k = "profile" /\ Locked(k) = "profile"
    BY <1>1 DEF Locked, Kinds, Renewing
  <2>3. q \in RunRecord /\ q.pc = Locked(k) /\ q.result = "none"
    BY <1>1, <2>2 DEF RunRecord, Locations
  <2>4. Local(k, q)
    BY <1>1, <2>2, <2>3 DEF Local, RunRecord, Replacing, Removing, Renewing
  <2> QED BY <1>1, <1>4, <2>1, <2>2, <2>3, <2>4, MoveCore DEF LockStep, Holding, Replacing, Removing
<1> QED BY <1>2, <1>3, <1>4 DEF Lock

LEMMA RereadCore == ASSUME Inv, NEW p \in Procs, Reread(p) PROVE Core(p)
<1> USE DEF disk, server, history
<1> DEFINE r == run[p]
           a == r.mem.account
           s == Held(p, a.store)
<1>1. /\ r \in RunRecord /\ Local(plan[p].kind, r) /\ UNCHANGED <<plan, expired, secret, file>>
      /\ r.pc = "reread" /\ r.result = "none" /\ plan[p].kind \in Renewing
      /\ a \in Accounts /\ r.cache = Nothing /\ lock = p
  BY Here DEF Reread, Local, Own, Holding
<1>2. CASE End(p, "unreadable")
  BY <1>1, <1>2, EndCore DEF Results
<1>3. s = secret[a.store]
  BY <1>1 DEF Held
<1>4. ASSUME s \in Logins
      PROVE  s \in Secrets /\ Cached(a.store, s) \in [store: Stores, secret: Secrets]
  BY <1>1, <1>4, CachedType DEF Accounts, Secrets
<1>5. CASE /\ s \in Logins /\ Release(p)
           /\ run' = [run EXCEPT ![p].pc = "exchange", ![p].hand = s,
                                ![p].cache = Cached(a.store, s)]
  <2> DEFINE q == [r EXCEPT !.pc = "exchange", !.hand = s, !.cache = Cached(a.store, s)]
  <2>1. run' = [run EXCEPT ![p] = q] /\ LockStep(p)
    BY <1>5 DEF Release, LockStep
  <2>2. q \in RunRecord /\ q.pc = "exchange" /\ q.result = "none"
    <3>1. /\ s \in Secrets /\ Cached(a.store, s) \in [store: Stores, secret: Secrets]
          /\ r \in RunRecord /\ r.result = "none"
      BY <1>1, <1>4, <1>5
    <3> QED BY <3>1 DEF RunRecord, Locations
  <2>3. Local(plan[p].kind, q)
    BY <1>1, <1>5, <2>2 DEF Local, RunRecord, Replacing, Removing
  <2> QED BY <1>1, <2>1, <2>2, <2>3, MoveCore DEF Holding, Replacing, Removing
<1>6. CASE /\ s \in Logins /\ ~Fresh(s) /\ lock' = lock
           /\ run' = [run EXCEPT ![p].pc = "refreshing", ![p].hand = s, ![p].mark = "refresh",
                                ![p].cache = Cached(a.store, s)]
  <2> DEFINE q == [r EXCEPT !.pc = "refreshing", !.hand = s, !.mark = "refresh",
                            !.cache = Cached(a.store, s)]
  <2>1. run' = [run EXCEPT ![p] = q] /\ run'[p] = q
    BY <1>1, <1>6, Here
  <2>2. q \in RunRecord /\ q.pc = "refreshing" /\ q.result = "none" /\ q.hand = s /\ q.mem = r.mem
    <3>1. /\ s \in Secrets /\ Cached(a.store, s) \in [store: Stores, secret: Secrets]
          /\ r \in RunRecord /\ r.result = "none"
      BY <1>1, <1>4, <1>6
    <3> QED BY <3>1 DEF RunRecord, Locations, Marks
  <2>3. Local(plan[p].kind, q)
    BY <1>1, <1>6, <2>2 DEF Local, RunRecord, Replacing, Removing
  <2>4. Own(p)'
    BY <1>1, <1>3, <1>6, <2>1, <2>2 DEF Own, Fresh, Replacing, Removing
  <2> QED BY <1>1, <1>6, <2>1, <2>3, <2>4 DEF Core, LockStep, Inv, TypeOK
<1> QED BY <1>2, <1>5, <1>6 DEF Reread

LEMMA RefreshedCore == ASSUME Inv, NEW p \in Procs, Refreshed(p) PROVE Core(p)
<1> USE DEF disk, server, history
<1> DEFINE r == run[p]
<1>1. /\ r \in RunRecord /\ Local(plan[p].kind, r) /\ UNCHANGED <<plan, expired, secret, file>>
      /\ r.pc = "refreshing" /\ r.result = "none" /\ plan[p].kind \in Renewing
      /\ lock = p /\ r.hand \in Logins /\ r.hand.gen < MaxGen
      /\ secret[r.mem.account.store] = r.hand
  BY Here DEF Refreshed, Local, Own, Holding, Inv, Refreshable
<1>2. CASE \E result \in {"expired", "transport"}: End(p, result)
  BY <1>1, <1>2, EndCore DEF Results
<1>3. CASE lock' = lock /\ run' = [run EXCEPT ![p].pc = "store", ![p].hand.gen = @ + 1]
  <2> DEFINE h == [r.hand EXCEPT !.gen = @ + 1]
             q == [r EXCEPT !.pc = "store", !.hand = h]
  <2>1. run' = [run EXCEPT ![p] = q] /\ run'[p] = q
    BY <1>1, <1>3, Here DEF RunRecord
  <2>2. h \in Logins /\ h.session = r.hand.session
    BY <1>1, GenerationsAreNatural DEF Logins
  <2>3. q \in RunRecord /\ q.pc = "store" /\ q.result = "none" /\ q.hand = h /\ q.mem = r.mem
    <3>1. h \in Secrets /\ r \in RunRecord /\ r.result = "none"
      BY <1>1, <2>2 DEF Secrets
    <3> HIDE DEF h
    <3> QED BY <3>1 DEF RunRecord, Locations
  <2>4. Local(plan[p].kind, q)
    BY <1>1, <2>2, <2>3 DEF Local, RunRecord, Replacing, Removing
  <2>5. Own(p)'
    <3>1. /\ run'[p] = q /\ q.pc = "store" /\ q.result = "none" /\ q.mem = r.mem
          /\ secret'[q.mem.account.store] \in Logins
          /\ secret'[q.mem.account.store].session = q.hand.session /\ lock' = p
      BY <1>1, <1>3, <2>1, <2>2, <2>3
    <3> HIDE DEF q
    <3> QED BY <3>1 DEF Own, Replacing, Removing
  <2> QED BY <1>1, <1>3, <2>1, <2>4, <2>5 DEF Core, LockStep, Inv, TypeOK
<1> QED BY <1>2, <1>3 DEF Refreshed

LEMMA StoreRefreshedCore == ASSUME Inv, NEW p \in Procs, StoreRefreshed(p) PROVE Core(p)
<1> USE DEF disk, server, history
<1> DEFINE r == run[p]
           store == r.mem.account.store
<1>1. /\ r \in RunRecord /\ Local(plan[p].kind, r) /\ UNCHANGED <<plan, expired, file>>
      /\ r.pc = "store" /\ r.result = "none" /\ plan[p].kind \in Renewing
      /\ lock = p /\ r.hand \in Logins /\ r.hand \in Secrets /\ store \in Stores
  BY Here DEF StoreRefreshed, Local, Own, Holding, Accounts, Secrets
<1>2. secret' \in [Stores -> Secrets \cup {Nothing}]
  BY <1>1 DEF StoreRefreshed, SecretWrite, Inv, TypeOK
<1>3. \E q: /\ run' = [run EXCEPT ![p] = q] /\ Local(plan[p].kind, q)
            /\ q.pc \in {"exchange", "over"} /\ q.result # "saved"
  <2>1. CASE End(p, "write failed")
    <3> DEFINE q == [r EXCEPT !.pc = "over", !.result = "write failed"]
    <3>1. q \in RunRecord /\ q.pc = "over" /\ q.result = "write failed"
      BY <1>1 DEF RunRecord, Locations, Results
    <3>2. Local(plan[p].kind, q)
      BY <1>1, <3>1 DEF Local, RunRecord, Replacing, Removing
    <3> QED BY <2>1, <3>1, <3>2 DEF End
  <2>2. CASE run' = [run EXCEPT ![p].pc = "exchange", ![p].mark = "none",
                                ![p].cache = Cached(store, r.hand)]
    <3> DEFINE q == [r EXCEPT !.pc = "exchange", !.mark = "none", !.cache = Cached(store, r.hand)]
    <3>1. q \in RunRecord /\ q.pc = "exchange" /\ q.result = "none"
      BY <1>1, CachedType DEF RunRecord, Locations, Marks
    <3>2. Local(plan[p].kind, q)
      BY <1>1, <3>1 DEF Local, RunRecord, Replacing, Removing
    <3> QED BY <2>2, <3>1, <3>2
  <2> QED BY <2>1, <2>2 DEF StoreRefreshed
<1>4. PICK q: /\ run' = [run EXCEPT ![p] = q] /\ Local(plan[p].kind, q)
              /\ q.pc \in {"exchange", "over"} /\ q.result # "saved"
  BY <1>3
<1>5. run'[p] = q /\ LockStep(p)
  BY <1>4, Here DEF StoreRefreshed, End, Release, LockStep
<1>6. Own(p)'
  BY <1>1, <1>4, <1>5 DEF Own, Holding, Replacing, Removing
<1> QED BY <1>1, <1>2, <1>4, <1>5, <1>6 DEF Core, Holding, Inv, TypeOK

LEMMA ExchangeCore == ASSUME Inv, NEW p \in Procs, Exchange(p) PROVE Core(p)
<1> USE DEF disk, server, history
<1>1. /\ run[p] \in RunRecord /\ Local(plan[p].kind, run[p]) /\ run[p].result = "none" /\ run[p].pc = "exchange"
      /\ UNCHANGED <<plan, expired, secret, file>> /\ plan[p].kind \in Renewing
  BY Here DEF Exchange, Local
<1>2. CASE \E result \in {"used", "expired", "transport"}: End(p, result)
  BY <1>1, <1>2, EndCore DEF Results
<1>3. CASE run' = [run EXCEPT ![p].pc = "watching", ![p].watching = TRUE] /\ lock' = lock
  <2> DEFINE q == [run[p] EXCEPT !.pc = "watching", !.watching = TRUE]
  <2>1. run' = [run EXCEPT ![p] = q]
    BY <1>3
  <2>2. q \in RunRecord /\ q.pc = "watching" /\ q.result = "none"
    BY <1>1 DEF RunRecord, Locations
  <2>3. Local(plan[p].kind, q)
    BY <1>1, <2>2 DEF Local, RunRecord, Replacing, Removing
  <2> QED BY <1>1, <1>3, <2>1, <2>2, <2>3, MoveCore DEF LockStep, Holding, Replacing, Removing
<1> QED BY <1>2, <1>3 DEF Exchange

LEMMA ReauthorizeCore == ASSUME Inv, NEW p \in Procs, Reauthorize(p) PROVE Core(p)
<1> USE DEF disk, server, history
<1> DEFINE q == [run[p] EXCEPT !.pc = "read"]
<1>1. /\ run[p] \in RunRecord /\ Local(plan[p].kind, run[p]) /\ run[p].result = "none" /\ run[p].pc = "watching"
      /\ UNCHANGED <<plan, expired, secret, file, lock>> /\ plan[p].kind \in Renewing
      /\ run' = [run EXCEPT ![p] = q]
  BY Here DEF Reauthorize, Local, Goto
<1>2. q \in RunRecord /\ q.pc = "read" /\ q.result = "none"
  BY <1>1 DEF RunRecord, Locations
<1>3. Local(plan[p].kind, q)
  BY <1>1, <1>2 DEF Local, RunRecord, Replacing, Removing
<1> QED BY <1>1, <1>2, <1>3, MoveCore DEF LockStep, Holding, Replacing, Removing

-----------------------------------------------------------------------------
(* login and import *)

LEMMA CheckNameCore == ASSUME Inv, NEW p \in Procs, CheckName(p) PROVE Core(p)
<1> USE DEF disk, server, history
<1> DEFINE r == run[p]
           a == r.mem.account
           s == Held(p, a.store)
<1>1. /\ r \in RunRecord /\ Local(plan[p].kind, r) /\ UNCHANGED <<plan, expired, secret, file>>
      /\ r.pc = "name" /\ r.result = "none" /\ plan[p].kind = "login"
  BY Here DEF CheckName, Local
<1>2. CASE End(p, "in use")
  BY <1>1, <1>2, EndCore DEF Results
<1>3. CASE Goto(p, "ask")
  <2> DEFINE q == [r EXCEPT !.pc = "ask"]
  <2>1. run' = [run EXCEPT ![p] = q] /\ lock' = lock
    BY <1>3 DEF Goto
  <2>2. q \in RunRecord /\ q.pc = "ask" /\ q.result = "none"
    BY <1>1 DEF RunRecord, Locations
  <2>3. Local(plan[p].kind, q)
    BY <1>1, <2>2 DEF Local, RunRecord, Replacing, Removing, Renewing
  <2> QED BY <1>1, <2>1, <2>2, <2>3, MoveCore DEF LockStep, Holding, Replacing, Removing
<1>4. CASE /\ LoginAt(a, plan[p].origin) /\ s # Nothing /\ lock' = lock
           /\ run' = [run EXCEPT ![p].pc = "ask", ![p].cache = Cached(a.store, s)]
  <2> DEFINE q == [r EXCEPT !.pc = "ask", !.cache = Cached(a.store, s)]
  <2>1. run' = [run EXCEPT ![p] = q]
    BY <1>4
  <2>2. Cached(a.store, s) \in [store: Stores, secret: Secrets]
    <3>1. a.store \in Stores
      BY <1>1, <1>4 DEF LoginAt, RunRecord, Configs, Accounts
    <3> QED BY <3>1, <1>4, HeldType, CachedType
  <2>3. q \in RunRecord /\ q.pc = "ask" /\ q.result = "none"
    BY <1>1, <2>2 DEF RunRecord, Locations
  <2>4. Local(plan[p].kind, q)
    BY <1>1, <2>3 DEF Local, RunRecord, Replacing, Removing, Renewing
  <2> QED BY <1>1, <1>4, <2>1, <2>3, <2>4, MoveCore DEF LockStep, Holding, Replacing, Removing
<1> QED BY <1>2, <1>3, <1>4 DEF CheckName

LEMMA AskGrantCore == ASSUME Inv, NEW p \in Procs, AskGrant(p) PROVE Core(p)
<1> USE DEF disk, server, history
<1> DEFINE r == run[p]
<1>1. /\ r \in RunRecord /\ Local(plan[p].kind, r) /\ UNCHANGED <<plan, expired, secret, file>>
      /\ r.pc = "ask" /\ r.result = "none" /\ plan[p].kind = "login"
  BY Here DEF AskGrant, Local
<1>2. CASE End(p, "denied")
  BY <1>1, <1>2, EndCore DEF Results
<1>3. CASE run' = [run EXCEPT ![p].pc = "polling", ![p].mark = "login"] /\ lock' = lock
  <2> DEFINE q == [r EXCEPT !.pc = "polling", !.mark = "login"]
  <2>1. run' = [run EXCEPT ![p] = q]
    BY <1>3
  <2>2. q \in RunRecord /\ q.pc = "polling" /\ q.result = "none"
    BY <1>1 DEF RunRecord, Locations, Marks
  <2>3. Local(plan[p].kind, q)
    BY <1>1, <2>2 DEF Local, RunRecord, Replacing, Removing, Renewing
  <2> QED BY <1>1, <1>3, <2>1, <2>2, <2>3, MoveCore DEF LockStep, Holding, Replacing, Removing
<1> QED BY <1>2, <1>3 DEF AskGrant

LEMMA PolledCore == ASSUME Inv, NEW p \in Procs, Polled(p) PROVE Core(p)
<1> USE DEF disk, server, history
<1> DEFINE r == run[p]
<1>1. /\ r \in RunRecord /\ Local(plan[p].kind, r) /\ UNCHANGED <<plan, expired, secret, file>>
      /\ r.pc = "polling" /\ r.result = "none" /\ plan[p].kind = "login"
  BY Here DEF Polled, Local
<1>2. CASE \E result \in {"denied", "transport"}: End(p, result)
  BY <1>1, <1>2, EndCore DEF Results
<1>3. CASE /\ run' = [run EXCEPT ![p].pc = "identify", ![p].hand = [session |-> p, gen |-> 0]]
           /\ lock' = lock
  <2> DEFINE q == [r EXCEPT !.pc = "identify", !.hand = [session |-> p, gen |-> 0]]
  <2>1. run' = [run EXCEPT ![p] = q]
    BY <1>3
  <2>2. [session |-> p, gen |-> 0] \in Logins
    BY GenerationsAreNatural DEF Logins, Sessions
  <2>3. q \in RunRecord /\ q.pc = "identify" /\ q.result = "none" /\ q.hand \in Logins
    BY <1>1, <2>2 DEF RunRecord, Locations, Secrets
  <2>4. Local(plan[p].kind, q)
    BY <1>1, <2>3 DEF Local, RunRecord, Replacing, Removing, Renewing
  <2> QED BY <1>1, <1>3, <2>1, <2>3, <2>4, MoveCore DEF LockStep, Holding, Replacing, Removing
<1>4. CASE run' = [run EXCEPT ![p].pc = "ask", ![p].mark = "none"] /\ lock' = lock
  <2> DEFINE q == [r EXCEPT !.pc = "ask", !.mark = "none"]
  <2>1. run' = [run EXCEPT ![p] = q]
    BY <1>4
  <2>2. q \in RunRecord /\ q.pc = "ask" /\ q.result = "none"
    BY <1>1 DEF RunRecord, Locations, Marks
  <2>3. Local(plan[p].kind, q)
    BY <1>1, <2>2 DEF Local, RunRecord, Replacing, Removing, Renewing
  <2> QED BY <1>1, <1>4, <2>1, <2>2, <2>3, MoveCore DEF LockStep, Holding, Replacing, Removing
<1> QED BY <1>2, <1>3, <1>4 DEF Polled

LEMMA IdentifyCore == ASSUME Inv, NEW p \in Procs, Identify(p) PROVE Core(p)
<1> USE DEF disk, server, history
<1> DEFINE r == run[p]
<1>1. /\ r \in RunRecord /\ Local(plan[p].kind, r) /\ UNCHANGED <<plan, expired, secret, file, lock>>
      /\ r.pc = "identify" /\ r.result = "none" /\ plan[p].kind = "login" /\ r.hand \in Logins
  BY Here DEF Identify, Local, Goto
<1>2. CASE Goto(p, "disown")
  <2> DEFINE q == [r EXCEPT !.pc = "disown"]
  <2>1. run' = [run EXCEPT ![p] = q]
    BY <1>2 DEF Goto
  <2>2. q \in RunRecord /\ q.pc = "disown" /\ q.result = "none"
    BY <1>1 DEF RunRecord, Locations
  <2>3. Local(plan[p].kind, q)
    BY <1>1, <2>2 DEF Local, RunRecord, Replacing, Removing, Renewing
  <2> QED BY <1>1, <2>1, <2>2, <2>3, MoveCore DEF LockStep, Holding, Replacing, Removing
<1>3. CASE \E store \in Stores:
              run' = [run EXCEPT ![p].pc = "lock",
                                 ![p].entry = [kind |-> "login", store |-> store,
                                               origin |-> plan[p].origin]]
  <2>1. PICK store \in Stores:
              run' = [run EXCEPT ![p].pc = "lock",
                                 ![p].entry = [kind |-> "login", store |-> store,
                                               origin |-> plan[p].origin]]
    BY <1>3
  <2> DEFINE e == [kind |-> "login", store |-> store, origin |-> plan[p].origin]
             q == [r EXCEPT !.pc = "lock", !.entry = e]
  <2>2. run' = [run EXCEPT ![p] = q]
    BY <2>1
  <2>3. e \in Accounts
    BY Here DEF Accounts
  <2> HIDE DEF e
  <2>4. q \in RunRecord /\ q.pc = "lock" /\ q.result = "none" /\ q.entry = e
    BY <1>1, <2>3 DEF RunRecord, Locations
  <2>5. Local(plan[p].kind, q)
    BY <1>1, <2>3, <2>4 DEF Local, RunRecord, Replacing, Removing, Renewing
  <2> QED BY <1>1, <2>2, <2>4, <2>5, MoveCore DEF LockStep, Holding, Replacing, Removing
<1>4. ASSUME NEW store,
             store = CASE plan[p].store # "default" -> plan[p].store
                       [] plan[p].store = "default" /\ LoginAt(r.mem.account, plan[p].origin)
                            -> r.mem.account.store
                       [] OTHER -> "keychain"
      PROVE  store \in Stores
  <2>1. LoginAt(r.mem.account, plan[p].origin) => r.mem.account.store \in Stores
    BY <1>1 DEF LoginAt, RunRecord, Configs, Accounts
  <2> QED BY <1>4, <2>1, Here DEF Stores
<1> QED BY <1>2, <1>3, <1>4 DEF Identify

\* A step under the lock.
LEMMA HolderCore ==
    ASSUME Inv, NEW p \in Procs, NEW q, run' = [run EXCEPT ![p] = q],
           Local(plan[p].kind, q), LockStep(p), UNCHANGED <<plan, expired>>,
           run[p].pc \in Holding,
           q.pc \in Holding => lock' = p,
           q.pc \notin {"refreshing", "store"},
           file' \in Configs, secret' \in [Stores -> Secrets \cup {Nothing}],
           file.profiles \subseteq file'.profiles,
           q.pc \in Replacing \cup Removing => q.mem.profiles = file'.profiles,
           plan[p].kind = "profile" /\ q.result = "saved" => p \in file'.profiles
    PROVE  Core(p)
<1>1. run'[p] = q
  BY DEF Inv, TypeOK
<1>2. Own(p)'
  BY <1>1 DEF Own
<1> QED BY <1>2 DEF Core

LEMMA StoresType ==
    ASSUME Inv
    PROVE  /\ file \in Configs /\ secret \in [Stores -> Secrets \cup {Nothing}]
           /\ file.account \in Accounts \cup {Nothing} /\ file.profiles \subseteq Procs
BY DEF Inv, TypeOK, Configs

LEMMA TakeCore == ASSUME Inv, NEW p \in Procs, Take(p) PROVE Core(p)
<1> USE DEF disk, server, history
<1> DEFINE r == run[p]
           a == file.account
           k == plan[p].kind
<1>1. /\ r \in RunRecord /\ Local(k, r) /\ UNCHANGED <<plan, expired, secret, file>>
      /\ r.pc = "take" /\ r.result = "none" /\ k \in {"login", "import"} /\ lock = p
      /\ k = "login" => r.hand \in Logins /\ r.entry \in Accounts
  BY Here DEF Take, Local, Own, Holding
<1>2. CASE k = "import" /\ End(p, "in use")
  BY <1>1, <1>2, EndCore DEF Results
<1>3. CASE k = "login" /\ Release(p) /\ run' = [run EXCEPT ![p].pc = "disown", ![p].mem = file]
  <2> DEFINE q == [r EXCEPT !.pc = "disown", !.mem = file]
  <2>1. run' = [run EXCEPT ![p] = q] /\ LockStep(p)
    BY <1>3 DEF Release, LockStep
  <2>2. q \in RunRecord /\ q.pc = "disown" /\ q.result = "none"
    BY <1>1, StoresType DEF RunRecord, Locations
  <2>3. Local(k, q)
    BY <1>1, <1>3, <2>2 DEF Local, RunRecord, Replacing, Removing, Renewing
  <2> QED BY <1>1, <2>1, <2>2, <2>3, MoveCore DEF Holding, Replacing, Removing
<1>4. CASE /\ lock' = lock
           /\ run' = [run EXCEPT ![p].pc = "write", ![p].mem = file, ![p].entry = Entry(p)]
  <2> DEFINE q == [r EXCEPT !.pc = "write", !.mem = file, !.entry = Entry(p)]
  <2>1. run' = [run EXCEPT ![p] = q] /\ LockStep(p)
    BY <1>4 DEF LockStep
  <2>2. Imported(p) \in Accounts
    BY OriginsAreKnown DEF Imported, Accounts, Stores
  <2>3. Entry(p) \in Accounts
    BY <1>1, <2>2 DEF Entry
  <2>4. q \in RunRecord /\ q.pc = "write" /\ q.result = "none" /\ q.entry \in Accounts /\ q.mem = file
    BY <1>1, <2>3, StoresType DEF RunRecord, Locations
  <2>5. Local(k, q)
    BY <1>1, <2>4 DEF Local, RunRecord, Replacing, Removing, Renewing
  <2> QED
    BY <1>1, <1>4, <2>1, <2>4, <2>5, HolderCore, StoresType DEF Holding, Replacing, Removing
<1>5. CASE /\ lock' = lock /\ k = "login" /\ LoginAt(a, plan[p].origin) /\ secret[a.store] \in Logins
           /\ run' = [run EXCEPT ![p].pc = "write", ![p].mem = file,
                                ![p].cache = Cached(a.store, secret[a.store]),
                                ![p].old = [account |-> a, login |-> secret[a.store]]]
  <2> DEFINE c == Cached(a.store, secret[a.store])
             o == [account |-> a, login |-> secret[a.store]]
             q == [r EXCEPT !.pc = "write", !.mem = file, !.cache = c, !.old = o]
  <2>1. run' = [run EXCEPT ![p] = q] /\ LockStep(p)
    BY <1>5 DEF LockStep
  <2>2. a \in Accounts /\ a.store \in Stores /\ secret[a.store] \in Secrets
    BY <1>5, StoresType DEF LoginAt, Accounts, Secrets
  <2>3. /\ c \in [store: Stores, secret: Secrets]
        /\ o \in [account: Accounts, login: Logins]
    BY <1>5, <2>2, CachedType
  <2> HIDE DEF c, o
  <2>4. /\ q \in RunRecord /\ q.pc = "write" /\ q.result = "none" /\ q.entry = r.entry
        /\ q.mem = file /\ q.old = o
    BY <1>1, <2>3, StoresType DEF RunRecord, Locations
  <2>5. q.mark = r.mark /\ q.hand = r.hand /\ r.mark # "revoke"
    BY <1>1 DEF Local, RunRecord
  <2>6. Local(k, q)
    BY <1>1, <1>5, <2>4, <2>5 DEF Local, RunRecord, Replacing, Removing, Renewing
  <2> QED
    BY <1>1, <1>5, <2>1, <2>4, <2>6, HolderCore, StoresType DEF Holding, Replacing, Removing
<1> QED BY <1>2, <1>3, <1>4, <1>5 DEF Take

LEMMA WriteSecretCore == ASSUME Inv, NEW p \in Procs, WriteSecret(p) PROVE Core(p)
<1> USE DEF disk, server, history
<1> DEFINE r == run[p]
           k == plan[p].kind
           store == r.entry.store
           new == NewSecret(p)
<1>1. /\ r \in RunRecord /\ Local(k, r) /\ UNCHANGED <<plan, expired, file, lock>>
      /\ r.pc = "write" /\ r.result = "none" /\ k \in {"login", "import"} /\ lock = p
      /\ r.entry \in Accounts /\ store \in Stores /\ r.mem.profiles = file.profiles
  BY Here DEF WriteSecret, Local, Own, Holding, Replacing, Accounts
<1>2. new \in Secrets
  BY <1>1 DEF NewSecret, Secrets, Local, Replacing
<1>3. secret' \in [Stores -> Secrets \cup {Nothing}]
  BY <1>1, <1>2, StoresType DEF WriteSecret, SecretWrite
<1>4. CASE run' = [run EXCEPT ![p].pc = "save", ![p].cache = Cached(store, new)]
  <2> DEFINE q == [r EXCEPT !.pc = "save", !.cache = Cached(store, new)]
  <2>1. run' = [run EXCEPT ![p] = q] /\ LockStep(p)
    BY <1>1, <1>4 DEF LockStep
  <2>2. q \in RunRecord /\ q.pc = "save" /\ q.result = "none" /\ q.mem = r.mem
    BY <1>1, <1>2, CachedType DEF RunRecord, Locations
  <2>3. Local(k, q)
    BY <1>1, <2>2 DEF Local, RunRecord, Replacing, Removing, Renewing
  <2> QED
    BY <1>1, <1>3, <2>1, <2>2, <2>3, HolderCore, StoresType DEF Holding, Replacing, Removing
<1>5. CASE run' = [run EXCEPT ![p].pc = "undo", ![p].cache = Nothing]
  <2> DEFINE q == [r EXCEPT !.pc = "undo", !.cache = Nothing]
  <2>1. run' = [run EXCEPT ![p] = q] /\ LockStep(p)
    BY <1>1, <1>5 DEF LockStep
  <2>2. q \in RunRecord /\ q.pc = "undo" /\ q.result = "none" /\ q.mem = r.mem
    BY <1>1 DEF RunRecord, Locations
  <2>3. Local(k, q)
    BY <1>1, <2>2 DEF Local, RunRecord, Replacing, Removing, Renewing
  <2> QED
    BY <1>1, <1>3, <2>1, <2>2, <2>3, HolderCore, StoresType DEF Holding, Replacing, Removing
<1> QED BY <1>4, <1>5 DEF WriteSecret

LEMMA SaveAccountCore == ASSUME Inv, NEW p \in Procs, SaveAccount(p) PROVE Core(p)
<1> USE DEF disk, server, history
<1> DEFINE r == run[p]
           k == plan[p].kind
           c == [r.mem EXCEPT !.account = r.entry]
<1>1. /\ r \in RunRecord /\ Local(k, r) /\ UNCHANGED <<plan, expired, secret, lock>>
      /\ r.pc = "save" /\ r.result = "none" /\ k \in {"login", "import"} /\ lock = p
      /\ r.entry \in Accounts /\ r.mem.profiles = file.profiles
  BY Here DEF SaveAccount, Local, Own, Holding, Replacing
<1>2. c \in Configs /\ c.profiles = file.profiles
  BY <1>1 DEF RunRecord, Configs
<1>3. file' \in Configs /\ file'.profiles = file.profiles
  BY <1>2, StoresType DEF SaveAccount, ConfigWrite
<1>4. ASSUME NEW l \in {"undo", "discard", "saved"}, l = "discard" => r.old # Nothing,
             run' = [run EXCEPT ![p].pc = l, ![p].mem = c]
      PROVE  Core(p)
  <2> DEFINE q == [r EXCEPT !.pc = l, !.mem = c]
  <2>1. run' = [run EXCEPT ![p] = q] /\ LockStep(p)
    BY <1>1, <1>4 DEF LockStep
  <2> HIDE DEF c
  <2>2. /\ q \in RunRecord /\ q.pc = l /\ q.result = "none" /\ q.mem = c
        /\ q.entry = r.entry /\ q.old = r.old /\ q.mark = r.mark /\ q.hand = r.hand
    BY <1>1, <1>2 DEF RunRecord, Locations
  <2>3. Local(k, q)
    BY <1>1, <1>4, <2>2 DEF Local, Replacing, Removing, Renewing
  <2> QED
    BY <1>1, <1>2, <1>3, <2>1, <2>2, <2>3, HolderCore, StoresType DEF Holding, Replacing, Removing
<1> QED BY <1>4 DEF SaveAccount, Moves

LEMMA DiscardCore == ASSUME Inv, NEW p \in Procs, Discard(p) PROVE Core(p)
<1> USE DEF disk, server, history
<1> DEFINE r == run[p]
           k == plan[p].kind
           q == [r EXCEPT !.pc = "saved"]
<1>1. /\ r \in RunRecord /\ Local(k, r) /\ UNCHANGED <<plan, expired, file, lock>>
      /\ r.pc = "discard" /\ r.result = "none" /\ k \in {"login", "import"} /\ lock = p
      /\ r.mem.profiles = file.profiles /\ run' = [run EXCEPT ![p] = q]
  BY Here DEF Discard, Goto, Local, Own, Holding, Replacing
<1>2. secret' \in [Stores -> Secrets \cup {Nothing}]
  BY StoresType DEF Discard, DiscardSecret
<1>3. q \in RunRecord /\ q.pc = "saved" /\ q.result = "none" /\ q.mem = r.mem
  BY <1>1 DEF RunRecord, Locations
<1>4. Local(k, q)
  BY <1>1, <1>3 DEF Local, RunRecord, Replacing, Removing, Renewing
<1> QED
  BY <1>1, <1>2, <1>3, <1>4, HolderCore, StoresType DEF LockStep, Holding, Replacing, Removing

LEMMA SavedCore == ASSUME Inv, NEW p \in Procs, Saved(p) PROVE Core(p)
<1> USE DEF disk, server, history
<1> DEFINE r == run[p]
           k == plan[p].kind
<1>1. /\ r \in RunRecord /\ Local(k, r) /\ UNCHANGED <<plan, expired, file, secret>>
      /\ r.pc = "saved" /\ r.result = "none" /\ k \in {"login", "import"} /\ LockStep(p)
  BY Here DEF Saved, Local, Release, LockStep, Replacing
<1>2. CASE run' = [run EXCEPT ![p].pc = "over", ![p].result = "saved", ![p].mark = "none"]
  <2> DEFINE q == [r EXCEPT !.pc = "over", !.result = "saved", !.mark = "none"]
  <2>1. run' = [run EXCEPT ![p] = q]
    BY <1>2
  <2>2. q \in RunRecord /\ q.pc = "over" /\ q.mark = "none"
    BY <1>1 DEF RunRecord, Locations, Results, Marks
  <2>3. Local(k, q)
    BY <2>2 DEF Local, Replacing, Removing
  <2> QED BY <1>1, <2>1, <2>2, <2>3, MoveCore DEF Holding, Replacing, Removing
<1>3. CASE r.old # Nothing /\ run' = [run EXCEPT ![p].pc = "revoking", ![p].mark = "revoke"]
  <2> DEFINE q == [r EXCEPT !.pc = "revoking", !.mark = "revoke"]
  <2>1. run' = [run EXCEPT ![p] = q]
    BY <1>3
  <2>2. q \in RunRecord /\ q.pc = "revoking" /\ q.result = "none" /\ q.old = r.old
    BY <1>1 DEF RunRecord, Locations, Marks
  <2>3. Local(k, q)
    BY <1>1, <1>3, <2>2 DEF Local, RunRecord, Replacing, Removing, Renewing
  <2> QED BY <1>1, <2>1, <2>2, <2>3, MoveCore DEF Holding, Replacing, Removing
<1> QED BY <1>2, <1>3 DEF Saved

LEMMA UndoCore == ASSUME Inv, NEW p \in Procs, Undo(p) PROVE Core(p)
<1> USE DEF disk, server, history
<1> DEFINE r == run[p]
           k == plan[p].kind
           q == [r EXCEPT !.pc = "putback"]
<1>1. /\ r \in RunRecord /\ Local(k, r) /\ UNCHANGED <<plan, expired, file, lock>>
      /\ r.pc = "undo" /\ r.result = "none" /\ k \in {"login", "import"} /\ lock = p
      /\ r.mem.profiles = file.profiles /\ run' = [run EXCEPT ![p] = q]
  BY Here DEF Undo, Goto, Local, Own, Holding, Replacing
<1>2. secret' \in [Stores -> Secrets \cup {Nothing}]
  BY StoresType DEF Undo, DiscardSecret
<1>3. q \in RunRecord /\ q.pc = "putback" /\ q.result = "none" /\ q.mem = r.mem
  BY <1>1 DEF RunRecord, Locations
<1>4. Local(k, q)
  BY <1>1, <1>3 DEF Local, RunRecord, Replacing, Removing, Renewing
<1> QED
  BY <1>1, <1>2, <1>3, <1>4, HolderCore, StoresType DEF LockStep, Holding, Replacing, Removing

LEMMA PutBackCore == ASSUME Inv, NEW p \in Procs, PutBack(p) PROVE Core(p)
<1> USE DEF disk, server, history
<1> DEFINE r == run[p]
           k == plan[p].kind
<1>1. /\ r \in RunRecord /\ Local(k, r) /\ UNCHANGED <<plan, expired, file, lock>>
      /\ r.pc = "putback" /\ r.result = "none" /\ k \in {"login", "import"} /\ lock = p
      /\ r.mem.profiles = file.profiles
  BY Here DEF PutBack, Local, Own, Holding, Replacing
<1>2. secret' \in [Stores -> Secrets \cup {Nothing}]
  <2>1. r.old # Nothing => r.old.login \in Secrets
    BY <1>1 DEF RunRecord, Secrets
  <2> QED BY <2>1, StoresType DEF PutBack, SecretWrite
<1>3. CASE run' = [run EXCEPT ![p].pc = "resave", ![p].mem.account = Nothing]
  <2> DEFINE q == [r EXCEPT !.pc = "resave", !.mem.account = Nothing]
  <2>1. run' = [run EXCEPT ![p] = q]
    BY <1>3
  <2>2. /\ q \in RunRecord /\ q.pc = "resave" /\ q.result = "none"
        /\ q.mem.profiles = r.mem.profiles
    BY <1>1 DEF RunRecord, Locations, Configs
  <2>3. Local(k, q)
    BY <1>1, <2>2 DEF Local, RunRecord, Replacing, Removing, Renewing
  <2> QED
    BY <1>1, <1>2, <2>1, <2>2, <2>3, HolderCore, StoresType
    DEF LockStep, Holding, Replacing, Removing
<1>4. ASSUME NEW hint \in BOOLEAN, r.old # Nothing,
             run' = [run EXCEPT ![p].pc = "resave", ![p].mem.account = r.old.account,
                                ![p].hint = hint]
      PROVE  Core(p)
  <2> DEFINE q == [r EXCEPT !.pc = "resave", !.mem.account = r.old.account, !.hint = hint]
  <2>1. run' = [run EXCEPT ![p] = q] /\ r.old.account \in Accounts
    BY <1>1, <1>4 DEF RunRecord
  <2>2. /\ q \in RunRecord /\ q.pc = "resave" /\ q.result = "none"
        /\ q.mem.profiles = r.mem.profiles
    BY <1>1, <2>1 DEF RunRecord, Locations, Configs
  <2>3. Local(k, q)
    BY <1>1, <2>2 DEF Local, RunRecord, Replacing, Removing, Renewing
  <2> QED
    BY <1>1, <1>2, <2>1, <2>2, <2>3, HolderCore, StoresType
    DEF LockStep, Holding, Replacing, Removing
<1> QED BY <1>3, <1>4 DEF PutBack

LEMMA ResaveCore == ASSUME Inv, NEW p \in Procs, Resave(p) PROVE Core(p)
<1> USE DEF disk, server, history
<1> DEFINE r == run[p]
           k == plan[p].kind
<1>1. /\ r \in RunRecord /\ Local(k, r) /\ UNCHANGED <<plan, expired, secret>> /\ LockStep(p)
      /\ r.pc = "resave" /\ r.result = "none" /\ k \in {"login", "import"} /\ lock = p
      /\ r.mem.profiles = file.profiles
  BY Here DEF Resave, Local, Own, Holding, Replacing, Release, LockStep
<1>2. file' \in Configs /\ file'.profiles = file.profiles
  BY <1>1, StoresType DEF Resave, ConfigWrite, RunRecord
<1>3. PICK hint \in BOOLEAN:
        run' = [run EXCEPT ![p].hint = hint,
                           ![p].pc = IF k = "login" THEN "disown" ELSE "over",
                           ![p].result = IF k = "login" THEN @ ELSE "not saved"]
  BY <1>1 DEF Resave, RunRecord
<1>4. CASE k = "login"
  <2> DEFINE q == [r EXCEPT !.hint = hint, !.pc = "disown", !.result = r.result]
  <2>1. run' = [run EXCEPT ![p] = q]
    BY <1>1, <1>3, <1>4, Here DEF RunRecord
  <2>2. q \in RunRecord /\ q.pc = "disown" /\ q.result = "none"
    BY <1>1 DEF RunRecord, Locations
  <2>3. Local(k, q)
    BY <1>1, <1>4, <2>2 DEF Local, RunRecord, Replacing, Removing, Renewing
  <2> QED
    BY <1>1, <1>2, <2>1, <2>2, <2>3, HolderCore, StoresType DEF Holding, Replacing, Removing
<1>5. CASE k # "login"
  <2> DEFINE q == [r EXCEPT !.hint = hint, !.pc = "over", !.result = "not saved"]
  <2>1. run' = [run EXCEPT ![p] = q]
    BY <1>1, <1>3, <1>5, Here DEF RunRecord
  <2>2. q \in RunRecord /\ q.pc = "over" /\ q.result = "not saved"
    BY <1>1 DEF RunRecord, Locations, Results
  <2>3. Local(k, q)
    BY <1>1, <1>5, <2>2 DEF Local, RunRecord, Replacing, Removing, Renewing
  <2> QED
    BY <1>1, <1>2, <2>1, <2>2, <2>3, HolderCore, StoresType DEF Holding, Replacing, Removing
<1> QED BY <1>4, <1>5

LEMMA DisownCore == ASSUME Inv, NEW p \in Procs, Disown(p) PROVE Core(p)
<1> USE DEF disk, server, history
<1> DEFINE r == run[p]
           q == [r EXCEPT !.pc = "disowning"]
<1>1. /\ r \in RunRecord /\ Local(plan[p].kind, r) /\ UNCHANGED <<plan, expired, secret, file, lock>>
      /\ r.pc = "disown" /\ r.result = "none" /\ plan[p].kind = "login" /\ r.hand \in Logins
      /\ run' = [run EXCEPT ![p] = q]
  BY Here DEF Disown, Local, Goto
<1>2. q \in RunRecord /\ q.pc = "disowning" /\ q.result = "none"
  BY <1>1 DEF RunRecord, Locations
<1>3. Local(plan[p].kind, q)
  BY <1>1, <1>2 DEF Local, RunRecord, Replacing, Removing, Renewing
<1> QED BY <1>1, <1>2, <1>3, MoveCore DEF LockStep, Holding, Replacing, Removing

LEMMA RevokedCore == ASSUME Inv, NEW p \in Procs, Revoked(p) PROVE Core(p)
<1> USE DEF disk, server, history
<1> DEFINE r == run[p]
<1>1. /\ r \in RunRecord /\ Local(plan[p].kind, r) /\ UNCHANGED <<plan, expired, secret, file, lock>>
      /\ r.result = "none" /\ plan[p].kind \in {"login", "import"}
  BY Here DEF Revoked, Local
<1>2. PICK result \in {"saved", "not saved"}:
        run' = [run EXCEPT ![p].pc = "over", ![p].mark = "none", ![p].result = result]
  <2>1. CASE r.pc = "revoking"
    BY <2>1 DEF Revoked
  <2>2. CASE r.pc # "revoking"
    BY <2>2 DEF Revoked
  <2> QED BY <2>1, <2>2
<1> DEFINE q == [r EXCEPT !.pc = "over", !.mark = "none", !.result = result]
<1>3. q \in RunRecord /\ q.pc = "over" /\ q.mark = "none"
  <2>1. result \in Results /\ "over" \in Locations /\ "none" \in Marks /\ r \in RunRecord
    BY <1>1 DEF Locations, Marks, Results
  <2> QED BY <2>1 DEF RunRecord
<1>4. Local(plan[p].kind, q)
  BY <1>3 DEF Local, Replacing, Removing
<1> QED BY <1>1, <1>2, <1>3, <1>4, MoveCore DEF LockStep, Holding, Replacing, Removing

-----------------------------------------------------------------------------
(* logout, logout --local and profiles create *)

LEMMA LogoutCore == ASSUME Inv, NEW p \in Procs, Logout(p) PROVE Core(p)
<1> USE DEF disk, server, history
<1> DEFINE r == run[p]
           k == plan[p].kind
           a == file.account
<1>1. /\ r \in RunRecord /\ Local(k, r) /\ UNCHANGED <<plan, expired, secret, file>>
      /\ r.pc = "logout" /\ r.result = "none" /\ k \in {"logout", "local"} /\ lock = p
  BY Here DEF Logout, Local, Own, Holding
<1>2. CASE \E result \in {"unknown", "unreadable"}: End(p, result)
  BY <1>1, <1>2, EndCore DEF Results
<1>3. CASE /\ a # Nothing /\ lock' = lock
           /\ run' = [run EXCEPT ![p].pc = "remove", ![p].mem = file]
  <2> DEFINE q == [r EXCEPT !.pc = "remove", !.mem = file]
  <2>1. run' = [run EXCEPT ![p] = q]
    BY <1>3
  <2>2. /\ q \in RunRecord /\ q.pc = "remove" /\ q.result = "none" /\ q.mem = file
        /\ file.account \in Accounts
    BY <1>1, <1>3, StoresType DEF RunRecord, Locations
  <2>3. Local(k, q)
    BY <1>1, <2>2 DEF Local, RunRecord, Replacing, Removing, Renewing
  <2> QED
    BY <1>1, <1>3, <2>1, <2>2, <2>3, HolderCore, StoresType
    DEF LockStep, Holding, Replacing, Removing
<1>4. CASE /\ a # Nothing /\ secret[a.store] \in Logins /\ lock' = lock
           /\ run' = [run EXCEPT ![p].pc = "logging out", ![p].mem = file,
                                ![p].hand = secret[a.store], ![p].mark = "logout",
                                ![p].cache = Cached(a.store, secret[a.store])]
  <2> DEFINE h == secret[a.store]
             c == Cached(a.store, h)
             q == [r EXCEPT !.pc = "logging out", !.mem = file, !.hand = h, !.mark = "logout",
                            !.cache = c]
  <2>1. run' = [run EXCEPT ![p] = q]
    BY <1>4
  <2>2. a \in Accounts /\ a.store \in Stores /\ h \in Logins /\ h \in Secrets
    BY <1>4, StoresType DEF Accounts, Secrets
  <2>3. c \in [store: Stores, secret: Secrets]
    BY <2>2, CachedType
  <2> HIDE DEF c, h
  <2>4. /\ q \in RunRecord /\ q.pc = "logging out" /\ q.result = "none" /\ q.mem = file
        /\ q.hand = h /\ q.mark = "logout"
    BY <1>1, <2>2, <2>3, StoresType DEF RunRecord, Locations, Marks
  <2>5. Local(k, q)
    BY <1>1, <2>2, <2>4 DEF Local, Replacing, Removing, Renewing
  <2> QED
    BY <1>1, <1>4, <2>1, <2>4, <2>5, HolderCore, StoresType
    DEF LockStep, Holding, Replacing, Removing
<1> QED BY <1>2, <1>3, <1>4 DEF Logout

\* The steps that remove an account under the lock.
LEMMA RemovingHere ==
    ASSUME Inv, NEW p \in Procs, run[p].pc \in Removing
    PROVE  /\ run[p] \in RunRecord /\ Local(plan[p].kind, run[p])
           /\ run[p].result = "none" /\ plan[p].kind \in {"logout", "local"} /\ lock = p
           /\ run[p].mem.account \in Accounts /\ run[p].mem.account.store \in Stores
           /\ run[p].mem.profiles = file.profiles
BY Here DEF Local, Own, Holding, Removing, Accounts

LEMMA OnwardCore ==
    ASSUME Inv, NEW p \in Procs, run[p].pc \in Removing, NEW l \in Removing, Goto(p, l),
           UNCHANGED <<plan, expired, file>>, secret' \in [Stores -> Secrets \cup {Nothing}]
    PROVE  Core(p)
<1> DEFINE q == [run[p] EXCEPT !.pc = l]
<1>1. run' = [run EXCEPT ![p] = q] /\ lock' = lock
  BY DEF Goto
<1>2. /\ q \in RunRecord /\ q.pc = l /\ q.result = "none" /\ q.mem = run[p].mem
  <2>1. l \in Locations /\ run[p] \in RunRecord /\ run[p].result = "none"
    BY RemovingHere DEF Locations, Removing
  <2> QED BY <2>1 DEF RunRecord
<1>3. Local(plan[p].kind, q)
  BY <1>2, RemovingHere DEF Local, RunRecord, Replacing, Removing, Renewing
<1> QED
  BY <1>1, <1>2, <1>3, RemovingHere, HolderCore, StoresType
  DEF LockStep, Holding, Replacing, Removing

LEMMA LogoutRevokedCore == ASSUME Inv, NEW p \in Procs, LogoutRevoked(p) PROVE Core(p)
<1> USE DEF disk, server, history
<1>1. run[p].pc \in Removing /\ UNCHANGED <<plan, expired, secret, file>>
  BY DEF LogoutRevoked, Removing
<1>2. CASE End(p, "not logged out")
  BY <1>1, <1>2, EndCore DEF Results
<1>3. CASE Goto(p, "remove")
  BY <1>1, <1>3, OnwardCore, StoresType DEF Removing
<1> QED BY <1>2, <1>3 DEF LogoutRevoked

LEMMA RemoveCore == ASSUME Inv, NEW p \in Procs, Remove(p) PROVE Core(p)
<1> USE DEF disk, server, history
<1>1. run[p].pc \in Removing /\ UNCHANGED <<plan, expired, file>>
  BY DEF Remove, Removing
<1>2. CASE UNCHANGED secret /\ End(p, "not logged out")
  BY <1>1, <1>2, EndCore DEF Results
<1>3. CASE Goto(p, "forget")
  <2>1. secret' \in [Stores -> Secrets \cup {Nothing}]
    BY StoresType DEF Remove
  <2> QED BY <1>1, <1>3, <2>1, OnwardCore DEF Removing
<1> QED BY <1>2, <1>3 DEF Remove

LEMMA ForgetCore == ASSUME Inv, NEW p \in Procs, Forget(p) PROVE Core(p)
<1> USE DEF disk, server, history
<1> DEFINE r == run[p]
           c == [r.mem EXCEPT !.account = Nothing]
<1>1. run[p].pc \in Removing /\ UNCHANGED <<plan, expired, secret>> /\ LockStep(p)
  BY DEF Forget, Removing, End, Release, LockStep
<1>2. c \in Configs /\ c.profiles = file.profiles
  BY <1>1, RemovingHere DEF RunRecord, Configs
<1>3. file' \in Configs /\ file'.profiles = file.profiles
  BY <1>2, StoresType DEF Forget, ConfigWrite
<1>4. ASSUME NEW q, run' = [run EXCEPT ![p] = q], q \in RunRecord, q.pc = "over",
             q.mark \in {"none", r.mark}, q.hand = r.hand
      PROVE  Core(p)
  <2>1. Local(plan[p].kind, q)
    BY <1>1, <1>4, RemovingHere DEF Local, Replacing, Removing
  <2> QED
    BY <1>1, <1>3, <1>4, <2>1, RemovingHere, HolderCore, StoresType
    DEF Holding, Replacing, Removing
<1>5. CASE run' = [run EXCEPT ![p].pc = "over", ![p].result = "logged out", ![p].mark = "none"]
  <2> DEFINE q == [r EXCEPT !.pc = "over", !.result = "logged out", !.mark = "none"]
  <2>1. q \in RunRecord /\ q.pc = "over" /\ q.mark = "none" /\ q.hand = r.hand
    <3>1. r \in RunRecord /\ "over" \in Locations /\ "logged out" \in Results /\ "none" \in Marks
      BY <1>1, RemovingHere DEF Locations, Results, Marks
    <3> QED BY <3>1 DEF RunRecord
  <2> QED BY <1>4, <1>5, <2>1
<1>6. CASE End(p, "not logged out")
  <2> DEFINE q == [r EXCEPT !.pc = "over", !.result = "not logged out"]
  <2>1. q \in RunRecord /\ q.pc = "over" /\ q.mark = r.mark /\ q.hand = r.hand
    <3>1. r \in RunRecord /\ "over" \in Locations /\ "not logged out" \in Results
      BY <1>1, RemovingHere DEF Locations, Results
    <3> QED BY <3>1 DEF RunRecord
  <2> QED BY <1>4, <1>6, <2>1 DEF End
<1> QED BY <1>5, <1>6 DEF Forget

LEMMA CreateProfileCore == ASSUME Inv, NEW p \in Procs, CreateProfile(p) PROVE Core(p)
<1> USE DEF disk, server, history
<1> DEFINE r == run[p]
           c == [file EXCEPT !.profiles = @ \cup {p}]
<1>1. /\ r \in RunRecord /\ Local(plan[p].kind, r) /\ UNCHANGED <<plan, expired, secret>>
      /\ r.pc = "profile" /\ r.mark \notin {"revoke"} /\ plan[p].kind = "profile" /\ LockStep(p)
  BY Here DEF CreateProfile, Local, End, Release, LockStep
<1>2. c \in Configs /\ file.profiles \subseteq c.profiles /\ p \in c.profiles
  BY StoresType DEF Configs
<1>3. file' \in Configs /\ file.profiles \subseteq file'.profiles
  BY <1>2, StoresType DEF CreateProfile, ConfigWrite
<1>4. PICK result \in {"unknown", "saved", "not saved"}:
        End(p, result) /\ (result = "saved" => file' = c)
  BY DEF CreateProfile, ConfigWrite
<1> DEFINE q == [r EXCEPT !.pc = "over", !.result = result]
<1>5. run' = [run EXCEPT ![p] = q]
  BY <1>4 DEF End
<1>6. q \in RunRecord /\ q.pc = "over" /\ q.result = result
  <2>1. result \in Results /\ "over" \in Locations /\ r \in RunRecord
    BY <1>1 DEF Locations, Results
  <2> QED BY <2>1 DEF RunRecord
<1>7. Local(plan[p].kind, q)
  BY <1>1, <1>6 DEF Local, RunRecord, Replacing, Removing
<1> HIDE DEF c, q
<1> QED
  BY <1>1, <1>2, <1>3, <1>4, <1>5, <1>6, <1>7, HolderCore, StoresType
  DEF Holding, Replacing, Removing

-----------------------------------------------------------------------------
(* Ctrl-C and kills *)

LEMMA InterruptCore == ASSUME Inv, NEW p \in Procs, Interrupt(p) PROVE Core(p)
<1> USE DEF disk, server, history
<1>1. UNCHANGED <<plan, expired, secret, file>>
      /\ \E result \in {"stopped", "interrupted"}: End(p, result)
  <2>1. CASE run[p].watching
    BY <2>1 DEF Interrupt
  <2>2. CASE ~run[p].watching
    BY <2>2 DEF Interrupt
  <2> QED BY <2>1, <2>2
<1> QED BY <1>1, EndCore DEF Results

LEMMA KillCore == ASSUME Inv, NEW p \in Procs, Kill(p) PROVE Core(p)
<1> USE DEF disk, server, history
<1> DEFINE q == [run[p] EXCEPT !.pc = "dead"]
<1>1. /\ run[p] \in RunRecord /\ Local(plan[p].kind, run[p]) /\ run[p].result = "none"
      /\ UNCHANGED <<plan, expired, secret, file>> /\ LockStep(p)
      /\ run' = [run EXCEPT ![p] = q]
  BY Here DEF Kill, Local, Release, LockStep
<1>2. q \in RunRecord /\ q.pc = "dead" /\ q.result = "none"
  BY <1>1 DEF RunRecord, Locations
<1>3. Local(plan[p].kind, q)
  BY <1>1, <1>2 DEF Local, RunRecord, Replacing, Removing
<1> QED BY <1>1, <1>2, <1>3, MoveCore DEF Holding, Replacing, Removing

-----------------------------------------------------------------------------
(* Requests, and what a person was told *)

LEMMA OutsideHere == ASSUME Inv PROVE Outside
BY DEF Inv, TypeOK, Outside, Refreshable

LEMMA InHandType ==
    ASSUME Inv, NEW p \in Procs
    PROVE  /\ InHand(p) \subseteq Sessions
           /\ run[p].old # Nothing => run[p].old.login.session \in Sessions /\ run[p].old.login \in Logins
                                      /\ run[p].old.account.store \in Stores
BY Here DEF InHand, RunRecord, Logins, Accounts

\* A process that sends a revoke, or a refresh of an expired login.
LEMMA AskOutside ==
    ASSUME Inv, NEW p \in Procs, NEW op \in {"refresh", "revoke"}, NEW login \in Logins,
           NEW origin \in Origins, Ask(p, Request(op, login, origin)),
           op = "refresh" => login \in expired,
           UNCHANGED <<session, told, unsaid, leftover>>
    PROVE  Outside'
<1>1. Outside /\ (op = "refresh" => login.gen < MaxGen)
  BY OutsideHere DEF Inv, Refreshable
<1>2. wire' = [wire EXCEPT ![p] = [op |-> op, login |-> login, origin |-> origin, answer |-> "none"]]
  BY DEF Ask, Request
<1> QED BY <1>1, <1>2 DEF Outside

LEMMA ToldOutside ==
    ASSUME Inv, UNCHANGED <<session, wire>>, told' \subseteq Sessions, unsaid' \subseteq Sessions, leftover' \subseteq Stores
    PROVE  Outside'
BY OutsideHere DEF Outside

LEMMA StepOutside ==
    ASSUME Inv, NEW p \in Procs, Step(p)
    PROVE  Outside'
<1> USE DEF disk, server, history
<1>0. /\ run[p] \in RunRecord /\ Local(plan[p].kind, run[p]) /\ Own(p) /\ p \in Sessions
      /\ told \subseteq Sessions /\ unsaid \subseteq Sessions /\ leftover \subseteq Stores /\ plan[p].origin \in Origins
  BY Here, OutsideHere DEF Outside, Sessions
<1>1. CASE UNCHANGED <<session, wire, told, unsaid, leftover>>
  BY <1>1, ToldOutside, <1>0
<1>2. CASE Reread(p)
  <2>1. CASE UNCHANGED wire
    BY <1>1, <1>2, <2>1 DEF Reread
  <2>2. ASSUME NEW s \in Logins, ~Fresh(s), Ask(p, Request("refresh", s, run[p].mem.account.origin))
        PROVE  Outside'
    <3>1. run[p].mem.account.origin \in Origins
      BY <1>0, <1>2 DEF Reread, Local, Accounts
    <3> QED BY <1>2, <2>2, <3>1, AskOutside DEF Reread, Fresh
  <2> QED BY <1>2, <2>1, <2>2 DEF Reread
<1>3. CASE Refreshed(p)
  <2>1. run[p].hand.session \in Sessions
    BY <1>0, <1>3 DEF Refreshed, Local, Logins
  <2> QED BY <1>0, <1>3, <2>1, ToldOutside DEF Refreshed
<1>4. CASE StoreRefreshed(p)
  <2>1. run[p].hand.session \in Sessions
    BY <1>0, <1>4 DEF StoreRefreshed, Local, Logins
  <2> QED BY <1>0, <1>4, <2>1, ToldOutside DEF StoreRefreshed
<1>5. CASE AskGrant(p)
  <2>1. CASE UNCHANGED wire
    BY <1>1, <1>5, <2>1 DEF AskGrant
  <2>2. CASE wire' = [wire EXCEPT ![p] = [op |-> "issue", answer |-> "none"]]
    BY <1>5, <2>2, OutsideHere DEF AskGrant, Outside
  <2> QED BY <1>5, <2>1, <2>2 DEF AskGrant, Ask
<1>6. CASE Polled(p)
  <2>1. CASE UNCHANGED wire
    BY <1>0, <1>6, <2>1, ToldOutside DEF Polled
  <2>2. CASE wire' = [wire EXCEPT ![p] = Nothing] /\ UNCHANGED told
    BY <1>6, <2>2, OutsideHere DEF Polled, Outside
  <2> QED BY <1>6, <2>1, <2>2 DEF Polled, Ask
<1>7. CASE Discard(p)
  <2>1. /\ run[p].old.login.session \in Sessions /\ run[p].old.account.store \in Stores
        /\ UNCHANGED <<session, wire>>
    BY <1>0, <1>7, InHandType DEF Discard, Local
  <2>2. told' \subseteq Sessions /\ unsaid' \subseteq Sessions /\ leftover' \subseteq Stores
    BY <1>0, <1>7, <2>1 DEF Discard, DiscardSecret
  <2> QED BY <2>1, <2>2, ToldOutside
<1>8. CASE Saved(p)
  <2>1. CASE run[p].old = Nothing
    BY <1>1, <1>8, <2>1 DEF Saved
  <2>2. CASE run[p].old # Nothing
    BY <1>0, <1>8, <2>2, InHandType, AskOutside DEF Saved
  <2> QED BY <2>1, <2>2
<1>9. CASE Undo(p)
  <2>1. run[p].entry.store \in Stores /\ UNCHANGED <<session, wire>>
    BY <1>0, <1>9 DEF Undo, Local, Replacing, Accounts
  <2>2. told' \subseteq Sessions /\ unsaid' \subseteq Sessions /\ leftover' \subseteq Stores
    BY <1>0, <1>9, <2>1, InHandType DEF Undo, DiscardSecret
  <2> QED BY <2>1, <2>2, ToldOutside
<1>10. CASE Resave(p)
  <2>1. told' \subseteq Sessions /\ unsaid' \subseteq Sessions /\ leftover' \subseteq Stores /\ UNCHANGED <<session, wire>>
    BY <1>0, <1>10, InHandType DEF Resave
  <2> QED BY <2>1, ToldOutside
<1>11. CASE Disown(p)
  <2>1. run[p].hand \in Logins
    BY <1>0, <1>11 DEF Disown, Local
  <2> QED BY <1>0, <1>11, <2>1, AskOutside DEF Disown
<1>12. CASE Revoked(p)
  <2>1. run[p].pc = "revoking" => run[p].old.login.session \in Sessions
    BY <1>0, InHandType DEF Local
  <2>2. told' \subseteq Sessions /\ unsaid' \subseteq Sessions
    BY <1>0, <1>12, <2>1 DEF Revoked
  <2> QED BY <1>0, <1>12, <2>2, ToldOutside DEF Revoked
<1>13. CASE Logout(p)
  <2>1. CASE UNCHANGED wire
    BY <1>1, <1>13, <2>1 DEF Logout
  <2>2. CASE /\ file.account # Nothing /\ secret[file.account.store] \in Logins
             /\ Ask(p, Request("revoke", secret[file.account.store], file.account.origin))
    <3>1. file.account.origin \in Origins
      BY <2>2, StoresType DEF Accounts
    <3> QED BY <1>13, <2>2, <3>1, AskOutside DEF Logout
  <2> QED BY <1>13, <2>1, <2>2 DEF Logout
<1>14. CASE Remove(p)
  <2>1. run[p].mem.account.store \in Stores
    BY <1>14, RemovingHere DEF Remove, Removing
  <2>2. secret[run[p].mem.account.store] \in Logins
          => secret[run[p].mem.account.store].session \in Sessions
    BY DEF Logins
  <2>3. told' \subseteq Sessions /\ unsaid' \subseteq Sessions /\ leftover' \subseteq Stores /\ UNCHANGED <<session, wire>>
    BY <1>0, <1>14, <2>1, <2>2 DEF Remove
  <2> QED BY <2>3, ToldOutside
<1> QED
  BY <1>1, <1>2, <1>3, <1>4, <1>5, <1>6, <1>7, <1>8, <1>9, <1>10, <1>11, <1>12, <1>13, <1>14
  DEF Step, Read, Lock, Exchange, CheckName, Identify, Take, WriteSecret, SaveAccount, PutBack,
      LogoutRevoked, Forget, CreateProfile

LEMMA OpenOutside == ASSUME Inv, NEW p \in Procs, Open(p) \/ Reauthorize(p) PROVE Outside'
<1>1. UNCHANGED <<session, wire, told, unsaid, leftover>> /\ Outside
  BY OutsideHere DEF Open, Reauthorize, server, history
<1> QED BY <1>1 DEF Outside

LEMMA InterruptOutside == ASSUME Inv, NEW p \in Procs, Interrupt(p) PROVE Outside'
<1>1. /\ UNCHANGED <<session, wire, leftover>> /\ Outside
      /\ told' \subseteq told \cup Named(p) /\ unsaid' \subseteq unsaid \cup Named(p)
  BY OutsideHere DEF Interrupt, server
<1>2. run[p] \in RunRecord /\ Local(plan[p].kind, run[p]) /\ p \in Sessions
  BY Here DEF Sessions
<1>3. Named(p) \subseteq Sessions
  <2>1. CASE run[p].mark \in {"refresh", "logout"}
    <3>1. run[p].hand.session \in Sessions
      BY <1>2, <2>1 DEF Local, Logins
    <3> QED BY <2>1, <3>1 DEF Named
  <2>2. CASE run[p].mark = "revoke"
    <3>1. run[p].old.login.session \in Sessions
      BY <1>2, <2>2, InHandType DEF Local
    <3> QED BY <2>2, <3>1 DEF Named
  <2>3. CASE run[p].mark \in {"none", "login"}
    BY <1>2, <2>3 DEF Named
  <2> QED BY <1>2, <2>1, <2>2, <2>3 DEF RunRecord, Marks
<1> QED BY <1>1, <1>3 DEF Outside

LEMMA KillOutside == ASSUME Inv, NEW p \in Procs, Kill(p) PROVE Outside'
<1>1. UNCHANGED <<session, wire, unsaid>> /\ told' = told \cup InHand(p) \cup {p} /\ leftover' = Stores
      /\ Outside
  BY OutsideHere DEF Kill, server
<1>2. told' \subseteq Sessions /\ unsaid' \subseteq Sessions
  BY <1>1, InHandType DEF Outside, Sessions
<1> QED BY <1>1, <1>2 DEF Outside

-----------------------------------------------------------------------------
(* The auth service and time *)

LEMMA ServeKeeps == ASSUME Inv, NEW p \in Procs, Serve(p) PROVE Inv'
<1>1. /\ UNCHANGED <<plan, run, lock, file, secret, expired, told, unsaid, leftover>> /\ Outside
      /\ wire[p] # Nothing /\ p \in Sessions
  BY OutsideHere DEF Serve, disk, history, Sessions
<1>2. Outside'
  <2>1. CASE /\ wire[p].op = "issue"
             /\ session' = [session EXCEPT ![p].state = "live"]
             /\ wire' = [wire EXCEPT ![p].answer = "ok"]
    <3>1. session' \in [Sessions -> [state: {"none", "live", "revoked"}, gen: 0..MaxGen]]
      BY <1>1, <2>1 DEF Outside
    <3>2. wire[p] \in [op: {"issue"}, answer: {"none", "ok"}]
      BY <1>1, <2>1 DEF Outside
    <3> QED BY <1>1, <2>1, <3>1, <3>2 DEF Outside
  <2>2. CASE wire[p].op # "issue"
    <3> DEFINE login == wire[p].login
               s == login.session
               known == Current(login) /\ OriginOf(s) = wire[p].origin
    <3>1. wire[p] \in [op: {"refresh", "revoke"}, login: Logins, origin: Origins,
                       answer: {"none", "ok", "refused"}]
      BY <1>1, <2>2 DEF Outside
    <3>2. /\ s \in Sessions /\ (wire[p].op = "refresh" => login.gen \in 0..MaxGen /\ login.gen < MaxGen)
      BY <1>1, <3>1 DEF Outside, Logins
    <3>3. CASE wire[p].op = "refresh" /\ known
               /\ session' = [session EXCEPT ![s].gen = @ + 1]
               /\ wire' = [wire EXCEPT ![p].answer = "ok"]
      <4>1. session[s].gen + 1 \in 0..MaxGen
        BY <3>2, <3>3, GenerationsAreNatural DEF Current
      <4>2. session' \in [Sessions -> [state: {"none", "live", "revoked"}, gen: 0..MaxGen]]
        BY <1>1, <3>2, <3>3, <4>1 DEF Outside
      <4> QED BY <1>1, <3>1, <3>3, <4>2 DEF Outside
    <3>4. CASE /\ wire' = [wire EXCEPT ![p].answer = "refused"]
               /\ UNCHANGED session
      BY <1>1, <3>1, <3>4 DEF Outside
    <3>5. CASE /\ session' = session \/ session' = [session EXCEPT ![s].state = "revoked"]
               /\ wire' = [wire EXCEPT ![p].answer = "ok"]
      <4>1. session' \in [Sessions -> [state: {"none", "live", "revoked"}, gen: 0..MaxGen]]
        BY <1>1, <3>2, <3>5 DEF Outside
      <4> QED BY <1>1, <3>1, <3>5, <4>1 DEF Outside
    <3>6. /\ wire[p].op # "issue"
          /\ \/ /\ wire[p].op = "refresh" /\ known
                /\ session' = [session EXCEPT ![s].gen = @ + 1]
                /\ wire' = [wire EXCEPT ![p].answer = "ok"]
             \/ /\ wire[p].op = "refresh" /\ ~known
                /\ wire' = [wire EXCEPT ![p].answer = "refused"]
                /\ UNCHANGED session
             \/ /\ wire[p].op = "revoke"
                /\ session' = IF known THEN [session EXCEPT ![s].state = "revoked"] ELSE session
                /\ wire' = [wire EXCEPT ![p].answer = "ok"]
      BY <2>2 DEF Serve
    <3> HIDE DEF login, s, known
    <3> QED BY <3>3, <3>4, <3>5, <3>6
  <2> QED BY <2>1, <2>2 DEF Serve
<1>3. TypeOK'
  BY <1>1, <1>2, TypeOfRun DEF Inv, TypeOK, Outside
<1>4. \A o \in Procs: Local(plan'[o].kind, run'[o]) /\ Own(o)'
  BY <1>1 DEF Inv, Own
<1>5. Refreshable'
  BY <1>1, <1>2 DEF Inv, Refreshable, Outside
<1> QED BY <1>3, <1>4, <1>5 DEF Inv

LEMMA ExpireKeeps == ASSUME Inv, NEW login \in Logins, Expire(login) PROVE Inv'
<1>1. /\ UNCHANGED <<plan, run, lock, file, secret, session, wire, told, unsaid, leftover>>
      /\ expired' = expired \cup {login} /\ login.gen < MaxGen
  BY DEF Expire, disk, history
<1>2. TypeOK'
  BY <1>1 DEF Inv, TypeOK
<1>3. \A o \in Procs: Local(plan'[o].kind, run'[o]) /\ Own(o)'
  BY <1>1 DEF Inv, Own
<1>4. Refreshable'
  BY <1>1 DEF Inv, Refreshable
<1> QED BY <1>2, <1>3, <1>4 DEF Inv

-----------------------------------------------------------------------------
(* The invariant *)

LEMMA InvInit == Init => Inv
<1> SUFFICES ASSUME Init PROVE Inv
  OBVIOUS
<1>1. First \in Sessions /\ 0 \in 0..MaxGen /\ FirstLogin \in Logins
      /\ FirstOrigin \in Origins /\ DefaultOrigin \in Origins
  BY GenerationsAreNatural, OriginsAreKnown DEF Sessions, FirstLogin, Logins
<1>2. PICK a \in Accounts \cup {Nothing}:
        /\ file = [account |-> a, profiles |-> {}]
        /\ secret = [s \in Stores |->
                        IF a = Nothing \/ s # a.store THEN Nothing
                        ELSE IF a.kind = "login" THEN FirstLogin ELSE ApiKey]
        /\ session = [s \in Sessions |->
                        [state |-> IF s = First /\ a # Nothing /\ a.kind = "login"
                                   THEN "live" ELSE "none",
                         gen |-> 0]]
  BY DEF Init
<1>3. file \in Configs
  BY <1>2 DEF Configs
<1>4. secret \in [Stores -> Secrets \cup {Nothing}]
  BY <1>1, <1>2 DEF Secrets
<1>5. session \in [Sessions -> [state: {"none", "live", "revoked"}, gen: 0..MaxGen]]
  BY <1>1, <1>2
<1> DEFINE q == [pc |-> "start", mem |-> file, cache |-> Nothing, hand |-> Nothing,
                 entry |-> Nothing, old |-> Nothing, mark |-> "none", watching |-> FALSE,
                 result |-> "none", hint |-> FALSE]
<1>6. q \in RunRecord
  BY <1>3 DEF RunRecord, Locations, Marks, Results
<1>7. \A p \in Procs: run[p] = q
  BY DEF Init
<1>8. run \in [Procs -> RunRecord]
  BY <1>6 DEF Init
<1>9. TypeOK
  BY <1>3, <1>4, <1>5, <1>8, TypeOfRun DEF Init, Sessions
<1>10. q.pc = "start" /\ q.mark = "none" /\ q.result = "none"
  OBVIOUS
<1> HIDE DEF q
<1>11. \A p \in Procs: Local(plan[p].kind, run[p])
  BY <1>6, <1>7, <1>10 DEF Local, Replacing, Removing
<1>12. \A p \in Procs: Own(p)
  BY <1>7, <1>10 DEF Own, Holding, Replacing, Removing
<1>13. Refreshable
  BY DEF Init, Refreshable
<1> QED BY <1>9, <1>11, <1>12, <1>13 DEF Inv

LEMMA StepCore == ASSUME Inv, NEW p \in Procs, Step(p) PROVE Core(p)
BY ReadCore, LockCore, RereadCore, RefreshedCore, StoreRefreshedCore, ExchangeCore,
   CheckNameCore, AskGrantCore, PolledCore, IdentifyCore, TakeCore, WriteSecretCore,
   SaveAccountCore, DiscardCore, SavedCore, UndoCore, PutBackCore, ResaveCore, DisownCore,
   RevokedCore, LogoutCore, LogoutRevokedCore, RemoveCore, ForgetCore, CreateProfileCore
DEF Step

LEMMA InvStep == Inv /\ [Next]_vars => Inv'
<1> SUFFICES ASSUME Inv, [Next]_vars PROVE Inv'
  OBVIOUS
<1>1. ASSUME NEW p \in Procs, Open(p) PROVE Inv'
  BY <1>1, OpenCore, OpenOutside, CoreKeeps
<1>2. ASSUME NEW p \in Procs, Step(p) PROVE Inv'
  BY <1>2, StepCore, StepOutside, CoreKeeps
<1>3. ASSUME NEW p \in Procs, Reauthorize(p) PROVE Inv'
  BY <1>3, ReauthorizeCore, OpenOutside, CoreKeeps
<1>4. ASSUME NEW p \in Procs, Interrupt(p) PROVE Inv'
  BY <1>4, InterruptCore, InterruptOutside, CoreKeeps
<1>5. ASSUME NEW p \in Procs, Kill(p) PROVE Inv'
  BY <1>5, KillCore, KillOutside, CoreKeeps
<1>6. CASE UNCHANGED vars
  BY <1>6, TypeOfRun DEF vars, disk, server, history, Inv, TypeOK, Own, Refreshable
<1> QED BY <1>1, <1>2, <1>3, <1>4, <1>5, <1>6, ServeKeeps, ExpireKeeps DEF Next

LEMMA Invariance == Spec => []Inv
BY InvInit, InvStep, PTL DEF Spec

-----------------------------------------------------------------------------
(* Theorems *)

\* The state of every process, the stores, the configuration and the service has its type,
\* whatever fails and in whatever order requests are served.
THEOREM TypeCorrect == Spec => []TypeOK
<1>1. Inv => TypeOK
  BY DEF Inv
<1> QED BY <1>1, Invariance, PTL

\* However many processes share a configuration directory, the login that a process spends
\* on a refresh stays in its store until the process has saved the renewed one
\* (Settings::lock and Resolver::resolve).
THEOREM RefreshExclusive == Spec => []RefreshIsExclusive
<1>1. Inv => RefreshIsExclusive
  BY DEF Inv, Local, Own, RefreshIsExclusive
<1> QED BY <1>1, Invariance, PTL

\* A profile that create_profile reported as saved is in the configuration for good: every
\* command that saves it again read it under the lock (Settings::reload).
THEOREM ProfilesKept == Spec => []NoLostUpdate
<1>1. Inv => NoLostUpdate
  BY DEF Inv, Own, NoLostUpdate
<1> QED BY <1>1, Invariance, PTL

-----------------------------------------------------------------------------
(***************************************************************************)
(* No session is lost, for any number of processes, commands, origins and  *)
(* refreshes: the safety properties of Credentials that rest on what the    *)
(* processes, the stores and the auth service know of each other.           *)
(*                                                                         *)
(* The invariant has three layers, each proved with the ones before it:     *)
(*   Reachable  what the holder of the lock knows of the configuration and  *)
(*              of the stores (no secret is left that nothing reaches);     *)
(*   Minded     what each process has in mind, and the request it waits for; *)
(*   Accounted  where the current login of each live session is: saved, in  *)
(*              the hands of a process that will save, revoke or tell of    *)
(*              it, told of, or one whose refresh a stopped watch gave up.  *)
(* A lemma for each action shows that a step of p keeps what p knows and    *)
(* what it owes the others (Orderly for the first layer, Careful for the    *)
(* third); OrderlyKeeps and CarefulKeeps carry that over to all processes.  *)
(***************************************************************************)

(* The stores *)

\* The account that p replaces, the store of its secret, and the stores that p writes.
Former(p) == IF run[p].old = Nothing THEN Nothing ELSE run[p].old.account
FormerStores(p) == IF run[p].old = Nothing THEN {} ELSE {run[p].old.account.store}
Touched(p) == {run[p].entry.store} \cup FormerStores(p)

\* The store that the saved account names.
FileStores == IF file.account = Nothing THEN {} ELSE {file.account.store}

\* A secret elsewhere than in S was named in a warning.
Reached(S) == \A st \in Stores \ S: secret[st] # Nothing => st \in leftover

\* Where the account's store need not be the only one with a secret.
Between == {"save", "undo", "discard", "putback", "resave", "forget"}

\* What the holder of the lock knows of the configuration and the stores.
Stored(p) ==
    LET r == run[p] IN
    /\ lock = p => r.pc \in Holding
    /\ r.old # Nothing => r.pc \in Replacing \cup {"revoking", "disown", "disowning", "over", "dead"}
    /\ r.pc \in Holding \ Between => Reached(FileStores)
    /\ r.pc \in {"save", "undo", "discard"} => Reached(Touched(p))
    /\ r.pc \in {"putback", "resave"} => Reached(FormerStores(p))
    /\ r.pc = "forget" => Reached({})
    /\ r.pc = "write" => r.mem.account = Former(p)
    /\ r.pc \in {"write", "save"} => file.account = Former(p)
    /\ r.pc \in {"undo", "putback", "resave"} => file.account \in {Former(p), r.entry}
    /\ r.pc \in {"discard", "saved"} => file.account = r.entry
    /\ r.pc = "resave" => r.mem.account = Former(p)
    /\ r.pc \in Removing => r.mem.account = file.account

\* With the lock free, the stores are in order.
Tidy == lock = Nobody => Reached(FileStores)

Reachable == Tidy /\ \A p \in Procs: Stored(p)

\* A step of p that leaves the stores in order.
Orderly(p) ==
    /\ Stored(p)'
    /\ run[p].pc \in Holding /\ run'[p].pc \notin Holding => Reached(FileStores)'
    /\ leftover \subseteq leftover'

LEMMA OrderlyKeeps ==
    ASSUME Inv, Inv', Reachable, NEW p \in Procs, Core(p), Orderly(p)
    PROVE  Reachable'
<1>1. /\ \A o \in Procs: o # p => run'[o] = run[o]
      /\ Nobody \notin Procs /\ LockStep(p) /\ leftover \subseteq leftover'
      /\ UNCHANGED <<secret, file>> \/ run[p].pc \in Holding
  BY FirstIsNoProcess, TypeOfRun DEF Core, Orderly, Inv
<1>2. ASSUME NEW o \in Procs, o # p PROVE Stored(o)'
  <2>1. run'[o] = run[o] /\ Own(o) /\ Stored(o) /\ (lock' = o => lock = o)
    BY <1>1, <1>2 DEF Inv, Reachable, LockStep
  <2>2. CASE run[o].pc \in Holding
    <3>1. UNCHANGED <<secret, file>>
      BY <1>1, <1>2, <2>1, <2>2 DEF Inv, Own
    <3> QED
      BY <1>1, <2>1, <2>2, <3>1
      DEF Stored, Reached, FileStores, Touched, FormerStores, Former
  <2>3. CASE run[o].pc \notin Holding
    BY <2>1, <2>3 DEF Stored, Holding, Replacing, Removing, Between
  <2> QED BY <2>2, <2>3
<1>3. Tidy'
  <2> SUFFICES ASSUME lock' = Nobody PROVE Reached(FileStores)'
    BY DEF Tidy
  <2>1. run'[p].pc \notin Holding
    BY <1>1 DEF Inv, Own
  <2>2. CASE run[p].pc \in Holding
    BY <2>1, <2>2 DEF Orderly
  <2>3. CASE run[p].pc \notin Holding
    <3>1. lock # p /\ UNCHANGED <<secret, file>>
      BY <1>1, <2>3 DEF Reachable, Stored
    <3>2. Reached(FileStores)
      BY <1>1, <3>1 DEF LockStep, Reachable, Tidy
    <3> QED BY <1>1, <3>1, <3>2 DEF Reached, FileStores
  <2> QED BY <2>2, <2>3
<1> QED BY <1>2, <1>3 DEF Reachable, Orderly

\* A step that changes neither the stores nor the configuration.
LEMMA QuietOrderly ==
    ASSUME Inv, Inv', Reachable, NEW p \in Procs, UNCHANGED <<secret, file>>,
           leftover \subseteq leftover', run'[p].old = run[p].old,
           run[p].pc \notin Between,
           run'[p].pc \notin Replacing \cup {"forget"},
           run'[p].pc \in Holding => run[p].pc \in Holding \/ lock = Nobody,
           run'[p].pc \notin Holding => lock' # p,
           run'[p].pc \in Removing => run'[p].mem.account = file.account,
           run[p].old # Nothing => run'[p].pc \in {"revoking", "disown", "disowning", "over", "dead"}
    PROVE  Orderly(p)
<1>1. /\ run[p].pc \in Holding => Reached(FileStores)
      /\ lock = Nobody => Reached(FileStores)
  BY DEF Reachable, Stored, Tidy
<1>2. Reached(FileStores) => Reached(FileStores)'
  BY DEF Reached, FileStores
<1>3. Stored(p)'
  BY <1>1, <1>2 DEF Stored, Replacing, Between, Removing
<1> QED BY <1>1, <1>2, <1>3 DEF Orderly


\* A step that ends the command, where nothing is half done.
LEMMA EndOrderly ==
    ASSUME Inv, Inv', Reachable, NEW p \in Procs, NEW result, End(p, result),
           UNCHANGED <<secret, file>>, leftover \subseteq leftover', run[p].pc \notin Between
    PROVE  Orderly(p)
<1>1. run[p] \in RunRecord /\ run \in [Procs -> RunRecord] /\ Nobody # p
  BY Here, FirstIsNoProcess
<1>2. run'[p].pc = "over" /\ run'[p].old = run[p].old
  BY <1>1 DEF End, RunRecord
<1>3. lock' # p
  BY <1>1 DEF End, Release
<1> QED BY <1>2, <1>3, QuietOrderly DEF Holding, Replacing, Removing

LEMMA UseOrderly ==
    ASSUME Inv, Inv', Reachable, NEW p \in Procs,
           \/ Open(p) \/ Read(p) \/ Lock(p) \/ Reread(p) \/ Refreshed(p) \/ Exchange(p) \/ Reauthorize(p)
    PROVE  Orderly(p)
<1> USE DEF disk, server, history
<1>1. /\ run[p] \in RunRecord /\ run \in [Procs -> RunRecord] /\ Nobody # p
      /\ Local(plan[p].kind, run[p]) /\ Own(p) /\ Stored(p)
      /\ UNCHANGED <<secret, file>> /\ leftover \subseteq leftover'
  BY Here, FirstIsNoProcess DEF Reachable, Open, Read, Lock, Reread, Refreshed, Exchange, Reauthorize
<1>2. /\ run[p].pc \in {"start", "read", "lock", "reread", "refreshing", "exchange", "watching"}
      /\ run[p].pc \notin Between /\ run[p].old = Nothing
  BY <1>1 DEF Open, Read, Lock, Reread, Refreshed, Exchange, Reauthorize, Between, Stored, Replacing
<1>3. CASE \E result: End(p, result)
  BY <1>1, <1>2, <1>3, EndOrderly
<1>4. ASSUME NEW l, run'[p].pc = l, run'[p].old = Nothing, l \notin Replacing \cup Removing,
             \/ l \in Holding /\ (run[p].pc \in Holding \/ lock = Nobody)
             \/ l \notin Holding /\ lock' # p
      PROVE  Orderly(p)
  BY <1>1, <1>2, <1>4, QuietOrderly DEF Removing
<1>5. CASE Open(p)
  <2>1. /\ FirstStep(plan[p].kind) \in {"read", "name", "lock"} /\ lock' = lock
        /\ run' = [run EXCEPT ![p].pc = FirstStep(plan[p].kind), ![p].mem = file]
        /\ run[p].pc = "start"
    BY <1>5, <1>1 DEF Open, FirstStep
  <2>2. run'[p].pc = FirstStep(plan[p].kind) /\ run'[p].old = Nothing
    BY <1>1, <1>2, <2>1 DEF RunRecord
  <2>3. lock' # p
    BY <1>1, <2>1 DEF Stored, Holding, Replacing, Removing
  <2> QED BY <1>4, <2>1, <2>2, <2>3 DEF Holding, Replacing, Removing
<1>6. CASE Read(p) \/ Exchange(p) \/ Reauthorize(p)
  <2>1. lock # p
    BY <1>1, <1>6 DEF Stored, Holding, Replacing, Removing, Read, Exchange, Reauthorize
  <2>2. CASE lock' = lock /\ run'[p].pc \in {"exchange", "lock", "watching", "read"} /\ run'[p].old = Nothing
    BY <1>4, <2>1, <2>2 DEF Holding, Replacing, Removing
  <2>3. CASE Read(p)
    BY <1>1, <1>2, <1>3, <2>2, <2>3 DEF RunRecord, Read
  <2>4. CASE Exchange(p)
    BY <1>1, <1>2, <1>3, <2>2, <2>4 DEF RunRecord, Exchange
  <2>5. CASE Reauthorize(p)
    BY <1>1, <1>2, <2>2, <2>5 DEF RunRecord, Reauthorize, Goto
  <2> QED BY <1>6, <2>3, <2>4, <2>5
<1>7. CASE Lock(p)
  <2>1. CASE Goto(p, "disown")
    <3>1. lock' # p
      BY <1>1, <1>7, <2>1 DEF Stored, Holding, Replacing, Removing, Lock, Goto
    <3>2. run'[p].pc = "disown" /\ run'[p].old = Nothing
      BY <1>1, <1>2, <2>1 DEF RunRecord, Goto
    <3> QED BY <1>4, <3>1, <3>2 DEF Holding, Replacing, Removing
  <2>2. CASE /\ lock = Nobody /\ lock' = p
             /\ run' = [run EXCEPT ![p].pc = Locked(plan[p].kind), ![p].cache = Nothing]
    <3>1. Locked(plan[p].kind) \in {"reread", "take", "logout", "profile"}
      BY Here DEF Locked, Kinds
    <3>2. run'[p].pc = Locked(plan[p].kind) /\ run'[p].old = Nothing
      BY <1>1, <1>2, <2>2 DEF RunRecord
    <3> QED BY <1>4, <2>2, <3>1, <3>2 DEF Holding, Replacing, Removing
  <2> QED BY <1>3, <1>7, <2>1, <2>2 DEF Lock
<1>8. CASE Reread(p)
  <2>1. CASE Release(p) /\ run'[p].pc = "exchange" /\ run'[p].old = Nothing
    <3>1. lock' # p
      BY <1>1, <2>1 DEF Release
    <3> QED BY <1>4, <2>1, <3>1 DEF Holding, Replacing, Removing
  <2>2. CASE run'[p].pc = "refreshing" /\ run'[p].old = Nothing
    BY <1>4, <1>8, <2>2 DEF Holding, Replacing, Removing, Reread
  <2> QED BY <1>1, <1>2, <1>3, <1>8, <2>1, <2>2 DEF Reread, RunRecord
<1>9. CASE Refreshed(p)
  <2>1. CASE run'[p].pc = "store" /\ run'[p].old = Nothing
    BY <1>4, <1>9, <2>1 DEF Holding, Replacing, Removing, Refreshed
  <2> QED BY <1>1, <1>2, <1>3, <1>9, <2>1 DEF Refreshed, RunRecord
<1> QED BY <1>5, <1>6, <1>7, <1>8, <1>9

LEMMA StoreRefreshedOrderly ==
    ASSUME Inv, Inv', Reachable, NEW p \in Procs, StoreRefreshed(p)
    PROVE  Orderly(p)
<1> USE DEF disk, server, history
<1>1. /\ run[p] \in RunRecord /\ run \in [Procs -> RunRecord] /\ Nobody # p
      /\ Own(p) /\ Stored(p) /\ run[p].pc = "store" /\ file' = file /\ leftover' = leftover
      /\ secret \in [Stores -> Secrets \cup {Nothing}] /\ Nothing \notin Logins
  BY Here, FirstIsNoProcess, StoresType, SecretsAreNotNothing DEF Reachable, StoreRefreshed, Secrets
<1>2. Reached(FileStores) /\ run[p].old = Nothing /\ secret[run[p].mem.account.store] \in Logins
  BY <1>1 DEF Stored, Own, Holding, Between, Replacing
<1>3. Reached(FileStores)'
  BY <1>1, <1>2 DEF Reached, FileStores, StoreRefreshed, SecretWrite
<1>4. /\ run'[p].pc \in {"exchange", "over"} /\ run'[p].old = Nothing /\ Release(p)
  <2>1. CASE End(p, "write failed")
    BY <1>1, <1>2, <2>1 DEF End, RunRecord
  <2>2. CASE /\ run' = [run EXCEPT ![p].pc = "exchange", ![p].mark = "none",
                                   ![p].cache = Cached(run[p].mem.account.store, run[p].hand)]
             /\ Release(p)
    BY <1>1, <1>2, <2>2 DEF RunRecord
  <2> QED BY <1>1, <2>1, <2>2 DEF StoreRefreshed
<1>5. lock' # p
  BY <1>1, <1>4 DEF Release
<1>6. Stored(p)'
  BY <1>4, <1>5 DEF Stored, Holding, Between, Replacing, Removing
<1> QED BY <1>1, <1>3, <1>6 DEF Orderly


LEMMA LoginOrderly ==
    ASSUME Inv, Inv', Reachable, NEW p \in Procs,
           \/ CheckName(p) \/ AskGrant(p) \/ Polled(p) \/ Identify(p) \/ Disown(p) \/ Revoked(p)
    PROVE  Orderly(p)
<1> USE DEF disk, server, history
<1>1. /\ run[p] \in RunRecord /\ run \in [Procs -> RunRecord] /\ Nobody # p
      /\ Stored(p) /\ UNCHANGED <<secret, file>> /\ leftover \subseteq leftover'
  BY Here, FirstIsNoProcess
  DEF Reachable, CheckName, AskGrant, Polled, Identify, Disown, Revoked
<1>2. /\ run[p].pc \in {"name", "ask", "polling", "identify", "disown", "disowning", "revoking"}
      /\ run[p].pc \notin Between /\ lock # p
      /\ run[p].old # Nothing => run[p].pc \in {"disown", "disowning", "revoking"}
  BY <1>1 DEF CheckName, AskGrant, Polled, Identify, Disown, Revoked, Between, Stored,
              Holding, Replacing, Removing
<1>3. CASE \E result: End(p, result)
  BY <1>1, <1>2, <1>3, EndOrderly
<1>4. ASSUME NEW l \in {"ask", "polling", "identify", "lock", "disown", "disowning", "over"},
             run'[p].pc = l, run'[p].old = run[p].old, lock' = lock,
             run[p].old # Nothing => l \in {"disowning", "over"}
      PROVE  Orderly(p)
  BY <1>1, <1>2, <1>4, QuietOrderly DEF Holding, Replacing, Removing
<1>5. CASE CheckName(p)
  <2>1. CASE Goto(p, "ask")
    BY <1>1, <1>2, <1>4, <1>5, <2>1 DEF Goto, RunRecord, CheckName
  <2>2. ASSUME NEW c, run' = [run EXCEPT ![p].pc = "ask", ![p].cache = c], lock' = lock
        PROVE  Orderly(p)
    BY <1>1, <1>2, <1>4, <1>5, <2>2 DEF RunRecord, CheckName
  <2> QED BY <1>3, <1>5, <2>1, <2>2 DEF CheckName
<1>6. CASE AskGrant(p)
  <2>1. CASE run' = [run EXCEPT ![p].pc = "polling", ![p].mark = "login"] /\ lock' = lock
    BY <1>1, <1>2, <1>4, <1>6, <2>1 DEF RunRecord, AskGrant
  <2> QED BY <1>3, <1>6, <2>1 DEF AskGrant
<1>7. CASE Polled(p)
  <2>1. ASSUME NEW s, run' = [run EXCEPT ![p].pc = "identify", ![p].hand = s], lock' = lock
        PROVE  Orderly(p)
    BY <1>1, <1>2, <1>4, <1>7, <2>1 DEF RunRecord, Polled
  <2>2. CASE run' = [run EXCEPT ![p].pc = "ask", ![p].mark = "none"] /\ lock' = lock
    BY <1>1, <1>2, <1>4, <1>7, <2>2 DEF RunRecord, Polled
  <2> QED BY <1>3, <1>7, <2>1, <2>2 DEF Polled
<1>8. CASE Identify(p)
  <2>1. ASSUME NEW a, run' = [run EXCEPT ![p].pc = "lock", ![p].entry = a], lock' = lock
        PROVE  Orderly(p)
    BY <1>1, <1>2, <1>4, <1>8, <2>1 DEF RunRecord, Identify
  <2>2. CASE Goto(p, "disown")
    BY <1>1, <1>2, <1>4, <1>8, <2>2 DEF Goto, RunRecord, Identify
  <2> QED BY <1>8, <2>1, <2>2 DEF Identify
<1>9. CASE Disown(p)
  BY <1>1, <1>2, <1>4, <1>9 DEF Disown, Goto, RunRecord
<1>10. CASE Revoked(p)
  BY <1>1, <1>2, <1>4, <1>10 DEF Revoked, RunRecord
<1> QED BY <1>5, <1>6, <1>7, <1>8, <1>9, <1>10

\* What a process that replaces the account starts a step from.
LEMMA ReplacingHere ==
    ASSUME Inv, Reachable, NEW p \in Procs, run[p].pc \in Replacing \cup {"take"}
    PROVE  /\ run[p] \in RunRecord /\ run \in [Procs -> RunRecord] /\ Nobody # p /\ lock = p
           /\ Stored(p) /\ run[p].pc \in Holding
           /\ run[p].pc # "take" => run[p].entry \in Accounts
           /\ secret \in [Stores -> Secrets \cup {Nothing}]
           /\ file \in Configs /\ file.account \in Accounts \cup {Nothing}
           /\ run[p].old # Nothing => run[p].old.account \in Accounts /\ run[p].old.account.store \in Stores
           /\ Nothing \notin Secrets /\ Nothing \notin Accounts /\ Nothing \notin Stores
BY Here, StoresType, FirstIsNoProcess, SecretsAreNotNothing, NothingIsApart
DEF Reachable, Local, Own, Holding, RunRecord, Accounts

LEMMA TakeOrderly == ASSUME Inv, Inv', Reachable, NEW p \in Procs, Take(p) PROVE Orderly(p)
<1> USE DEF disk, server, history
<1>1. run[p].pc = "take" /\ UNCHANGED <<secret, file, leftover>>
  BY DEF Take
<1>2. /\ run[p] \in RunRecord /\ run \in [Procs -> RunRecord] /\ Stored(p) /\ Nobody # p /\ lock = p
      /\ run[p].old = Nothing /\ Reached(FileStores) /\ run[p].pc \in Holding
  BY <1>1, ReplacingHere DEF Stored, Replacing, Holding, Between
<1>3. CASE \E result: End(p, result)
  BY <1>1, <1>3, EndOrderly DEF Between
<1>4. CASE Release(p) /\ run' = [run EXCEPT ![p].pc = "disown", ![p].mem = file]
  <2>1. run'[p].pc = "disown" /\ run'[p].old = Nothing
    BY <1>2, <1>4 DEF RunRecord
  <2>2. lock' # p
    BY <1>2, <1>4 DEF Release
  <2> QED BY <1>1, <1>2, <2>1, <2>2, QuietOrderly DEF Holding, Replacing, Removing, Between
<1>5. ASSUME run'[p].pc = "write", run'[p].mem = file, Former(p)' = file.account,
             run'[p].old = Nothing \/ run'[p].pc \in Replacing
      PROVE  Orderly(p)
  <2>1. Reached(FileStores)'
    BY <1>1, <1>2 DEF Reached, FileStores
  <2>2. Stored(p)'
    BY <1>1, <1>5, <2>1 DEF Stored, Holding, Replacing, Removing, Between
  <2> QED BY <1>1, <2>1, <2>2 DEF Orderly
<1>6. CASE /\ file.account = Nothing
           /\ run' = [run EXCEPT ![p].pc = "write", ![p].mem = file, ![p].entry = Entry(p)]
  <2>1. run'[p].pc = "write" /\ run'[p].mem = file /\ run'[p].old = Nothing
    BY <1>2, <1>6 DEF RunRecord
  <2> QED BY <1>5, <1>6, <2>1 DEF Former
<1>7. ASSUME NEW c, NEW l \in Logins, LoginAt(file.account, plan[p].origin),
             run' = [run EXCEPT ![p].pc = "write", ![p].mem = file, ![p].cache = c,
                                ![p].old = [account |-> file.account, login |-> l]]
      PROVE  Orderly(p)
  <2>1. /\ run'[p].pc = "write" /\ run'[p].mem = file
        /\ run'[p].old = [account |-> file.account, login |-> l]
    BY <1>2, <1>7 DEF RunRecord
  <2>2. run'[p].old # Nothing
    BY <1>7, <2>1, StoresType, NothingIsApart DEF LoginAt
  <2> QED BY <1>5, <2>1, <2>2 DEF Former, Replacing
<1> QED BY <1>3, <1>4, <1>6, <1>7 DEF Take


LEMMA WriteSecretOrderly ==
    ASSUME Inv, Inv', Reachable, NEW p \in Procs, WriteSecret(p) PROVE Orderly(p)
<1> USE DEF disk, server, history
<1>1. /\ run[p].pc = "write" /\ UNCHANGED <<file, leftover, lock>>
      /\ \A st \in Stores: st # run[p].entry.store => secret'[st] = secret[st]
  BY StoresType DEF WriteSecret, SecretWrite
<1>2. /\ run[p] \in RunRecord /\ run \in [Procs -> RunRecord] /\ Stored(p)
      /\ Reached(FileStores) /\ file.account = Former(p)
  BY <1>1, ReplacingHere DEF Stored, Replacing, Holding, Between
<1>3. /\ run'[p].pc \in {"save", "undo"} /\ run'[p].old = run[p].old
      /\ run'[p].entry = run[p].entry
  <2>1. CASE \E c: run' = [run EXCEPT ![p].pc = "save", ![p].cache = c]
    BY <1>2, <2>1 DEF RunRecord
  <2>2. CASE run' = [run EXCEPT ![p].pc = "undo", ![p].cache = Nothing]
    BY <1>2, <2>2 DEF RunRecord
  <2> QED BY <2>1, <2>2 DEF WriteSecret
<1>4. Former(p)' = Former(p) /\ FormerStores(p)' = FormerStores(p) /\ Touched(p)' = Touched(p)
  BY <1>3 DEF Former, FormerStores, Touched
<1>5. FileStores \subseteq FormerStores(p)
  BY <1>2 DEF FileStores, Former, FormerStores
<1>6. Reached(Touched(p))'
  BY <1>1, <1>2, <1>4, <1>5 DEF Reached, Touched
<1>7. Stored(p)'
  BY <1>1, <1>2, <1>3, <1>4, <1>6 DEF Stored, Holding, Replacing, Removing, Between
<1> QED BY <1>1, <1>3, <1>7 DEF Orderly, Holding, Replacing

LEMMA SaveAccountOrderly ==
    ASSUME Inv, Inv', Reachable, NEW p \in Procs, SaveAccount(p) PROVE Orderly(p)
<1> USE DEF disk, server, history
<1> DEFINE c == [run[p].mem EXCEPT !.account = run[p].entry]
<1>1. run[p].pc = "save" /\ UNCHANGED <<secret, leftover, lock>>
  BY DEF SaveAccount
<1>2. /\ run[p] \in RunRecord /\ run \in [Procs -> RunRecord] /\ Stored(p)
      /\ Reached(Touched(p)) /\ file.account = Former(p)
  BY <1>1, ReplacingHere DEF Stored, Replacing
<1>3. c.account = run[p].entry
  BY <1>2 DEF RunRecord, Configs
<1>4. PICK l \in {"discard", "saved", "undo"}:
        /\ run' = [run EXCEPT ![p].pc = l, ![p].mem = c]
        /\ file' = c \/ (file' = file /\ l = "undo")
        /\ l = "saved" => ~Moves(p)
  BY DEF SaveAccount, ConfigWrite
<1>5. run'[p].pc = l /\ run'[p].old = run[p].old /\ run'[p].entry = run[p].entry
  BY <1>2, <1>4 DEF RunRecord
<1>6. Former(p)' = Former(p) /\ FormerStores(p)' = FormerStores(p) /\ Touched(p)' = Touched(p)
  BY <1>5 DEF Former, FormerStores, Touched
<1>7. Reached(Touched(p))'
  BY <1>1, <1>2, <1>6 DEF Reached
<1>8. run'[p].pc = "saved" => Reached(FileStores)'
  <2>1. SUFFICES ASSUME run'[p].pc = "saved" PROVE Reached(FileStores)'
    OBVIOUS
  <2>2. file'.account = run[p].entry /\ run[p].entry # Nothing /\ ~Moves(p)
    BY <1>1, <1>3, <1>4, <1>5, <2>1, ReplacingHere DEF Replacing
  <2>3. Touched(p)' = FileStores'
    BY <1>6, <2>2 DEF Touched, FileStores, FormerStores, Moves
  <2> QED BY <1>7, <2>3
<1> HIDE DEF c
<1>9. Stored(p)'
  BY <1>1, <1>2, <1>3, <1>4, <1>5, <1>6, <1>7, <1>8 DEF Stored, Holding, Replacing, Removing, Between
<1> QED BY <1>1, <1>4, <1>5, <1>9 DEF Orderly, Holding, Replacing

LEMMA DiscardOrderly ==
    ASSUME Inv, Inv', Reachable, NEW p \in Procs, Discard(p) PROVE Orderly(p)
<1> USE DEF disk, server, history
<1>1. /\ run[p].pc = "discard" /\ UNCHANGED <<file, lock>>
      /\ DiscardSecret(run[p].old.account.store, {run[p].old.login.session})
  BY DEF Discard, Goto
<1>2. /\ run[p] \in RunRecord /\ run \in [Procs -> RunRecord] /\ Stored(p) /\ run[p].entry # Nothing
      /\ Reached(Touched(p)) /\ file.account = run[p].entry
      /\ secret \in [Stores -> Secrets \cup {Nothing}] /\ lock = p /\ run[p].old # Nothing
  BY <1>1, ReplacingHere, Here DEF Stored, Replacing, Local
<1>3. run'[p].pc = "saved" /\ run'[p].old = run[p].old /\ run'[p].entry = run[p].entry
  BY <1>2 DEF Discard, Goto, RunRecord
<1>4. Reached(FileStores)'
  BY <1>1, <1>2 DEF Reached, FileStores, Touched, FormerStores, DiscardSecret
<1>5. Stored(p)'
  BY <1>1, <1>2, <1>3, <1>4 DEF Stored, Holding, Replacing, Removing, Between
<1> QED BY <1>1, <1>3, <1>5 DEF Orderly, Holding, Replacing, DiscardSecret

LEMMA SavedOrderly ==
    ASSUME Inv, Inv', Reachable, NEW p \in Procs, Saved(p) PROVE Orderly(p)
<1> USE DEF disk, server, history
<1>1. run[p].pc = "saved" /\ UNCHANGED <<secret, file, leftover>> /\ Release(p)
  BY DEF Saved
<1>2. run[p] \in RunRecord /\ run \in [Procs -> RunRecord] /\ Nobody # p
  BY <1>1, ReplacingHere DEF Replacing
<1>3. run'[p].pc \in {"over", "revoking"} /\ run'[p].old = run[p].old
  <2>1. CASE run' = [run EXCEPT ![p].pc = "over", ![p].result = "saved", ![p].mark = "none"]
    BY <1>2, <2>1 DEF RunRecord
  <2>2. CASE run' = [run EXCEPT ![p].pc = "revoking", ![p].mark = "revoke"]
    BY <1>2, <2>2 DEF RunRecord
  <2> QED BY <2>1, <2>2 DEF Saved
<1>4. lock' # p
  BY <1>1, <1>2 DEF Release
<1> QED BY <1>1, <1>3, <1>4, QuietOrderly DEF Holding, Replacing, Removing, Between

LEMMA UndoOrderly ==
    ASSUME Inv, Inv', Reachable, NEW p \in Procs, Undo(p) PROVE Orderly(p)
<1> USE DEF disk, server, history
<1>1. run[p].pc = "undo" /\ UNCHANGED <<file, lock>> /\ leftover \subseteq leftover'
  BY DEF Undo, Goto, DiscardSecret
<1>2. /\ run[p] \in RunRecord /\ run \in [Procs -> RunRecord] /\ Stored(p)
      /\ Reached(Touched(p)) /\ file.account \in {Former(p), run[p].entry}
      /\ secret \in [Stores -> Secrets \cup {Nothing}]
  BY <1>1, ReplacingHere DEF Stored, Replacing
<1>3. run'[p].pc = "putback" /\ run'[p].old = run[p].old /\ run'[p].entry = run[p].entry
  BY <1>2 DEF Undo, Goto, RunRecord
<1>4. Former(p)' = Former(p) /\ FormerStores(p)' = FormerStores(p)
  BY <1>3 DEF Former, FormerStores
<1>5. Reached(FormerStores(p))'
  <2>1. CASE run[p].old = Nothing \/ Moves(p)
    BY <1>1, <1>2, <1>4, <2>1 DEF Undo, DiscardSecret, Reached, Touched
  <2>2. CASE ~(run[p].old = Nothing \/ Moves(p))
    <3>1. UNCHANGED <<secret, leftover>> /\ Touched(p) = FormerStores(p)
      BY <2>2 DEF Undo, Moves, Touched, FormerStores
    <3> QED BY <1>2, <1>4, <3>1 DEF Reached
  <2> QED BY <2>1, <2>2
<1>6. Stored(p)'
  BY <1>1, <1>2, <1>3, <1>4, <1>5 DEF Stored, Holding, Replacing, Removing, Between
<1> QED BY <1>1, <1>3, <1>6 DEF Orderly, Holding, Replacing

LEMMA PutBackOrderly ==
    ASSUME Inv, Inv', Reachable, NEW p \in Procs, PutBack(p) PROVE Orderly(p)
<1> USE DEF disk, server, history
<1>1. run[p].pc = "putback" /\ UNCHANGED <<file, lock, leftover>>
  BY DEF PutBack
<1>2. /\ run[p] \in RunRecord /\ run \in [Procs -> RunRecord] /\ Stored(p)
      /\ Reached(FormerStores(p)) /\ file.account \in {Former(p), run[p].entry}
      /\ secret \in [Stores -> Secrets \cup {Nothing}]
  BY <1>1, ReplacingHere DEF Stored, Replacing
<1>3. /\ run'[p].pc = "resave" /\ run'[p].old = run[p].old /\ run'[p].entry = run[p].entry
      /\ run'[p].mem.account = Former(p)
  <2>1. CASE run[p].old = Nothing /\ run' = [run EXCEPT ![p].pc = "resave", ![p].mem.account = Nothing]
    BY <1>2, <2>1 DEF RunRecord, Configs, Former
  <2>2. ASSUME NEW hint, run[p].old # Nothing,
               run' = [run EXCEPT ![p].pc = "resave", ![p].mem.account = run[p].old.account,
                                  ![p].hint = hint]
        PROVE  /\ run'[p].pc = "resave" /\ run'[p].old = run[p].old /\ run'[p].entry = run[p].entry
               /\ run'[p].mem.account = Former(p)
    BY <1>2, <2>2 DEF RunRecord, Configs, Former
  <2> QED BY <2>1, <2>2 DEF PutBack
<1>4. Former(p)' = Former(p) /\ FormerStores(p)' = FormerStores(p)
  BY <1>3 DEF Former, FormerStores
<1>5. Reached(FormerStores(p))'
  BY <1>1, <1>2, <1>4 DEF PutBack, SecretWrite, Reached, FormerStores
<1>6. Stored(p)'
  BY <1>1, <1>2, <1>3, <1>4, <1>5 DEF Stored, Holding, Replacing, Removing, Between
<1> QED BY <1>1, <1>3, <1>6 DEF Orderly, Holding, Replacing

LEMMA ResaveOrderly ==
    ASSUME Inv, Inv', Reachable, NEW p \in Procs, Resave(p) PROVE Orderly(p)
<1> USE DEF disk, server, history
<1>1. run[p].pc = "resave" /\ UNCHANGED secret /\ Release(p) /\ ConfigWrite(run[p].mem, FALSE)
  BY DEF Resave
<1>2. /\ run[p] \in RunRecord /\ run \in [Procs -> RunRecord] /\ Stored(p) /\ Nobody # p
      /\ Reached(FormerStores(p)) /\ file.account \in {Former(p), run[p].entry}
      /\ run[p].mem.account = Former(p) /\ run[p].entry # Nothing
      /\ run[p].old # Nothing => run[p].old.account # Nothing
  BY <1>1, ReplacingHere DEF Stored, Replacing
<1>3. PICK lost \in BOOLEAN:
        /\ ~lost => StoreOf(file') = StoreOf(run[p].mem)
        /\ run' = [run EXCEPT ![p].hint = lost \/ run[p].hint,
                              ![p].pc = IF plan[p].kind = "login" THEN "disown" ELSE "over",
                              ![p].result = IF plan[p].kind = "login" THEN @ ELSE "not saved"]
        /\ leftover' = IF lost /\ run[p].old # Nothing
                       THEN leftover \cup {run[p].old.account.store} ELSE leftover
  BY DEF Resave
<1>4. run'[p].pc \in {"disown", "over"}
  BY <1>2, <1>3 DEF RunRecord
<1>5. lock' # p
  BY <1>1, <1>2 DEF Release
<1>6. Reached(FileStores)'
  <2>1. CASE file'.account = Former(p)
    <3>1. FileStores' = FormerStores(p)
      BY <1>2, <2>1 DEF FileStores, Former, FormerStores
    <3> QED BY <1>1, <1>2, <1>3, <3>1 DEF Reached
  <2>2. CASE file'.account = run[p].entry /\ lost
    BY <1>1, <1>2, <1>3, <2>2 DEF Reached, FormerStores, FileStores
  <2>3. CASE file'.account = run[p].entry /\ ~lost
    <3>1. FormerStores(p) \subseteq FileStores'
      BY <1>2, <1>3, <2>3 DEF StoreOf, FileStores, FormerStores, Former
    <3> QED BY <1>1, <1>2, <1>3, <3>1 DEF Reached
  <2> QED BY <1>1, <1>2, <2>1, <2>2, <2>3 DEF ConfigWrite
<1>7. Stored(p)'
  BY <1>4, <1>5, <1>6 DEF Stored, Holding, Replacing, Removing, Between
<1> QED BY <1>3, <1>6, <1>7 DEF Orderly


LEMMA LogoutOrderly ==
    ASSUME Inv, Inv', Reachable, NEW p \in Procs, Logout(p) \/ LogoutRevoked(p)
    PROVE  Orderly(p)
<1> USE DEF disk, server, history
<1>1. /\ run[p] \in RunRecord /\ run \in [Procs -> RunRecord] /\ Stored(p) /\ Own(p)
      /\ run[p].pc \in {"logout", "logging out"} /\ run[p].old = Nothing
      /\ UNCHANGED <<secret, file, leftover>> /\ run[p].pc \notin Between
  BY Here DEF Reachable, Logout, LogoutRevoked, Stored, Between, Replacing
<1>2. CASE \E result: End(p, result)
  BY <1>1, <1>2, EndOrderly
<1>3. ASSUME NEW l \in {"remove", "logging out"}, run'[p].pc = l, run'[p].old = Nothing,
             run'[p].mem.account = file.account
      PROVE  Orderly(p)
  BY <1>1, <1>3, QuietOrderly DEF Holding, Replacing, Removing
<1>4. CASE run' = [run EXCEPT ![p].pc = "remove", ![p].mem = file]
  <2>1. run'[p].pc = "remove" /\ run'[p].old = Nothing /\ run'[p].mem = file
    BY <1>1, <1>4 DEF RunRecord
  <2> QED BY <1>3, <2>1
<1>5. CASE run' = [run EXCEPT ![p].pc = "logging out", ![p].mem = file,
                             ![p].hand = secret[file.account.store], ![p].mark = "logout",
                             ![p].cache = Cached(file.account.store, secret[file.account.store])]
  <2>1. run'[p].pc = "logging out" /\ run'[p].old = Nothing /\ run'[p].mem = file
    BY <1>1, <1>5 DEF RunRecord
  <2> QED BY <1>3, <2>1
<1>6. CASE LogoutRevoked(p) /\ Goto(p, "remove")
  <2>1. run'[p].pc = "remove" /\ run'[p].old = Nothing /\ run'[p].mem = run[p].mem
    BY <1>1, <1>6 DEF Goto, RunRecord
  <2>2. run[p].mem.account = file.account
    BY <1>1, <1>6 DEF LogoutRevoked, Stored, Removing
  <2> QED BY <1>3, <2>1, <2>2
<1>7. CASE Logout(p)
  BY <1>2, <1>4, <1>5, <1>7 DEF Logout
<1>8. CASE LogoutRevoked(p)
  BY <1>2, <1>6, <1>8 DEF LogoutRevoked
<1> QED BY <1>7, <1>8

LEMMA RemoveOrderly == ASSUME Inv, Inv', Reachable, NEW p \in Procs, Remove(p) PROVE Orderly(p)
<1> USE DEF disk, server, history
<1>1. run[p].pc = "remove" /\ UNCHANGED file
  BY DEF Remove
<1>0. /\ run[p] \in RunRecord /\ run \in [Procs -> RunRecord] /\ Stored(p) /\ lock = p
      /\ secret \in [Stores -> Secrets \cup {Nothing}] /\ run[p].mem.account \in Accounts
  BY <1>1, Here, RemovingHere, StoresType DEF Reachable, Removing
<1>2. /\ run[p].old = Nothing /\ Reached(FileStores) /\ run[p].mem.account = file.account
      /\ file.account # Nothing
  BY <1>0, <1>1, NothingIsApart DEF Stored, Holding, Removing, Replacing, Between
<1>3. CASE End(p, "not logged out") /\ UNCHANGED <<secret, history>>
  <2>1. leftover \subseteq leftover' /\ run[p].pc \notin Between
    BY <1>1, <1>3 DEF Between
  <2> QED BY <1>1, <1>3, <2>1, EndOrderly
<1>4. CASE Goto(p, "forget") /\ leftover \subseteq leftover'
           /\ \/ secret' = [secret EXCEPT ![run[p].mem.account.store] = Nothing]
              \/ UNCHANGED secret /\ leftover' = leftover \cup {run[p].mem.account.store}
  <2>1. run'[p].pc = "forget" /\ run'[p].old = Nothing /\ run'[p].mem = run[p].mem /\ lock' = lock
    BY <1>0, <1>2, <1>4 DEF Goto, RunRecord
  <2>2. Reached({})'
    BY <1>0, <1>2, <1>4 DEF Reached, FileStores
  <2>3. Stored(p)'
    BY <1>0, <1>1, <1>2, <2>1, <2>2 DEF Stored, Holding, Replacing, Removing, Between
  <2> QED BY <1>4, <2>1, <2>3 DEF Orderly, Holding, Removing
<1> QED BY <1>3, <1>4 DEF Remove

LEMMA ForgetOrderly == ASSUME Inv, Inv', Reachable, NEW p \in Procs, Forget(p) PROVE Orderly(p)
<1> USE DEF disk, server, history
<1>1. run[p].pc = "forget" /\ UNCHANGED <<secret, leftover>>
  BY DEF Forget
<1>2. /\ run[p] \in RunRecord /\ run \in [Procs -> RunRecord] /\ Nobody # p
      /\ Reached({}) /\ run[p].old = Nothing
  BY <1>1, Here, FirstIsNoProcess DEF Reachable, Stored, Replacing
<1>3. run'[p].pc = "over" /\ run'[p].old = Nothing /\ Release(p)
  <2>3. Release(p)
    BY DEF Forget, End
  <2>1. CASE run' = [run EXCEPT ![p].pc = "over", ![p].result = "logged out", ![p].mark = "none"]
    BY <1>2, <2>1, <2>3 DEF RunRecord
  <2>2. CASE End(p, "not logged out")
    BY <1>2, <2>2, <2>3 DEF End, RunRecord
  <2> QED BY <2>1, <2>2, <2>3 DEF Forget
<1>4. lock' # p /\ Reached(FileStores)'
  BY <1>1, <1>2, <1>3 DEF Release, Reached
<1>5. Stored(p)'
  BY <1>3, <1>4 DEF Stored, Holding, Replacing, Removing, Between
<1> QED BY <1>1, <1>4, <1>5 DEF Orderly

LEMMA CreateProfileOrderly ==
    ASSUME Inv, Inv', Reachable, NEW p \in Procs, CreateProfile(p) PROVE Orderly(p)
<1> USE DEF disk, server, history
<1>1. run[p].pc = "profile" /\ UNCHANGED <<secret, leftover>>
  BY DEF CreateProfile
<1>2. /\ run[p] \in RunRecord /\ run \in [Procs -> RunRecord] /\ Nobody # p
      /\ Reached(FileStores) /\ run[p].old = Nothing
  BY <1>1, Here, FirstIsNoProcess DEF Reachable, Stored, Replacing, Holding, Between
<1>3. file'.account = file.account
  BY StoresType DEF CreateProfile, ConfigWrite, Configs
<1>4. run'[p].pc = "over" /\ run'[p].old = Nothing /\ Release(p)
  <2>1. \E result: End(p, result)
    BY DEF CreateProfile
  <2> QED BY <1>2, <2>1 DEF End, RunRecord
<1>5. lock' # p /\ Reached(FileStores)'
  BY <1>1, <1>2, <1>3, <1>4 DEF Release, Reached, FileStores
<1>6. Stored(p)'
  BY <1>4, <1>5 DEF Stored, Holding, Replacing, Removing, Between
<1> QED BY <1>1, <1>5, <1>6 DEF Orderly

LEMMA InterruptOrderly ==
    ASSUME Inv, Inv', Reachable, NEW p \in Procs, Interrupt(p) PROVE Orderly(p)
BY EndOrderly DEF Interrupt, Awaits, Between, disk, server

LEMMA KillOrderly == ASSUME Inv, Inv', Reachable, NEW p \in Procs, Kill(p) PROVE Orderly(p)
<1>1. run \in [Procs -> RunRecord] /\ Nobody # p /\ leftover \subseteq leftover' /\ leftover' = Stores
  BY Here, FirstIsNoProcess DEF Kill, Inv, TypeOK
<1>2. run'[p].pc = "dead"
  BY <1>1 DEF Kill, RunRecord
<1>3. lock' # p /\ Reached(FileStores)'
  BY <1>1 DEF Kill, Release, Reached
<1>4. Stored(p)'
  BY <1>2, <1>3 DEF Stored, Holding, Replacing, Removing, Between
<1> QED BY <1>1, <1>3, <1>4 DEF Orderly

LEMMA ReachableInit == Init => Reachable
<1> SUFFICES ASSUME Init PROVE Reachable
  OBVIOUS
<1>1. Reached(FileStores)
  BY DEF Init, Reached, FileStores
<1>2. ASSUME NEW p \in Procs PROVE Stored(p)
  <2>1. run[p].pc = "start" /\ run[p].old = Nothing /\ lock # p
    BY FirstIsNoProcess DEF Init
  <2> QED BY <2>1 DEF Stored, Holding, Replacing, Removing, Between
<1> QED BY <1>1, <1>2 DEF Reachable, Tidy

LEMMA ReachableStep == Inv /\ Inv' /\ Reachable /\ [Next]_vars => Reachable'
<1> SUFFICES ASSUME Inv, Inv', Reachable, [Next]_vars PROVE Reachable'
  OBVIOUS
<1>1. ASSUME NEW p \in Procs, Open(p) PROVE Reachable'
  BY <1>1, OpenCore, UseOrderly, OrderlyKeeps
<1>2. ASSUME NEW p \in Procs, Step(p) PROVE Reachable'
  <2>1. Core(p)
    BY <1>2, StepCore
  <2>2. Orderly(p)
    BY <1>2, UseOrderly, StoreRefreshedOrderly, LoginOrderly, TakeOrderly, WriteSecretOrderly,
       SaveAccountOrderly, DiscardOrderly, SavedOrderly, UndoOrderly, PutBackOrderly,
       ResaveOrderly, LogoutOrderly, RemoveOrderly, ForgetOrderly, CreateProfileOrderly
    DEF Step
  <2> QED BY <2>1, <2>2, OrderlyKeeps
<1>3. ASSUME NEW p \in Procs, Reauthorize(p) PROVE Reachable'
  BY <1>3, ReauthorizeCore, UseOrderly, OrderlyKeeps
<1>4. ASSUME NEW p \in Procs, Interrupt(p) PROVE Reachable'
  BY <1>4, InterruptCore, InterruptOrderly, OrderlyKeeps
<1>5. ASSUME NEW p \in Procs, Kill(p) PROVE Reachable'
  BY <1>5, KillCore, KillOrderly, OrderlyKeeps
<1>6. CASE UNCHANGED <<run, lock, file, secret, leftover>>
  BY <1>6 DEF Reachable, Tidy, Stored, Reached, FileStores, Touched, FormerStores, Former
<1>7. (\E p \in Procs: Serve(p)) \/ (\E login \in Logins: Expire(login)) \/ UNCHANGED vars
        => UNCHANGED <<run, lock, file, secret, leftover>>
  BY DEF Serve, Expire, vars, disk, server, history
<1> QED BY <1>1, <1>2, <1>3, <1>4, <1>5, <1>6, <1>7 DEF Next

LEMMA ReachableAlways == Spec => []Reachable
BY Invariance, ReachableInit, ReachableStep, PTL DEF Spec

\* Whatever fails, and whoever is interrupted or killed, once the lock is free no store has a
\* secret that the saved account does not reach and no warning named (add_account).
THEOREM SecretsReached == Spec => []SecretsReachable
<1>1. Inv /\ Reachable => SecretsReachable
  BY DEF Inv, Reachable, Tidy, Reached, FileStores, SecretsReachable, StoreOf
<1> QED BY <1>1, Invariance, ReachableAlways, PTL


-----------------------------------------------------------------------------
(* What a process has in mind, and the request it waits for *)

\* Where a login process has a session of its own in hand.
Signing == {"identify", "lock", "take", "disown", "disowning"} \cup Replacing

\* The last request of p.
Sent(p, op, login) == wire[p].op = op /\ wire[p].login = login

\* What p remembers of its own command, and the request that it waits for an answer to.
Mind(p) ==
    LET r == run[p]
        k == plan[p].kind
    IN
    /\ r.pc \in {"refreshing", "store"} => r.mark = "refresh"
    /\ k = "login" /\ r.pc \in {"polling"} \cup Signing
         => r.mark = "login" /\ (r.pc # "polling" => r.hand = [session |-> p, gen |-> 0])
    /\ k = "import" \/ (k = "logout" /\ r.pc \in {"start", "lock", "logout"}) => r.hand = Nothing
    /\ k = "login" /\ r.pc \in {"lock", "take"} \cup Replacing
         => r.entry.kind = "login" /\ r.entry.origin = plan[p].origin
    /\ k = "import" /\ r.pc \in Replacing => r.entry.kind = "key"
    /\ r.old # Nothing => k = "login" /\ LoginAt(r.old.account, plan[p].origin)
    /\ r.pc = "discard" => Moves(p)
    /\ r.pc = "refreshing" => Sent(p, "refresh", r.hand)
    /\ r.pc = "polling" => wire[p].op = "issue"
    /\ r.pc = "disowning" => Sent(p, "revoke", r.hand) /\ wire[p].origin = plan[p].origin
    /\ r.pc = "revoking" =>
         /\ r.mark = "revoke" /\ k = "login"
         /\ Sent(p, "revoke", r.old.login) /\ wire[p].origin = plan[p].origin
    /\ r.pc = "logging out" =>
         /\ r.mark = "logout" /\ k = "logout" /\ r.hand \in Logins
         /\ Sent(p, "revoke", r.hand) /\ wire[p].origin = r.mem.account.origin

\* Nobody but p has its memory and its request.
Alone(p) == \A o \in Procs: o # p => run'[o] = run[o] /\ wire'[o] = wire[o]

LEMMA WireType ==
    ASSUME Inv
    PROVE  wire \in [Procs -> [op: {"refresh", "revoke"}, login: Logins, origin: Origins,
                                answer: {"none", "ok", "refused"}]
                              \cup [op: {"issue"}, answer: {"none", "ok"}] \cup {Nothing}]
BY OutsideHere DEF Outside

\* Sessions that nobody accounts for any more: a person was told, or a watch was stopped.
Lapsed == told \cup unsaid

\* A step of p asks for nothing, or for something of its own.
LEMMA StepAlone ==
    ASSUME Inv, NEW p \in Procs,
           Open(p) \/ Step(p) \/ Reauthorize(p) \/ Interrupt(p) \/ Kill(p)
    PROVE  Alone(p) /\ session' = session /\ Lapsed \subseteq Lapsed' /\ Core(p)
<1> USE DEF disk, server, history, Lapsed
<1>1. Core(p)
  BY StepCore, OpenCore, ReauthorizeCore, InterruptCore, KillCore
<1>2. wire' = wire \/ \E w: wire' = [wire EXCEPT ![p] = w]
  BY DEF Open, Step, Reauthorize, Interrupt, Kill, Read, Lock, Reread, Refreshed, StoreRefreshed,
         Exchange, CheckName, AskGrant, Polled, Identify, Take, WriteSecret, SaveAccount, Discard,
         Saved, Undo, PutBack, Resave, Disown, Revoked, Logout, LogoutRevoked, Remove, Forget,
         CreateProfile, Ask
<1>3. session' = session
  BY DEF Open, Step, Reauthorize, Interrupt, Kill, Read, Lock, Reread, Refreshed, StoreRefreshed,
         Exchange, CheckName, AskGrant, Polled, Identify, Take, WriteSecret, SaveAccount, Discard,
         Saved, Undo, PutBack, Resave, Disown, Revoked, Logout, LogoutRevoked, Remove, Forget,
         CreateProfile
<1>4. Lapsed \subseteq Lapsed'
  BY DEF Open, Step, Reauthorize, Interrupt, Kill, Read, Lock, Reread, Refreshed, StoreRefreshed,
         Exchange, CheckName, AskGrant, Polled, Identify, Take, WriteSecret, SaveAccount, Discard,
         Saved, Undo, PutBack, Resave, Disown, Revoked, Logout, LogoutRevoked, Remove, Forget,
         CreateProfile, DiscardSecret
<1>5. Alone(p)
  BY <1>1, <1>2, Here, WireType DEF Core, Alone
<1> QED BY <1>1, <1>3, <1>4, <1>5

\* A step to where a process has little in mind.
LEMMA PlainMind ==
    ASSUME Inv, NEW p \in Procs, Mind(p), plan' = plan, run'[p].old = run[p].old,
           plan[p].kind \in {"import", "logout"} => run'[p].hand = run[p].hand,
           run'[p].pc \in {"lock", "logout"} => plan[p].kind # "logout" \/ run[p].pc \in {"start", "lock"},
           \/ run'[p].pc \in {"read", "reread", "exchange", "watching", "name", "ask", "logout", "profile",
                             "remove", "forget", "over", "dead"}
           \/ run'[p].pc \in {"lock", "take"} /\ plan[p].kind # "login"
    PROVE  Mind(p)'
BY DEF Mind, Signing, Replacing

LEMMA UseMind ==
    ASSUME Inv, NEW p \in Procs, Mind(p),
           \/ Open(p) \/ Read(p) \/ Reread(p) \/ Refreshed(p) \/ StoreRefreshed(p)
           \/ Exchange(p) \/ Reauthorize(p)
    PROVE  Mind(p)'
<1> USE DEF disk, server, history
<1>1. /\ run[p] \in RunRecord /\ run \in [Procs -> RunRecord] /\ plan' = plan
      /\ Local(plan[p].kind, run[p]) /\ Own(p) /\ plan[p].kind \in Kinds
  BY Here DEF Open, Read, Reread, Refreshed, StoreRefreshed, Exchange, Reauthorize
<1>2. CASE \E result: End(p, result)
  BY <1>1, <1>2, PlainMind DEF End, RunRecord
<1>3. CASE Open(p)
  <2>1. /\ FirstStep(plan[p].kind) \in {"read", "name", "lock"}
        /\ FirstStep(plan[p].kind) = "lock" => plan[p].kind # "login"
    BY <1>1 DEF FirstStep
  <2>2. /\ run'[p].pc = FirstStep(plan[p].kind) /\ run'[p].old = run[p].old /\ run'[p].hand = run[p].hand
        /\ run[p].pc = "start"
    BY <1>1, <1>3 DEF Open, RunRecord
  <2> QED BY <1>1, <2>1, <2>2, PlainMind
<1>4. ASSUME plan[p].kind \in Renewing,
             run'[p].pc \in {"exchange", "lock", "watching", "read"}, run'[p].old = run[p].old
      PROVE  Mind(p)'
  BY <1>1, <1>4, PlainMind DEF Renewing
<1>5. CASE Read(p)
  <2>1. plan[p].kind \in Renewing
    BY <1>1, <1>5 DEF Read, Local
  <2> QED BY <1>1, <1>2, <1>4, <1>5, <2>1 DEF Read, RunRecord
<1>6. CASE Exchange(p)
  <2>1. plan[p].kind \in Renewing
    BY <1>1, <1>6 DEF Exchange, Local
  <2> QED BY <1>1, <1>2, <1>4, <1>6, <2>1 DEF Exchange, RunRecord
<1>7. CASE Reauthorize(p)
  <2>1. plan[p].kind \in Renewing
    BY <1>1, <1>7 DEF Reauthorize, Local
  <2> QED BY <1>1, <1>4, <1>7, <2>1 DEF Reauthorize, Goto, RunRecord
<1>8. CASE StoreRefreshed(p)
  <2>1. plan[p].kind \in Renewing
    BY <1>1, <1>8 DEF StoreRefreshed, Local
  <2>2. CASE run' = [run EXCEPT ![p].pc = "exchange", ![p].mark = "none",
                                ![p].cache = Cached(run[p].mem.account.store, run[p].hand)]
    BY <1>1, <1>4, <2>1, <2>2 DEF RunRecord
  <2> QED BY <1>2, <1>8, <2>2 DEF StoreRefreshed
<1>9. CASE Refreshed(p)
  <2>1. plan[p].kind \in Renewing
    BY <1>1, <1>9 DEF Refreshed, Local
  <2>2. CASE run' = [run EXCEPT ![p].pc = "store", ![p].hand.gen = @ + 1]
    <3>1. run'[p].pc = "store" /\ run'[p].old = run[p].old /\ run'[p].mark = run[p].mark
      BY <1>1, <2>2 DEF RunRecord
    <3>2. run[p].mark = "refresh"
      BY <1>9 DEF Refreshed, Mind
    <3> QED BY <1>1, <2>1, <3>1, <3>2 DEF Mind, Signing, Replacing, Renewing
  <2> QED BY <1>2, <1>9, <2>2 DEF Refreshed
<1>10. CASE Reread(p)
  <2> DEFINE s == Held(p, run[p].mem.account.store)
  <2>1. plan[p].kind \in Renewing
    BY <1>1, <1>10 DEF Reread, Local
  <2>2. CASE run' = [run EXCEPT ![p].pc = "exchange", ![p].hand = s,
                                ![p].cache = Cached(run[p].mem.account.store, s)]
    BY <1>1, <1>4, <2>1, <2>2 DEF RunRecord
  <2>3. CASE /\ run' = [run EXCEPT ![p].pc = "refreshing", ![p].hand = s, ![p].mark = "refresh",
                                   ![p].cache = Cached(run[p].mem.account.store, s)]
             /\ Ask(p, Request("refresh", s, run[p].mem.account.origin))
    <3>1. /\ run'[p].pc = "refreshing" /\ run'[p].old = run[p].old /\ run'[p].mark = "refresh"
          /\ run'[p].hand = s
      BY <1>1, <2>3 DEF RunRecord
    <3>2. wire'[p].op = "refresh" /\ wire'[p].login = s
      BY <2>3, WireType DEF Ask, Request
    <3> QED BY <1>1, <2>1, <3>1, <3>2 DEF Mind, Sent, Signing, Replacing, Renewing
  <2> QED BY <1>2, <1>10, <2>2, <2>3 DEF Reread
<1> QED BY <1>3, <1>5, <1>6, <1>7, <1>8, <1>9, <1>10

LEMMA LockMind == ASSUME Inv, NEW p \in Procs, Mind(p), Lock(p) PROVE Mind(p)'
<1> USE DEF disk, server, history
<1>1. /\ run[p] \in RunRecord /\ run \in [Procs -> RunRecord] /\ plan' = plan
      /\ plan[p].kind \in Kinds /\ run[p].pc = "lock"
  BY Here DEF Lock
<1>2. CASE End(p, "locked out")
  BY <1>1, <1>2, PlainMind DEF End, RunRecord
<1>3. CASE Goto(p, "disown") /\ plan[p].kind = "login"
  <2>1. run'[p] = [run[p] EXCEPT !.pc = "disown"]
    BY <1>1, <1>3 DEF Goto
  <2>2. /\ run'[p].pc = "disown" /\ run'[p].old = run[p].old /\ run'[p].mark = run[p].mark
        /\ run'[p].hand = run[p].hand
    BY <1>1, <2>1 DEF RunRecord
  <2> QED BY <1>1, <1>3, <2>2 DEF Mind, Signing, Replacing
<1>4. CASE run' = [run EXCEPT ![p].pc = Locked(plan[p].kind), ![p].cache = Nothing]
  <2>1. /\ run'[p].pc = Locked(plan[p].kind) /\ run'[p].old = run[p].old
        /\ run'[p].mark = run[p].mark /\ run'[p].hand = run[p].hand /\ run'[p].entry = run[p].entry
    BY <1>1, <1>4 DEF RunRecord
  <2>2. CASE plan[p].kind = "login"
    <3>1. run'[p].pc = "take"
      BY <2>1, <2>2 DEF Locked
    <3> QED BY <1>1, <2>1, <2>2, <3>1 DEF Mind, Signing, Replacing
  <2>3. CASE plan[p].kind # "login"
    <3>1. run'[p].pc \in {"reread", "take", "logout", "profile"}
      BY <1>1, <2>1, <2>3 DEF Locked, Kinds
    <3> QED BY <1>1, <2>1, <2>3, <3>1, PlainMind
  <2> QED BY <2>2, <2>3
<1> QED BY <1>2, <1>3, <1>4 DEF Lock


LEMMA LoginMind ==
    ASSUME Inv, NEW p \in Procs, Mind(p),
           \/ CheckName(p) \/ AskGrant(p) \/ Polled(p) \/ Identify(p) \/ Disown(p) \/ Revoked(p)
    PROVE  Mind(p)'
<1> USE DEF disk, server, history
<1>1. /\ run[p] \in RunRecord /\ run \in [Procs -> RunRecord] /\ plan' = plan
      /\ Local(plan[p].kind, run[p])
  BY Here DEF CheckName, AskGrant, Polled, Identify, Disown, Revoked
<1>2. CASE \E result: End(p, result)
  BY <1>1, <1>2, PlainMind DEF End, RunRecord
<1>3. CASE CheckName(p)
  <2>1. plan[p].kind = "login"
    BY <1>1, <1>3 DEF CheckName, Local
  <2>2. CASE Goto(p, "ask")
    BY <1>1, <2>1, <2>2, PlainMind DEF Goto, RunRecord
  <2>3. CASE \E c: run' = [run EXCEPT ![p].pc = "ask", ![p].cache = c]
    BY <1>1, <2>1, <2>3, PlainMind DEF RunRecord
  <2> QED BY <1>2, <1>3, <2>2, <2>3 DEF CheckName
<1>4. CASE AskGrant(p)
  <2>1. CASE /\ run' = [run EXCEPT ![p].pc = "polling", ![p].mark = "login"]
             /\ Ask(p, [op |-> "issue", answer |-> "none"])
    <3>1. /\ run'[p].pc = "polling" /\ run'[p].old = run[p].old /\ run'[p].mark = "login"
      BY <1>1, <2>1 DEF RunRecord
    <3>2. wire'[p].op = "issue" /\ plan[p].kind = "login"
      BY <1>1, <1>4, <2>1, WireType DEF Ask, AskGrant, Local
    <3> QED BY <1>1, <3>1, <3>2 DEF Mind, Signing, Replacing
  <2> QED BY <1>2, <1>4, <2>1 DEF AskGrant
<1>5. CASE Polled(p)
  <2>1. plan[p].kind = "login" /\ run[p].mark = "login"
    BY <1>1, <1>5 DEF Polled, Local, Mind
  <2>2. CASE run' = [run EXCEPT ![p].pc = "identify", ![p].hand = [session |-> p, gen |-> 0]]
    <3>1. /\ run'[p].pc = "identify" /\ run'[p].old = run[p].old /\ run'[p].mark = "login"
          /\ run'[p].hand = [session |-> p, gen |-> 0]
      BY <1>1, <2>1, <2>2 DEF RunRecord
    <3> QED BY <1>1, <2>1, <3>1 DEF Mind, Signing, Replacing
  <2>3. CASE run' = [run EXCEPT ![p].pc = "ask", ![p].mark = "none"]
    BY <1>1, <2>1, <2>3, PlainMind DEF RunRecord
  <2> QED BY <1>2, <1>5, <2>2, <2>3 DEF Polled
<1>6. CASE Identify(p)
  <2>1. plan[p].kind = "login" /\ run[p].pc = "identify"
    BY <1>1, <1>6 DEF Identify, Local
  <2>2. run[p].mark = "login" /\ run[p].hand = [session |-> p, gen |-> 0]
    BY <2>1 DEF Mind, Signing
  <2>3. ASSUME NEW store, run' = [run EXCEPT ![p].pc = "lock",
                                    ![p].entry = [kind |-> "login", store |-> store,
                                                  origin |-> plan[p].origin]]
        PROVE  Mind(p)'
    <3>1. /\ run'[p].pc = "lock" /\ run'[p].old = run[p].old /\ run'[p].mark = run[p].mark
          /\ run'[p].hand = run[p].hand
          /\ run'[p].entry = [kind |-> "login", store |-> store, origin |-> plan[p].origin]
      BY <1>1, <2>3 DEF RunRecord
    <3> QED BY <1>1, <2>1, <2>2, <3>1 DEF Mind, Replacing
  <2>4. CASE Goto(p, "disown")
    <3>1. /\ run'[p].pc = "disown" /\ run'[p].old = run[p].old /\ run'[p].mark = run[p].mark
          /\ run'[p].hand = run[p].hand
      BY <1>1, <2>4 DEF Goto, RunRecord
    <3> QED BY <1>1, <2>1, <2>2, <3>1 DEF Mind, Replacing
  <2> QED BY <1>6, <2>3, <2>4 DEF Identify
<1>7. CASE Disown(p)
  <2>1. plan[p].kind = "login" /\ run[p].pc = "disown"
    BY <1>1, <1>7 DEF Disown, Local
  <2>2. run[p].mark = "login" /\ run[p].hand = [session |-> p, gen |-> 0]
    BY <2>1 DEF Mind, Signing
  <2>3. /\ run'[p].pc = "disowning" /\ run'[p].old = run[p].old /\ run'[p].mark = run[p].mark
        /\ run'[p].hand = run[p].hand
    BY <1>1, <1>7 DEF Disown, Goto, RunRecord
  <2>4. /\ wire'[p].op = "revoke" /\ wire'[p].login = run[p].hand /\ wire'[p].origin = plan[p].origin
    BY <1>7, WireType DEF Disown, Ask, Request
  <2> QED BY <1>1, <2>1, <2>2, <2>3, <2>4 DEF Mind, Sent, Replacing
<1>8. CASE Revoked(p)
  <2>1. run'[p].pc = "over" /\ run'[p].old = run[p].old /\ run'[p].hand = run[p].hand
    BY <1>1, <1>8 DEF Revoked, RunRecord
  <2> QED BY <1>1, <2>1, PlainMind
<1> QED BY <1>3, <1>4, <1>5, <1>6, <1>7, <1>8

\* A step of a command that replaces the account, which goes on with it or gives it up.
LEMMA ReplacingMind ==
    ASSUME Inv, NEW p \in Procs, Mind(p), plan' = plan,
           run[p].pc \in Replacing, run'[p].hand = run[p].hand, run'[p].mark = run[p].mark,
           run'[p].entry = run[p].entry, run'[p].old = run[p].old,
           \/ run'[p].pc \in Replacing
           \/ run'[p].pc = "disown" /\ plan[p].kind = "login",
           run'[p].pc = "discard" => Moves(p)
    PROVE  Mind(p)'
<1>1. plan[p].kind \in {"login", "import"}
  BY Here DEF Local
<1>2. CASE plan[p].kind = "login"
  <2>1. /\ run[p].mark = "login" /\ run[p].hand = [session |-> p, gen |-> 0]
        /\ run[p].entry.kind = "login" /\ run[p].entry.origin = plan[p].origin
    BY <1>2 DEF Mind, Signing, Replacing
  <2> QED BY <1>2, <2>1 DEF Mind, Moves, Replacing
<1>3. CASE plan[p].kind = "import"
  BY <1>3 DEF Mind, Moves, Signing, Replacing
<1> QED BY <1>1, <1>2, <1>3

LEMMA TakeMind == ASSUME Inv, NEW p \in Procs, Mind(p), Take(p) PROVE Mind(p)'
<1> USE DEF disk, server, history
<1>1. /\ run[p] \in RunRecord /\ run \in [Procs -> RunRecord] /\ plan' = plan
      /\ plan[p].kind \in {"login", "import"} /\ run[p].pc = "take"
  BY Here DEF Take, Local
<1>2. plan[p].kind = "login" =>
        /\ run[p].mark = "login" /\ run[p].hand = [session |-> p, gen |-> 0]
        /\ run[p].entry.kind = "login" /\ run[p].entry.origin = plan[p].origin
  BY <1>1 DEF Mind, Signing
<1>3. CASE \E result: End(p, result)
  BY <1>1, <1>3, PlainMind DEF End, RunRecord
<1>4. CASE run' = [run EXCEPT ![p].pc = "write", ![p].mem = file, ![p].entry = Entry(p)]
  <2>1. /\ run'[p].pc = "write" /\ run'[p].old = run[p].old /\ run'[p].mark = run[p].mark
        /\ run'[p].hand = run[p].hand /\ run'[p].entry = Entry(p)
    BY <1>1, <1>4 DEF RunRecord
  <2>2. plan[p].kind = "import" => run'[p].entry.kind = "key"
    BY <2>1 DEF Entry, Imported
  <2>3. plan[p].kind = "login" => run'[p].entry = run[p].entry
    BY <2>1 DEF Entry
  <2> QED BY <1>1, <1>2, <2>1, <2>2, <2>3 DEF Mind, Signing
<1>5. CASE /\ plan[p].kind = "login" /\ LoginAt(file.account, plan[p].origin)
           /\ run' = [run EXCEPT ![p].pc = "write", ![p].mem = file,
                                ![p].cache = Cached(file.account.store, secret[file.account.store]),
                                ![p].old = [account |-> file.account,
                                            login |-> secret[file.account.store]]]
  <2>1. /\ run'[p].pc = "write" /\ run'[p].mark = run[p].mark
        /\ run'[p].hand = run[p].hand /\ run'[p].entry = run[p].entry
        /\ run'[p].old = [account |-> file.account, login |-> secret[file.account.store]]
    BY <1>1, <1>5 DEF RunRecord
  <2>2. LoginAt(run'[p].old.account, plan[p].origin) /\ plan'[p] = plan[p] /\ plan[p].kind = "login"
    BY <1>1, <1>5, <2>1
  <2> QED BY <1>2, <2>1, <2>2 DEF Mind, LoginAt
<1>6. CASE /\ plan[p].kind = "login"
           /\ run' = [run EXCEPT ![p].pc = "disown", ![p].mem = file]
  <2>1. /\ run'[p].pc = "disown" /\ run'[p].old = run[p].old /\ run'[p].mark = run[p].mark
        /\ run'[p].hand = run[p].hand
    BY <1>1, <1>6 DEF RunRecord
  <2> QED BY <1>1, <1>2, <1>6, <2>1 DEF Mind, Replacing
<1> QED BY <1>3, <1>4, <1>5, <1>6 DEF Take

LEMMA PutMind ==
    ASSUME Inv, Reachable, NEW p \in Procs, Mind(p),
           \/ WriteSecret(p) \/ SaveAccount(p) \/ Discard(p) \/ Undo(p) \/ PutBack(p) \/ Resave(p)
    PROVE  Mind(p)'
<1> USE DEF disk, server, history
<1>1. /\ run[p] \in RunRecord /\ run \in [Procs -> RunRecord] /\ plan' = plan
      /\ run[p].pc \in Replacing
  BY Here DEF WriteSecret, SaveAccount, Discard, Undo, PutBack, Resave, Replacing
<1>2. CASE WriteSecret(p)
  <2>1. CASE \E c: run' = [run EXCEPT ![p].pc = "save", ![p].cache = c]
    BY <1>1, <2>1, ReplacingMind DEF RunRecord, Replacing
  <2>2. CASE run' = [run EXCEPT ![p].pc = "undo", ![p].cache = Nothing]
    BY <1>1, <2>2, ReplacingMind DEF RunRecord, Replacing
  <2> QED BY <1>2, <2>1, <2>2 DEF WriteSecret
<1>3. CASE SaveAccount(p)
  <2>1. PICK l \in {"discard", "saved", "undo"}:
          /\ run' = [run EXCEPT ![p].pc = l, ![p].mem = [run[p].mem EXCEPT !.account = run[p].entry]]
          /\ (l = "discard" => Moves(p))
    BY <1>3 DEF SaveAccount
  <2> QED BY <1>1, <2>1, ReplacingMind DEF RunRecord, Replacing
<1>4. CASE Discard(p)
  BY <1>1, <1>4, ReplacingMind DEF Discard, Goto, RunRecord, Replacing
<1>5. CASE Undo(p)
  BY <1>1, <1>5, ReplacingMind DEF Undo, Goto, RunRecord, Replacing
<1>6. CASE PutBack(p)
  <2>1. CASE run' = [run EXCEPT ![p].pc = "resave", ![p].mem.account = Nothing]
    BY <1>1, <2>1, ReplacingMind DEF RunRecord, Replacing
  <2>2. CASE \E hint: run' = [run EXCEPT ![p].pc = "resave", ![p].mem.account = run[p].old.account,
                                        ![p].hint = hint]
    BY <1>1, <2>2, ReplacingMind DEF RunRecord, Replacing
  <2> QED BY <1>6, <2>1, <2>2 DEF PutBack
<1>7. CASE Resave(p)
  <2>1. PICK hint: run' = [run EXCEPT ![p].hint = hint,
                              ![p].pc = IF plan[p].kind = "login" THEN "disown" ELSE "over",
                              ![p].result = IF plan[p].kind = "login" THEN @ ELSE "not saved"]
    BY <1>7 DEF Resave
  <2>2. /\ run'[p].pc = IF plan[p].kind = "login" THEN "disown" ELSE "over"
        /\ run'[p].hand = run[p].hand /\ run'[p].mark = run[p].mark
        /\ run'[p].entry = run[p].entry /\ run'[p].old = run[p].old
    BY <1>1, <2>1 DEF RunRecord
  <2>3. CASE plan[p].kind = "login"
    BY <1>1, <2>2, <2>3, ReplacingMind
  <2>4. CASE plan[p].kind # "login"
    BY <1>1, <2>2, <2>4, PlainMind
  <2> QED BY <2>3, <2>4
<1> QED BY <1>2, <1>3, <1>4, <1>5, <1>6, <1>7

LEMMA SavedMind == ASSUME Inv, NEW p \in Procs, Mind(p), Saved(p) PROVE Mind(p)'
<1> USE DEF disk, server, history
<1>1. /\ run[p] \in RunRecord /\ run \in [Procs -> RunRecord] /\ plan' = plan
  BY Here DEF Saved
<1>2. CASE run[p].old = Nothing
  <2>1. run'[p].pc = "over" /\ run'[p].old = run[p].old /\ run'[p].hand = run[p].hand
    BY <1>1, <1>2 DEF Saved, RunRecord
  <2> QED BY <1>1, <2>1, PlainMind
<1>3. CASE run[p].old # Nothing
  <2>1. /\ run'[p].pc = "revoking" /\ run'[p].old = run[p].old /\ run'[p].hand = run[p].hand
        /\ run'[p].mark = "revoke"
    BY <1>1, <1>3 DEF Saved, RunRecord
  <2>2. /\ wire'[p].op = "revoke" /\ wire'[p].login = run[p].old.login /\ wire'[p].origin = plan[p].origin
    BY <1>3, WireType DEF Saved, Ask, Request
  <2>3. plan[p].kind = "login"
    BY <1>3 DEF Mind
  <2> QED BY <1>1, <2>1, <2>2, <2>3 DEF Mind, Sent, Signing, Replacing
<1> QED BY <1>2, <1>3


LEMMA RemovingMind ==
    ASSUME Inv, NEW p \in Procs, Mind(p),
           \/ Logout(p) \/ LogoutRevoked(p) \/ Remove(p) \/ Forget(p) \/ CreateProfile(p)
    PROVE  Mind(p)'
<1> USE DEF disk, server, history
<1>1. /\ run[p] \in RunRecord /\ run \in [Procs -> RunRecord] /\ plan' = plan
      /\ plan[p].kind # "import"
  BY Here DEF Logout, LogoutRevoked, Remove, Forget, CreateProfile, Local, Removing
<1>2. CASE \E result: End(p, result)
  BY <1>1, <1>2, PlainMind DEF End, RunRecord
<1>3. CASE \E l \in {"remove", "forget"}: Goto(p, l)
  BY <1>1, <1>3, PlainMind DEF Goto, RunRecord
<1>4. CASE run' = [run EXCEPT ![p].pc = "remove", ![p].mem = file]
  BY <1>1, <1>4, PlainMind DEF RunRecord
<1>5. CASE run' = [run EXCEPT ![p].pc = "over", ![p].result = "logged out", ![p].mark = "none"]
  BY <1>1, <1>5, PlainMind DEF RunRecord
<1>6. CASE /\ secret[file.account.store] \in Logins /\ plan[p].kind = "logout"
           /\ run' = [run EXCEPT ![p].pc = "logging out", ![p].mem = file,
                                ![p].hand = secret[file.account.store], ![p].mark = "logout",
                                ![p].cache = Cached(file.account.store, secret[file.account.store])]
           /\ Ask(p, Request("revoke", secret[file.account.store], file.account.origin))
  <2>1. /\ run'[p].pc = "logging out" /\ run'[p].old = run[p].old /\ run'[p].mark = "logout"
        /\ run'[p].hand = secret[file.account.store] /\ run'[p].mem = file
    BY <1>1, <1>6 DEF RunRecord
  <2>2. /\ wire'[p].op = "revoke" /\ wire'[p].login = secret[file.account.store]
        /\ wire'[p].origin = file.account.origin
    BY <1>6, WireType DEF Ask, Request
  <2> QED BY <1>1, <1>6, <2>1, <2>2 DEF Mind, Sent, Signing, Replacing
<1>7. CASE Logout(p)
  BY <1>2, <1>4, <1>6, <1>7 DEF Logout
<1>8. CASE LogoutRevoked(p) \/ Remove(p)
  BY <1>2, <1>3, <1>8 DEF LogoutRevoked, Remove
<1>9. CASE Forget(p)
  BY <1>2, <1>5, <1>9 DEF Forget
<1>10. CASE CreateProfile(p)
  BY <1>2, <1>10 DEF CreateProfile
<1> QED BY <1>7, <1>8, <1>9, <1>10

LEMMA StopMind == ASSUME Inv, NEW p \in Procs, Mind(p), Interrupt(p) \/ Kill(p) PROVE Mind(p)'
<1>1. run[p] \in RunRecord /\ run \in [Procs -> RunRecord] /\ plan' = plan
  BY Here DEF Interrupt, Kill
<1>2. /\ run'[p].pc \in {"over", "dead"} /\ run'[p].old = run[p].old /\ run'[p].hand = run[p].hand
  BY <1>1 DEF Interrupt, Kill, End, RunRecord
<1> QED BY <1>1, <1>2, PlainMind

\* What o asked for outlives the answer to it.
LEMMA MindServed ==
    ASSUME NEW o \in Procs, Mind(o), plan' = plan, run'[o] = run[o], wire'[o].op = wire[o].op,
           wire[o].op # "issue" => wire'[o].login = wire[o].login /\ wire'[o].origin = wire[o].origin
    PROVE  Mind(o)'
<1>1. Moves(o)' = Moves(o)
  BY DEF Moves
<1>2. Sent(o, "refresh", run[o].hand) => Sent(o, "refresh", run[o].hand)'
  BY DEF Sent
<1>3. Sent(o, "revoke", run[o].hand)
        => Sent(o, "revoke", run[o].hand)' /\ wire'[o].origin = wire[o].origin
  BY DEF Sent
<1>4. Sent(o, "revoke", run[o].old.login)
        => Sent(o, "revoke", run[o].old.login)' /\ wire'[o].origin = wire[o].origin
  BY DEF Sent
<1>5. /\ run[o].pc = "refreshing" => Sent(o, "refresh", run[o].hand)'
      /\ run[o].pc = "polling" => wire'[o].op = "issue"
      /\ run[o].pc = "disowning"
           => Sent(o, "revoke", run[o].hand)' /\ wire'[o].origin = plan[o].origin
      /\ run[o].pc = "revoking"
           => Sent(o, "revoke", run[o].old.login)' /\ wire'[o].origin = plan[o].origin
      /\ run[o].pc = "logging out"
           => Sent(o, "revoke", run[o].hand)' /\ wire'[o].origin = run[o].mem.account.origin
  BY <1>2, <1>3, <1>4, ZenonT(40) DEF Mind
<1>6. /\ run'[o].pc = "revoking" => run'[o].mark = "revoke" /\ plan'[o].kind = "login"
      /\ run'[o].pc = "logging out"
           => run'[o].mark = "logout" /\ plan'[o].kind = "logout" /\ run'[o].hand \in Logins
  BY ZenonT(40) DEF Mind
<1> QED BY <1>1, <1>5, <1>6, ZenonT(40) DEF Mind, Sent

\* What Serve does: p's request is answered, and at most the session it names changes.
LEMMA ServeMind == ASSUME Inv, NEW p \in Procs, Serve(p), NEW o \in Procs, Mind(o) PROVE Mind(o)'
<1>1. /\ run' = run /\ plan' = plan /\ wire[p] # Nothing
      /\ \/ wire' = [wire EXCEPT ![p].answer = "ok"]
         \/ wire' = [wire EXCEPT ![p].answer = "refused"] /\ wire[p].op # "issue"
  BY DEF Serve
<1>2. CASE wire[p] \in [op: {"issue"}, answer: {"none", "ok"}]
  <2>1. wire'[o].op = wire[o].op /\ (o # p => wire'[o] = wire[o])
    BY <1>1, <1>2, WireType
  <2> QED BY <1>1, <1>2, <2>1, MindServed
<1>3. CASE wire[p] \in [op: {"refresh", "revoke"}, login: Logins, origin: Origins,
                       answer: {"none", "ok", "refused"}]
  <2>1. /\ wire'[o].op = wire[o].op /\ (o # p => wire'[o] = wire[o])
        /\ o = p => wire'[o].login = wire[o].login /\ wire'[o].origin = wire[o].origin
    BY <1>1, <1>3, WireType
  <2> QED BY <1>1, <2>1, MindServed
<1> QED BY <1>1, <1>2, <1>3, WireType

Minded == \A p \in Procs: Mind(p)

LEMMA MindSame ==
    ASSUME NEW o \in Procs, Mind(o), plan' = plan, run'[o] = run[o], wire'[o] = wire[o]
    PROVE  Mind(o)'
<1>1. Moves(o)' = Moves(o)
  BY DEF Moves
<1> QED BY <1>1 DEF Mind, Sent

LEMMA MindedInit == Init => Minded
<1> SUFFICES ASSUME Init, NEW p \in Procs PROVE Mind(p)
  BY DEF Minded
<1>1. run[p].pc = "start" /\ run[p].old = Nothing /\ run[p].hand = Nothing
  BY DEF Init
<1> QED BY <1>1 DEF Mind, Signing, Replacing

LEMMA MindedStep == Inv /\ Reachable /\ Minded /\ [Next]_vars => Minded'
<1> SUFFICES ASSUME Inv, Reachable, Minded, [Next]_vars PROVE Minded'
  OBVIOUS
<1>1. ASSUME NEW p \in Procs,
             Open(p) \/ Step(p) \/ Reauthorize(p) \/ Interrupt(p) \/ Kill(p)
      PROVE  Minded'
  <2>1. Alone(p) /\ plan' = plan
    BY <1>1, StepAlone DEF Core
  <2>2. Mind(p)
    BY DEF Minded
  <2>3. Mind(p)'
    BY <1>1, <2>2, UseMind, LockMind, LoginMind, TakeMind, PutMind, SavedMind, RemovingMind, StopMind
    DEF Step
  <2>4. ASSUME NEW o \in Procs, o # p PROVE Mind(o)'
    BY <2>1, <2>4, MindSame DEF Minded, Alone
  <2> QED BY <2>3, <2>4 DEF Minded
<1>2. ASSUME NEW p \in Procs, Serve(p) PROVE Minded'
  BY <1>2, ServeMind DEF Minded
<1>3. CASE UNCHANGED <<plan, run, wire>>
  BY <1>3, MindSame DEF Minded
<1>4. (\E login \in Logins: Expire(login)) \/ UNCHANGED vars => UNCHANGED <<plan, run, wire>>
  BY DEF Expire, vars, server
<1> QED BY <1>1, <1>2, <1>3, <1>4 DEF Next

LEMMA MindedAlways == Spec => []Minded
BY Invariance, ReachableAlways, MindedInit, MindedStep, PTL DEF Spec


-----------------------------------------------------------------------------
(* Sessions *)

\* The request of p was served.
Answered(p) == wire[p].answer = "ok"

\* The login that a refresh of this one issues.
Renewal(login) == [login EXCEPT !.gen = @ + 1]

\* A login that the auth service still takes, unless its session was revoked.
Valid(login) ==
    /\ session[login.session].state # "none"
    /\ Live(login.session) => session[login.session].gen = login.gen

\* A session that no login reaches any more, or that lapsed.
Gone(s) == session[s].state = "revoked" \/ s \in Lapsed

\* Session s is in a store, or remembered as the one being replaced.
Seen(s) ==
    \/ \E st \in Stores: secret[st] \in Logins /\ secret[st].session = s
    \/ \E q \in Procs: run[q].old # Nothing /\ run[q].old.login.session = s

\* The login of every store outside S is a lapsed one.
Elsewhere(S) == \A st \in Stores \ S: secret[st] \in Logins => secret[st].session \in Lapsed

\* The stores that p writes hold no login but its own, the replaced one, or a lapsed one.
Mine(p) ==
    \A st \in Touched(p):
        secret[st] \in Logins =>
            \/ secret[st] = run[p].hand
            \/ run[p].old # Nothing /\ secret[st] = run[p].old.login
            \/ secret[st].session \in Lapsed

\* What the holder of the lock knows of the logins in the stores.
Guarded(p) ==
    LET r == run[p] IN
    /\ r.pc \in Holding \ Between => Elsewhere(FileStores)
    /\ r.pc \in {"save", "undo", "discard"} => Elsewhere(Touched(p))
    /\ r.pc \in {"putback", "resave"} => Elsewhere(FormerStores(p))
    /\ r.pc = "forget" => Elsewhere({})
    /\ r.pc \in {"save", "discard", "saved"} => secret[r.entry.store] = NewSecret(p)
    /\ r.pc \in {"save", "undo", "discard", "putback", "resave"} => Mine(p)
    /\ r.old # Nothing =>
         /\ r.pc = "write" => secret[r.old.account.store] = r.old.login
         /\ r.pc \in {"save", "undo", "discard", "putback", "resave"} /\ Moves(p)
              => secret[r.old.account.store] = r.old.login
         /\ r.pc = "resave" /\ ~r.hint => secret[r.old.account.store] = r.old.login
         /\ r.pc \in Replacing => Valid(r.old.login) \/ r.old.login.session \in Lapsed
    /\ r.pc = "logging out" => file.account.kind = "login" /\ secret[file.account.store] = r.hand
    /\ r.pc = "remove" /\ plan[p].kind = "logout" /\ file.account.kind = "login"
         => r.hand \in Logins /\ secret[file.account.store] = r.hand
    /\ r.pc = "refreshing" /\ Answered(p) => Valid(Renewal(r.hand)) \/ r.hand.session \in Lapsed
    /\ r.pc = "store" => Valid(r.hand) \/ r.hand.session \in Lapsed

\* A request that is served late is one that a person was told about, or the refresh of a
\* watch that was stopped.
Loose(p) ==
    wire[p] # Nothing /\ wire[p].answer = "none" =>
        /\ wire[p].op = "refresh" => run[p].pc = "refreshing" \/ wire[p].login.session \in Lapsed
        /\ wire[p].op = "issue"
             => run[p].pc = "polling" \/ (run[p].pc \in {"over", "dead"} /\ p \in Lapsed)

\* The session of a login process is new: nobody has it, or refreshes it, before the
\* process has saved it.
Unseen(p) ==
    LET r == run[p] IN
    plan[p].kind = "login" =>
        /\ r.pc \in {"start", "name", "ask"} \/ (r.pc = "polling" /\ ~Answered(p))
             => session[p].state = "none"
        /\ r.pc \in Signing \/ (r.pc = "polling" /\ Answered(p))
             => session[p].state # "none" \/ p \in Lapsed
        /\ r.pc \in {"start", "name", "ask", "polling", "identify", "lock", "take", "write"}
             => (session[p].gen = 0 /\ ~Seen(p)) \/ p \in Lapsed

\* The replaced login belongs to the origin of the new one.
SameOrigin(p) ==
    run[p].old # Nothing =>
        \/ OriginOf(run[p].old.login.session) = plan[p].origin
        \/ run[p].old.login.session \in Lapsed

\* The session of a logout whose revoke was answered is gone.
LoggedOut(p) ==
    /\ plan[p].kind = "logout" /\ run[p].hand \in Logins
    /\ \/ run[p].pc \in {"remove", "forget"}
       \/ run[p].result = "logged out"
       \/ run[p].pc = "logging out" /\ Answered(p)
    => Gone(run[p].hand.session)

\* All that p knows of the sessions.
Aware(p) == Guarded(p) /\ Loose(p) /\ Unseen(p) /\ SameOrigin(p) /\ LoggedOut(p)

\* The renewed login of this store is in the hands of p.
Renewed(p, st) ==
    /\ run[p].pc = "store" \/ (run[p].pc = "refreshing" /\ Answered(p))
    /\ run[p].mem.account.store = st

\* p will save or revoke this login, or tell of it.
Keeps(p, login) ==
    LET r == run[p] IN
    \/ r.pc = "refreshing" /\ Answered(p) /\ login = Renewal(r.hand)
    \/ r.pc = "store" /\ login = r.hand
    \/ r.pc = "polling" /\ Answered(p) /\ login = [session |-> p, gen |-> 0]
    \/ plan[p].kind = "login" /\ r.pc \in Signing \ {"disowning"} /\ login = r.hand
    \/ r.pc = "disowning" /\ ~Answered(p) /\ login = r.hand
    \/ r.pc \in Replacing /\ r.old # Nothing /\ login = r.old.login
    \/ r.pc = "revoking" /\ ~Answered(p) /\ login = r.old.login

\* With the lock free, every login that the saved account does not name is a lapsed one.
Told == lock = Nobody => Elsewhere(FileStores)

\* A saved login is that of the saved account.
Kinded ==
    file.account # Nothing /\ secret[file.account.store] \in Logins =>
        LET s == secret[file.account.store].session IN
        s \in Lapsed \/ (file.account.kind = "login" /\ OriginOf(s) = file.account.origin)

\* A stored login is the current one of its session, unless its renewed one is in hand.
CurrentSecret ==
    \A st \in Stores: secret[st] \in Logins =>
        \/ Valid(secret[st])
        \/ secret[st].session \in Lapsed
        \/ \E p \in Procs: Renewed(p, st)

\* Somebody has the current login of every live session, unless it is lapsed.
AllKept ==
    \A login \in Logins: Current(login) =>
        \/ login.session \in Lapsed
        \/ Saves(login)
        \/ \E p \in Procs: Keeps(p, login)

Accounted ==
    /\ \A p \in Procs: Aware(p)
    /\ Told /\ Kinded /\ CurrentSecret /\ AllKept

\* A step of p after which every session is accounted for.
Careful(p) ==
    /\ Aware(p)'
    /\ run[p].pc \in Holding /\ run'[p].pc \notin Holding => Elsewhere(FileStores)'
    /\ \A o \in Procs: o # p /\ Seen(o)' => Seen(o)
    /\ Kinded'
    /\ \A st \in Stores: secret'[st] \in Logins =>
        \/ Valid(secret[st])'
        \/ secret'[st].session \in Lapsed'
        \/ secret'[st] = secret[st] /\ (Renewed(p, st) => Renewed(p, st)')
    /\ \A login \in Logins: Current(login) /\ (Saves(login) \/ Keeps(p, login)) =>
        \/ login.session \in Lapsed'
        \/ Saves(login)'
        \/ Keeps(p, login)'

\* What a process knows outlives the steps of the others.
LEMMA OtherAware ==
    ASSUME Inv, NEW o \in Procs, Aware(o),
           run'[o] = run[o], wire'[o] = wire[o], plan' = plan, session' = session,
           Lapsed \subseteq Lapsed', run[o].pc \in Holding => UNCHANGED <<secret, file>>,
           Seen(o)' => Seen(o)
    PROVE  Aware(o)'
<1>1. Guarded(o)'
  <2>1. /\ Moves(o)' = Moves(o) /\ NewSecret(o)' = NewSecret(o) /\ Answered(o)' = Answered(o)
        /\ Touched(o)' = Touched(o) /\ FormerStores(o)' = FormerStores(o)
    BY DEF Moves, NewSecret, Answered, Touched, FormerStores
  <2>3. CASE run[o].pc \in Holding
    <3>1. /\ Elsewhere(FileStores) => Elsewhere(FileStores)'
          /\ Elsewhere(Touched(o)) => Elsewhere(Touched(o))'
          /\ Elsewhere(FormerStores(o)) => Elsewhere(FormerStores(o))'
          /\ Elsewhere({}) => Elsewhere({})'
      BY <2>1, <2>3 DEF Elsewhere, FileStores
    <3>2. Mine(o) => Mine(o)'
      BY <2>1, <2>3 DEF Mine
    <3>3. Guarded(o) /\ UNCHANGED <<secret, file>>
      BY <2>3 DEF Aware
    <3>4. /\ run'[o].pc \in Holding \ Between => Elsewhere(FileStores)'
          /\ run'[o].pc \in {"save", "undo", "discard"} => Elsewhere(Touched(o))'
          /\ run'[o].pc \in {"putback", "resave"} => Elsewhere(FormerStores(o))'
          /\ run'[o].pc = "forget" => Elsewhere({})'
          /\ run'[o].pc \in {"save", "undo", "discard", "putback", "resave"} => Mine(o)'
      BY <3>1, <3>2, <3>3 DEF Guarded
    <3>5. /\ run'[o].old # Nothing /\ run'[o].pc \in Replacing
               => Valid(run[o].old.login)' \/ run'[o].old.login.session \in Lapsed'
          /\ run'[o].pc = "refreshing" /\ Answered(o)'
               => Valid(Renewal(run[o].hand))' \/ run'[o].hand.session \in Lapsed'
          /\ run'[o].pc = "store" => Valid(run[o].hand)' \/ run'[o].hand.session \in Lapsed'
      BY <2>1, <3>3 DEF Guarded, Valid, Live, Renewal
    <3> QED BY <2>1, <3>3, <3>4, <3>5 DEF Guarded
  <2>4. CASE run[o].pc \notin Holding
    BY <2>4 DEF Guarded, Holding, Replacing, Removing
  <2> QED BY <2>3, <2>4
<1>2. Loose(o)'
  BY DEF Aware, Loose
<1>3. Unseen(o)'
  BY DEF Aware, Unseen, Answered
<1>4. SameOrigin(o)'
  BY DEF Aware, SameOrigin, OriginOf
<1>5. LoggedOut(o)'
  BY DEF Aware, LoggedOut, Gone, Answered
<1> QED BY <1>1, <1>2, <1>3, <1>4, <1>5 DEF Aware

LEMMA CarefulKeeps ==
    ASSUME Inv, Inv', Reachable, Accounted, NEW p \in Procs, Core(p), Alone(p),
           session' = session, Lapsed \subseteq Lapsed', Careful(p)
    PROVE  Accounted'
<1>1. /\ \A o \in Procs: o # p => run'[o] = run[o] /\ wire'[o] = wire[o]
      /\ Nobody \notin Procs /\ LockStep(p) /\ plan' = plan
      /\ UNCHANGED <<secret, file>> \/ run[p].pc \in Holding
      /\ run[p].pc \in Holding => lock = p
  BY FirstIsNoProcess, TypeOfRun DEF Core, Alone, Inv, Own
<1>2. ASSUME NEW o \in Procs, o # p PROVE Aware(o)'
  <2>1. run[o].pc \in Holding => UNCHANGED <<secret, file>>
    BY <1>1, <1>2 DEF Inv, Own
  <2> QED BY <1>1, <1>2, <2>1, OtherAware DEF Accounted, Careful
<1>3. Told'
  <2> SUFFICES ASSUME lock' = Nobody PROVE Elsewhere(FileStores)'
    BY DEF Told
  <2>1. run'[p].pc \notin Holding
    BY <1>1 DEF Inv, Own
  <2>2. CASE run[p].pc \in Holding
    BY <2>1, <2>2 DEF Careful
  <2>3. CASE run[p].pc \notin Holding
    <3>1. lock # p /\ UNCHANGED <<secret, file>>
      BY <1>1, <2>3 DEF Reachable, Stored
    <3>2. Elsewhere(FileStores)
      BY <1>1, <3>1 DEF LockStep, Accounted, Told
    <3> QED BY <1>1, <3>1, <3>2 DEF Elsewhere, FileStores
  <2> QED BY <2>2, <2>3
<1>4. CurrentSecret'
  <2> SUFFICES ASSUME NEW st \in Stores, secret'[st] \in Logins, ~Valid(secret[st])',
                      secret'[st].session \notin Lapsed'
               PROVE  \E q \in Procs: Renewed(q, st)'
    BY DEF CurrentSecret
  <2>1. secret'[st] = secret[st] /\ (Renewed(p, st) => Renewed(p, st)')
    BY DEF Careful
  <2>2. ~Valid(secret[st])
    BY <2>1 DEF Valid, Live
  <2>3. PICK q \in Procs: Renewed(q, st)
    BY <2>1, <2>2 DEF Accounted, CurrentSecret
  <2>4. q # p => Renewed(q, st)'
    BY <1>1, <2>3 DEF Renewed, Answered
  <2> QED BY <2>1, <2>3, <2>4
<1>5. AllKept'
  <2> SUFFICES ASSUME NEW login \in Logins, Current(login)', login.session \notin Lapsed',
                      ~Saves(login)'
               PROVE  \E q \in Procs: Keeps(q, login)'
    BY DEF AllKept
  <2>1. Current(login)
    BY DEF Current, Live
  <2>2. CASE Saves(login)
    BY <2>1, <2>2 DEF Careful
  <2>3. ASSUME NEW q \in Procs, Keeps(q, login) PROVE \E o \in Procs: Keeps(o, login)'
    <3>1. CASE q = p
      BY <2>1, <2>3, <3>1 DEF Careful
    <3>2. CASE q # p
      <4>1. Keeps(q, login)'
        BY <1>1, <2>3, <3>2 DEF Keeps, Answered
      <4> QED BY <4>1
    <3> QED BY <3>1, <3>2
  <2> QED BY <2>1, <2>2, <2>3 DEF Accounted, AllKept
<1> QED BY <1>2, <1>3, <1>4, <1>5 DEF Accounted, Careful

\* The logins in sight are those of before, and perhaps that of p.
LEMMA SeenSame ==
    ASSUME Inv, NEW p \in Procs, Alone(p), UNCHANGED secret,
           run'[p].old = Nothing \/ run'[p].old = run[p].old, NEW o
    PROVE  Seen(o)' => Seen(o)
<1>1. \A q \in Procs: q # p => run'[q] = run[q]
  BY DEF Alone
<1> QED BY <1>1 DEF Seen

\* A step that leaves the stores and the configuration alone, to where p knows little of them.
LEMMA PlainCareful ==
    ASSUME Inv, Reachable, Accounted, NEW p \in Procs, Alone(p), plan' = plan, session' = session,
           UNCHANGED <<secret, file>>, Lapsed \subseteq Lapsed', run'[p].old = run[p].old,
           run[p].pc \notin Between,
           run'[p].pc \notin Replacing \cup Removing \cup {"refreshing", "store"},
           run'[p].pc \in Holding => run[p].pc \in Holding \/ lock = Nobody,
           run'[p].result # "logged out",
           Loose(p)', Unseen(p)',
           \A st \in Stores: Renewed(p, st) /\ secret[st] \in Logins => secret[st].session \in Lapsed',
           \A login \in Logins: Keeps(p, login) =>
              login.session \in Lapsed' \/ Saves(login) \/ Keeps(p, login)'
    PROVE  Careful(p)
<1>1. Aware(p) /\ Kinded
  BY DEF Accounted
<1>2. /\ run[p].pc \in Holding => Elsewhere(FileStores)
      /\ lock = Nobody => Elsewhere(FileStores)
  BY DEF Accounted, Aware, Guarded, Told
<1>3. Elsewhere(FileStores) => Elsewhere(FileStores)'
  BY DEF Elsewhere, FileStores
<1>4. Guarded(p)'
  BY <1>2, <1>3 DEF Guarded, Replacing, Removing, Between
<1>5. SameOrigin(p)'
  BY <1>1 DEF Aware, SameOrigin, OriginOf
<1>6. LoggedOut(p)'
  BY DEF LoggedOut, Removing
<1>7. Aware(p)'
  BY <1>4, <1>5, <1>6 DEF Aware
<1>8. Kinded'
  BY <1>1 DEF Kinded, OriginOf
<1>9. \A login \in Logins: Saves(login)' = Saves(login)
  BY DEF Saves
<1>10. \A o \in Procs: Seen(o)' => Seen(o)
  BY SeenSame
<1> QED BY <1>2, <1>3, <1>7, <1>8, <1>9, <1>10 DEF Careful

\* p asks for nothing new, and was not waiting for an answer that may come late.
LEMMA LooseSame ==
    ASSUME NEW p \in Procs, Loose(p), wire'[p] = wire[p], Lapsed \subseteq Lapsed',
           run[p].pc \notin {"refreshing", "polling", "over", "dead"}
    PROVE  Loose(p)'
BY DEF Loose

\* A process that is none that logs in, or is past it.
LEMMA UnseenPast ==
    ASSUME NEW p \in Procs, plan' = plan,
           \/ plan[p].kind # "login"
           \/ run'[p].pc \in {"revoking", "over", "dead"}
    PROVE  Unseen(p)'
BY DEF Unseen, Signing, Replacing

LEMMA EndCareful ==
    ASSUME Inv, Reachable, Accounted, NEW p \in Procs, Alone(p), plan' = plan, session' = session,
           NEW result, End(p, result), result # "logged out",
           UNCHANGED <<secret, file>>, Lapsed \subseteq Lapsed', run[p].pc \notin Between, Loose(p)',
           \A st \in Stores: Renewed(p, st) /\ secret[st] \in Logins => secret[st].session \in Lapsed',
           \A login \in Logins: Keeps(p, login) => login.session \in Lapsed' \/ Saves(login)
    PROVE  Careful(p)
<1>1. run[p] \in RunRecord /\ run \in [Procs -> RunRecord]
  BY Here
<1>2. run'[p].pc = "over" /\ run'[p].old = run[p].old /\ run'[p].result = result
  BY <1>1 DEF End, RunRecord
<1>3. Unseen(p)'
  BY <1>2, UnseenPast
<1> QED BY <1>2, <1>3, PlainCareful DEF Holding, Replacing, Removing

\* Where no session depends on p alone.
Idle == {"start", "read", "reread", "exchange", "watching", "name", "ask", "logout", "logging out",
         "remove", "profile"}

LEMMA IdleKeeps ==
    ASSUME NEW p \in Procs,
           run[p].pc \in Idle \/ (run[p].pc \in {"lock", "take"} /\ plan[p].kind # "login")
    PROVE  /\ \A login: ~Keeps(p, login)
           /\ \A st: ~Renewed(p, st)
           /\ run[p].pc \notin Between
           /\ run[p].pc \notin {"refreshing", "polling", "over", "dead"}
BY DEF Idle, Keeps, Renewed, Signing, Replacing, Between

\* The end of a command on which no session depends.
LEMMA IdleEndCareful ==
    ASSUME Inv, Reachable, Accounted, NEW p \in Procs, Alone(p), plan' = plan, session' = session,
           NEW result, End(p, result), result # "logged out",
           UNCHANGED <<secret, file>>, Lapsed \subseteq Lapsed', wire'[p] = wire[p],
           run[p].pc \in Idle \/ (run[p].pc \in {"lock", "take"} /\ plan[p].kind # "login")
    PROVE  Careful(p)
<1>1. Loose(p)'
  BY IdleKeeps, LooseSame DEF Accounted, Aware
<1> QED BY <1>1, IdleKeeps, EndCareful

LEMMA UseCareful ==
    ASSUME Inv, Reachable, Accounted, NEW p \in Procs, Alone(p), session' = session,
           Open(p) \/ Read(p) \/ Exchange(p) \/ Reauthorize(p)
    PROVE  Careful(p)
<1> USE DEF disk, server, history, Lapsed
<1>1. /\ run[p] \in RunRecord /\ run \in [Procs -> RunRecord] /\ plan' = plan
      /\ Local(plan[p].kind, run[p]) /\ plan[p].kind \in Kinds /\ run[p].pc \in Idle
      /\ UNCHANGED <<secret, file, wire, Lapsed>> /\ run[p].pc \notin Holding
  BY Here DEF Open, Read, Exchange, Reauthorize, Idle, Holding, Replacing, Removing
<1>2. CASE \E result \in {"unknown", "unreadable", "used", "expired", "transport"}: End(p, result)
  BY <1>1, <1>2, IdleEndCareful
<1>3. Loose(p)' /\ run[p].result = "none" /\ (\A login: ~Keeps(p, login)) /\ (\A st: ~Renewed(p, st))
      /\ run[p].pc \notin Between
  BY <1>1, IdleKeeps, LooseSame DEF Accounted, Aware, Local, Idle
<1>4. ASSUME NEW l, run'[p].pc = l, run'[p].old = run[p].old, run'[p].result = run[p].result,
             l \in {"read", "name", "lock", "exchange", "watching"}, Unseen(p)'
      PROVE  Careful(p)
  BY <1>1, <1>3, <1>4, PlainCareful DEF Holding, Replacing, Removing
<1>5. CASE Open(p)
  <2>1. /\ FirstStep(plan[p].kind) \in {"read", "name", "lock"}
        /\ plan[p].kind = "login" => FirstStep(plan[p].kind) = "name"
    BY <1>1 DEF FirstStep
  <2>2. /\ run'[p].pc = FirstStep(plan[p].kind) /\ run'[p].old = run[p].old
        /\ run'[p].result = run[p].result /\ run[p].pc = "start"
    BY <1>1, <1>5 DEF Open, RunRecord
  <2>3. Seen(p)' => Seen(p)
    BY <1>1, <2>2, SeenSame
  <2>4. Unseen(p)'
    BY <1>1, <2>1, <2>2, <2>3 DEF Accounted, Aware, Unseen, Signing, Replacing
  <2> QED BY <1>4, <2>1, <2>2, <2>4
<1>6. ASSUME NEW l \in {"read", "lock", "exchange", "watching"},
             run'[p].pc = l, run'[p].old = run[p].old, run'[p].result = run[p].result,
             plan[p].kind \in Renewing
      PROVE  Careful(p)
  <2>1. Unseen(p)'
    BY <1>1, <1>6, UnseenPast DEF Renewing
  <2> QED BY <1>4, <1>6, <2>1
<1>7. CASE Read(p)
  <2>1. plan[p].kind \in Renewing
    BY <1>1, <1>7 DEF Read, Local
  <2> QED BY <1>1, <1>2, <1>6, <1>7, <2>1 DEF Read, RunRecord
<1>8. CASE Exchange(p)
  <2>1. plan[p].kind \in Renewing
    BY <1>1, <1>8 DEF Exchange, Local
  <2> QED BY <1>1, <1>2, <1>6, <1>8, <2>1 DEF Exchange, RunRecord
<1>9. CASE Reauthorize(p)
  <2>1. plan[p].kind \in Renewing
    BY <1>1, <1>9 DEF Reauthorize, Local
  <2> QED BY <1>1, <1>6, <1>9, <2>1 DEF Reauthorize, Goto, RunRecord
<1> QED BY <1>5, <1>7, <1>8, <1>9

\* A step that leaves the stores and the configuration alone.
LEMMA QuietCareful ==
    ASSUME Inv, Reachable, Accounted, NEW p \in Procs, Alone(p), plan' = plan, session' = session,
           UNCHANGED <<secret, file>>, Lapsed \subseteq Lapsed', Aware(p)',
           run'[p].old = run[p].old \/ \A o \in Procs: Seen(o)' => Seen(o),
           run[p].pc \notin Between,
           \A st \in Stores: Renewed(p, st) /\ secret[st] \in Logins =>
              secret[st].session \in Lapsed' \/ Renewed(p, st)',
           \A login \in Logins: Current(login) /\ Keeps(p, login) =>
              login.session \in Lapsed' \/ Saves(login) \/ Keeps(p, login)'
    PROVE  Careful(p)
<1>1. Aware(p) /\ Kinded
  BY DEF Accounted
<1>2. run[p].pc \in Holding => Elsewhere(FileStores)'
  BY <1>1 DEF Aware, Guarded, Elsewhere, FileStores
<1>3. Kinded'
  BY <1>1 DEF Kinded, OriginOf
<1>4. \A login \in Logins: Saves(login)' = Saves(login)
  BY DEF Saves
<1>5. \A o \in Procs: Seen(o)' => Seen(o)
  BY SeenSame
<1> QED BY <1>2, <1>3, <1>4, <1>5 DEF Careful

LEMMA LockCareful ==
    ASSUME Inv, Reachable, Accounted, NEW p \in Procs, Alone(p), session' = session, Lock(p)
    PROVE  Careful(p)
<1> USE DEF disk, server, history, Lapsed
<1>1. /\ run[p] \in RunRecord /\ run \in [Procs -> RunRecord] /\ plan' = plan
      /\ run[p].pc = "lock" /\ plan[p].kind \in Kinds /\ run[p].result = "none"
      /\ UNCHANGED <<secret, file, wire, Lapsed>>
  BY Here DEF Lock, Local
<1>2. CASE End(p, "locked out") /\ plan[p].kind # "login"
  BY <1>1, <1>2, IdleEndCareful
<1>3. Loose(p)' /\ Unseen(p) /\ run[p].pc \notin Between /\ (\A st: ~Renewed(p, st))
  BY <1>1, LooseSame DEF Accounted, Aware, Between, Renewed
<1>4. CASE Goto(p, "disown") /\ plan[p].kind = "login"
  <2>1. /\ run'[p].pc = "disown" /\ run'[p].old = run[p].old /\ run'[p].hand = run[p].hand
        /\ run'[p].result = run[p].result
    BY <1>1, <1>4 DEF Goto, RunRecord
  <2>2. Unseen(p)'
    BY <1>1, <1>3, <2>1 DEF Unseen, Signing
  <2>3. \A login \in Logins: Keeps(p, login) => Keeps(p, login)'
    BY <1>1, <1>4, <2>1 DEF Keeps, Signing, Replacing
  <2> QED BY <1>1, <1>3, <2>1, <2>2, <2>3, PlainCareful DEF Holding, Replacing, Removing
<1>5. CASE /\ lock = Nobody /\ run' = [run EXCEPT ![p].pc = Locked(plan[p].kind), ![p].cache = Nothing]
  <2>1. /\ run'[p].pc = Locked(plan[p].kind) /\ run'[p].old = run[p].old /\ run'[p].hand = run[p].hand
        /\ run'[p].result = run[p].result
    BY <1>1, <1>5 DEF RunRecord
  <2>2. CASE plan[p].kind = "login"
    <3>1. run'[p].pc = "take"
      BY <2>1, <2>2 DEF Locked
    <3>2. Seen(p)' => Seen(p)
      BY <1>1, <2>1, SeenSame
    <3>3. Unseen(p)'
      BY <1>1, <1>3, <2>1, <3>1, <3>2 DEF Unseen, Signing
    <3>4. \A login \in Logins: Keeps(p, login) => Keeps(p, login)'
      BY <1>1, <2>1, <2>2, <3>1 DEF Keeps, Signing, Replacing
    <3> QED BY <1>1, <1>3, <1>5, <2>1, <3>1, <3>3, <3>4, PlainCareful DEF Holding, Replacing, Removing
  <2>3. CASE plan[p].kind # "login"
    <3>1. run'[p].pc \in {"reread", "take", "logout", "profile"}
      BY <1>1, <2>1, <2>3 DEF Locked, Kinds
    <3>2. Unseen(p)' /\ \A login: ~Keeps(p, login)
      BY <1>1, <2>3, IdleKeeps, UnseenPast
    <3> QED BY <1>1, <1>3, <1>5, <2>1, <3>1, <3>2, PlainCareful DEF Holding, Replacing, Removing
  <2> QED BY <2>2, <2>3
<1> QED BY <1>2, <1>4, <1>5 DEF Lock

LEMMA RereadCareful ==
    ASSUME Inv, Reachable, Accounted, NEW p \in Procs, Alone(p), session' = session, Reread(p)
    PROVE  Careful(p)
<1> USE DEF disk, server, history, Lapsed
<1> DEFINE s == Held(p, run[p].mem.account.store)
<1>1. /\ run[p] \in RunRecord /\ run \in [Procs -> RunRecord] /\ plan' = plan
      /\ run[p].pc = "reread" /\ run[p].result = "none" /\ plan[p].kind \in Renewing
      /\ UNCHANGED <<secret, file, Lapsed>> /\ run[p].pc \in Holding /\ Stored(p)
  BY Here DEF Reread, Local, Holding, Reachable
<1>2. /\ \A login: ~Keeps(p, login)
      /\ \A st: ~Renewed(p, st)
      /\ run[p].pc \notin Between /\ Unseen(p)' /\ Aware(p) /\ run[p].old = Nothing
  BY <1>1, IdleKeeps, UnseenPast DEF Idle, Renewing, Accounted, Stored, Replacing
<1>3. CASE End(p, "unreadable") /\ UNCHANGED wire
  BY <1>1, <1>3, IdleEndCareful DEF Idle
<1>4. CASE /\ run' = [run EXCEPT ![p].pc = "exchange", ![p].hand = s,
                                ![p].cache = Cached(run[p].mem.account.store, s)]
           /\ UNCHANGED wire
  <2>1. run'[p].pc = "exchange" /\ run'[p].old = run[p].old /\ run'[p].result = "none"
    BY <1>1, <1>4 DEF RunRecord
  <2>2. Loose(p)'
    BY <1>1, <1>2, <1>4, LooseSame DEF Aware
  <2> QED BY <1>1, <1>2, <2>1, <2>2, PlainCareful DEF Holding, Replacing, Removing
<1>5. CASE /\ run' = [run EXCEPT ![p].pc = "refreshing", ![p].hand = s, ![p].mark = "refresh",
                                ![p].cache = Cached(run[p].mem.account.store, s)]
           /\ Ask(p, Request("refresh", s, run[p].mem.account.origin))
  <2>1. run'[p].pc = "refreshing" /\ run'[p].old = run[p].old /\ run'[p].result = "none"
    BY <1>1, <1>5 DEF RunRecord
  <2>2. wire'[p].answer = "none" /\ wire'[p].op = "refresh"
    BY <1>5, WireType DEF Ask, Request
  <2>3. Loose(p)' /\ LoggedOut(p)' /\ SameOrigin(p)'
    BY <1>1, <1>2, <2>1, <2>2 DEF Loose, LoggedOut, SameOrigin, Renewing
  <2>4. Elsewhere(FileStores)'
    BY <1>1, <1>2 DEF Aware, Guarded, Elsewhere, FileStores
  <2>5. Guarded(p)'
    BY <1>2, <2>1, <2>2, <2>4 DEF Guarded, Answered, Replacing, Between
  <2>6. Aware(p)'
    BY <1>2, <2>3, <2>5 DEF Aware
  <2> QED BY <1>1, <1>2, <2>1, <2>6, QuietCareful
<1> QED BY <1>3, <1>4, <1>5 DEF Reread

LEMMA RefreshedCareful ==
    ASSUME Inv, Reachable, Accounted, NEW p \in Procs, Mind(p), Alone(p), session' = session,
           Refreshed(p)
    PROVE  Careful(p)
<1> USE DEF disk, server, history, Lapsed
<1>1. /\ run[p] \in RunRecord /\ run \in [Procs -> RunRecord] /\ plan' = plan
      /\ run[p].pc = "refreshing" /\ run[p].result = "none" /\ plan[p].kind \in Renewing
      /\ UNCHANGED <<secret, file, wire>> /\ run[p].pc \in Holding /\ Stored(p) /\ Own(p)
      /\ run[p].hand \in Logins /\ Lapsed \subseteq Lapsed'
  BY Here DEF Refreshed, Local, Holding, Reachable
<1>2. /\ run[p].pc \notin Between /\ Unseen(p)' /\ Aware(p) /\ run[p].old = Nothing
      /\ \A login: Keeps(p, login) => Answered(p) /\ login = Renewal(run[p].hand)
      /\ \A st: Renewed(p, st) => Answered(p) /\ st = run[p].mem.account.store
  BY <1>1, UnseenPast DEF Between, Renewing, Accounted, Stored, Replacing, Keeps, Signing, Renewed
<1>3. CASE /\ wire[p].answer = "ok"
           /\ run' = [run EXCEPT ![p].pc = "store", ![p].hand.gen = @ + 1]
  <2>1. /\ run'[p].pc = "store" /\ run'[p].old = run[p].old /\ run'[p].result = "none"
        /\ run'[p].mem = run[p].mem /\ run'[p].hand = Renewal(run[p].hand)
    BY <1>1, <1>3 DEF RunRecord, Renewal
  <2>2. Loose(p)' /\ LoggedOut(p)' /\ SameOrigin(p)'
    BY <1>1, <1>2, <1>3, <2>1 DEF Loose, LoggedOut, SameOrigin, Renewing
  <2>3. Elsewhere(FileStores)'
    BY <1>1, <1>2 DEF Aware, Guarded, Elsewhere, FileStores
  <2>4. Valid(run[p].hand)' \/ run'[p].hand.session \in Lapsed'
    <3>1. Valid(Renewal(run[p].hand)) \/ run[p].hand.session \in Lapsed
      BY <1>1, <1>2, <1>3 DEF Aware, Guarded, Answered
    <3>2. Renewal(run[p].hand).session = run[p].hand.session
      BY <1>1 DEF Renewal, Logins
    <3>3. PICK renewed: renewed = Renewal(run[p].hand)
      OBVIOUS
    <3>4. Valid(renewed) => Valid(renewed)'
      BY DEF Valid, Live
    <3> QED BY <1>1, <2>1, <3>1, <3>2, <3>3, <3>4
  <2>5. Guarded(p)'
    BY <1>2, <2>1, <2>3, <2>4 DEF Guarded, Replacing, Between
  <2>6. Aware(p)'
    BY <1>2, <2>2, <2>5 DEF Aware
  <2>7. \A login: Keeps(p, login) => Keeps(p, login)'
    BY <1>2, <2>1 DEF Keeps
  <2>8. \A st: Renewed(p, st) => Renewed(p, st)'
    BY <1>2, <2>1 DEF Renewed
  <2> QED BY <1>1, <1>2, <2>1, <2>6, <2>7, <2>8, QuietCareful
<1>4. CASE wire[p].answer = "refused" /\ End(p, "expired")
  <2>1. ~Answered(p) /\ Loose(p)'
    BY <1>1, <1>4 DEF Answered, Loose
  <2> QED BY <1>1, <1>2, <1>4, <2>1, EndCareful
<1>5. CASE End(p, "transport") /\ Lapsed' = Lapsed \cup {run[p].hand.session}
  <2>1. Loose(p)'
    BY <1>1, <1>5 DEF Loose, Mind, Sent
  <2>2. Renewal(run[p].hand).session = run[p].hand.session
    BY <1>1 DEF Renewal, Logins
  <2>3. \A st \in Stores: Renewed(p, st) /\ secret[st] \in Logins => secret[st].session \in Lapsed'
    BY <1>1, <1>2, <1>5 DEF Own
  <2> QED BY <1>1, <1>2, <1>5, <2>1, <2>2, <2>3, EndCareful
<1> QED BY <1>3, <1>4, <1>5 DEF Refreshed

LEMMA StoreRefreshedCareful ==
    ASSUME Inv, Reachable, Accounted, NEW p \in Procs, Alone(p), session' = session,
           StoreRefreshed(p)
    PROVE  Careful(p)
<1> USE DEF disk, server, history, Lapsed
<1>0. PICK store, hand: store = run[p].mem.account.store /\ hand = run[p].hand
  OBVIOUS
<1>1. /\ run[p] \in RunRecord /\ run \in [Procs -> RunRecord] /\ plan' = plan
      /\ run[p].pc = "store" /\ run[p].result = "none" /\ plan[p].kind \in Renewing
      /\ UNCHANGED <<file, wire>> /\ Stored(p)
      /\ hand \in Logins /\ Lapsed \subseteq Lapsed' /\ store \in Stores
      /\ secret[store] \in Logins /\ secret[store].session = hand.session
      /\ secret \in [Stores -> Secrets \cup {Nothing}]
  BY <1>0, Here, StoresType DEF StoreRefreshed, Local, Reachable, Own, Accounts
<1>2. /\ Unseen(p)' /\ Aware(p) /\ run[p].old = Nothing /\ run[p].pc \in Holding \ Between
      /\ \A login: Keeps(p, login) => login = hand
      /\ \A st: Renewed(p, st) => st = store
  BY <1>0, <1>1, UnseenPast DEF Between, Holding, Renewing, Accounted, Stored, Replacing, Keeps, Signing, Renewed
<1>3. /\ run'[p].pc \in {"exchange", "over"} /\ run'[p].old = Nothing
      /\ run'[p].result # "logged out"
      /\ \/ secret' = [secret EXCEPT ![store] = hand]
         \/ secret' = secret /\ hand.session \in Lapsed'
      /\ hand.session \in Lapsed' \/ secret'[store] = hand
  <2>1. CASE /\ secret' = [secret EXCEPT ![store] = hand]
             /\ run' = [run EXCEPT ![p].pc = "exchange", ![p].mark = "none",
                                   ![p].cache = Cached(store, hand)]
    BY <1>1, <1>2, <2>1 DEF RunRecord
  <2>2. CASE /\ SecretWrite(store, hand, FALSE) /\ End(p, "write failed")
             /\ Lapsed' = Lapsed \cup {hand.session}
    BY <1>1, <1>2, <2>2 DEF RunRecord, End, SecretWrite
  <2> QED BY <1>0, <2>1, <2>2 DEF StoreRefreshed, SecretWrite
<1>4. /\ secret'[store] \in Logins /\ secret'[store].session = hand.session
      /\ \A st \in Stores: st # store => secret'[st] = secret[st]
      /\ Valid(hand)' \/ hand.session \in Lapsed'
  <2>1. Valid(hand) \/ hand.session \in Lapsed
    BY <1>0, <1>1, <1>2 DEF Aware, Guarded
  <2> QED BY <1>1, <1>3, <2>1 DEF Valid, Live
<1>5. Elsewhere(FileStores)'
  <2>1. Elsewhere(FileStores) /\ FileStores' = FileStores
    BY <1>1, <1>2 DEF Aware, Guarded, FileStores
  <2> QED BY <1>1, <1>4, <2>1 DEF Elsewhere
<1>6. Aware(p)'
  <2>1. Guarded(p)' /\ SameOrigin(p)'
    BY <1>3 DEF Guarded, Holding, Replacing, Removing, SameOrigin
  <2>2. Loose(p)' /\ LoggedOut(p)'
    BY <1>1, <1>2, LooseSame DEF Aware, LoggedOut, Renewing
  <2> QED BY <1>2, <2>1, <2>2 DEF Aware
<1>7. ASSUME NEW o \in Procs, Seen(o)' PROVE Seen(o)
  <2>1. \A q \in Procs: run'[q].old # Nothing => run'[q].old = run[q].old
    BY <1>3 DEF Alone
  <2>2. CASE \E st \in Stores: secret'[st] \in Logins /\ secret'[st].session = o
    BY <1>1, <1>4, <2>2 DEF Seen
  <2>3. CASE \E q \in Procs: run'[q].old # Nothing /\ run'[q].old.login.session = o
    BY <2>1, <2>3 DEF Seen
  <2> QED BY <1>7, <2>2, <2>3 DEF Seen
<1>8. Kinded'
  <2>1. file.account # Nothing => file.account.store \in Stores
    BY StoresType DEF Accounts
  <2> QED BY <1>1, <1>4, <2>1 DEF Kinded, OriginOf, Accounted
<1>9. ASSUME NEW st \in Stores, secret'[st] \in Logins
      PROVE  \/ Valid(secret[st])'
             \/ secret'[st].session \in Lapsed'
             \/ secret'[st] = secret[st] /\ (Renewed(p, st) => Renewed(p, st)')
  <2>1. CASE st = store
    <3>1. CASE hand.session \in Lapsed'
      BY <1>4, <2>1, <3>1
    <3>2. CASE secret'[store] = hand /\ Valid(hand)'
      BY <2>1, <3>2 DEF Valid, Live
    <3> QED BY <1>3, <1>4, <3>1, <3>2
  <2>2. CASE st # store
    BY <1>2, <1>4, <2>2
  <2> QED BY <2>1, <2>2
<1>10. ASSUME NEW login \in Logins, Current(login), Saves(login) \/ Keeps(p, login)
       PROVE  login.session \in Lapsed' \/ Saves(login)'
  <2>1. CASE file.account = Nothing \/ file.account.store # store
    <3>1. Keeps(p, login) => login.session \in Lapsed'
      BY <1>1, <1>2, <2>1 DEF Aware, Guarded, Elsewhere, FileStores
    <3>2. Saves(login) => Saves(login)'
      BY <1>1, <1>4, <2>1, StoresType DEF Saves, Accounts
    <3> QED BY <1>10, <3>1, <3>2
  <2>2. CASE file.account # Nothing /\ file.account.store = store /\ hand.session \notin Lapsed'
    <3>1. Valid(hand) /\ secret'[store] = hand
      BY <1>1, <1>3, <1>4, <2>2 DEF Valid, Live
    <3>2. file.account.kind = "login"
      BY <1>1, <2>2 DEF Accounted, Kinded
    <3>3. Saves(hand)'
      BY <1>1, <2>2, <3>1, <3>2 DEF Saves
    <3>4. Saves(login) => login = hand
      <4> SUFFICES ASSUME Saves(login) PROVE login = hand
        OBVIOUS
      <4>1. login.session = hand.session /\ Live(hand.session)
        BY <1>1, <1>10, <2>2 DEF Saves, Current
      <4>2. login.gen = hand.gen
        BY <1>10, <3>1, <4>1 DEF Current, Valid
      <4> QED BY <1>1, <4>1, <4>2 DEF Logins
    <3> QED BY <1>2, <1>10, <3>3, <3>4
  <2>3. CASE file.account # Nothing /\ file.account.store = store /\ hand.session \in Lapsed'
    BY <1>1, <1>2, <1>10, <2>3 DEF Saves
  <2> QED BY <2>1, <2>2, <2>3
<1> QED BY <1>5, <1>6, <1>7, <1>8, <1>9, <1>10 DEF Careful

LEMMA LoginCareful ==
    ASSUME Inv, Reachable, Accounted, NEW p \in Procs, Mind(p), Alone(p), session' = session,
           CheckName(p) \/ AskGrant(p) \/ Polled(p) \/ Identify(p)
    PROVE  Careful(p)
<1> USE DEF disk, server, history, Lapsed
<1>1. /\ run[p] \in RunRecord /\ run \in [Procs -> RunRecord] /\ plan' = plan
      /\ run[p].pc \in {"name", "ask", "polling", "identify"}
      /\ run[p].result = "none" /\ plan[p].kind = "login"
      /\ UNCHANGED <<secret, file>> /\ Lapsed \subseteq Lapsed'
  BY Here DEF CheckName, AskGrant, Polled, Identify, Local
<1>2. /\ run[p].pc \notin Between /\ (\A st: ~Renewed(p, st)) /\ Aware(p)
      /\ run[p].pc \notin Holding
  BY <1>1 DEF Accounted, Aware, Between, Renewed, Holding, Replacing, Removing
<1>3. ASSUME run'[p].old = run[p].old, run'[p].result = run[p].result,
             run'[p].pc \in {"ask", "polling", "identify", "lock", "disown"},
             Loose(p)', Seen(p)' => Seen(p), Unseen(p)',
             \A login \in Logins: Keeps(p, login) => Keeps(p, login)'
      PROVE  Careful(p)
  BY <1>1, <1>2, <1>3, PlainCareful DEF Holding, Replacing, Removing
<1>4. run'[p].old = run[p].old => (Seen(p)' => Seen(p))
  BY <1>1, SeenSame
<1>5. CASE CheckName(p)
  <2>1. run[p].pc = "name" /\ wire' = wire
    BY <1>5 DEF CheckName
  <2>2. CASE End(p, "in use")
    BY <1>1, <2>1, <2>2, IdleEndCareful DEF Idle
  <2>3. CASE Goto(p, "ask") \/ \E c: run' = [run EXCEPT ![p].pc = "ask", ![p].cache = c]
    <3>2. run'[p].pc = "ask" /\ run'[p].old = run[p].old /\ run'[p].result = run[p].result
      <4>1. CASE Goto(p, "ask")
        BY <1>1, <4>1 DEF Goto, RunRecord
      <4>2. CASE \E c: run' = [run EXCEPT ![p].pc = "ask", ![p].cache = c]
        BY <1>1, <4>2 DEF RunRecord
      <4> QED BY <2>3, <4>1, <4>2
    <3>3. Loose(p)'
      BY <1>1, <1>2, <2>1, LooseSame DEF Aware
    <3>4. Unseen(p)'
      BY <1>1, <1>2, <1>4, <2>1, <3>2 DEF Aware, Unseen, Signing, Replacing
    <3>5. \A login: ~Keeps(p, login)
      BY <2>1, IdleKeeps DEF Idle
    <3> QED BY <1>3, <1>4, <3>2, <3>3, <3>4, <3>5
  <2> QED BY <1>5, <2>2, <2>3 DEF CheckName
<1>6. CASE AskGrant(p)
  <2>1. run[p].pc = "ask"
    BY <1>6 DEF AskGrant
  <2>2. CASE End(p, "denied") /\ UNCHANGED wire
    BY <1>1, <1>6, <2>1, <2>2, IdleEndCareful DEF Idle
  <2>3. CASE /\ run' = [run EXCEPT ![p].pc = "polling", ![p].mark = "login"]
             /\ Ask(p, [op |-> "issue", answer |-> "none"])
    <3>1. run'[p].pc = "polling" /\ run'[p].old = run[p].old /\ run'[p].result = run[p].result
      BY <1>1, <2>3 DEF RunRecord
    <3>2. wire'[p].op = "issue" /\ wire'[p].answer = "none"
      BY <2>3, WireType DEF Ask
    <3>3. Loose(p)'
      BY <3>1, <3>2 DEF Loose
    <3>4. Unseen(p)'
      BY <1>1, <1>2, <1>4, <2>1, <3>1, <3>2 DEF Aware, Unseen, Answered, Signing, Replacing
    <3>5. \A login: ~Keeps(p, login)
      BY <2>1, IdleKeeps DEF Idle
    <3> QED BY <1>3, <1>4, <3>1, <3>3, <3>4, <3>5
  <2> QED BY <1>6, <2>2, <2>3 DEF AskGrant
<1>7. CASE Polled(p)
  <2>1. /\ run[p].pc = "polling" /\ wire[p].op = "issue" 
    BY <1>7, WireType DEF Polled, Mind
  <2>2. CASE /\ wire[p].answer = "ok" /\ UNCHANGED wire
             /\ run' = [run EXCEPT ![p].pc = "identify", ![p].hand = [session |-> p, gen |-> 0]]
    <3>1. /\ run'[p].pc = "identify" /\ run'[p].old = run[p].old /\ run'[p].result = run[p].result
          /\ run'[p].hand = [session |-> p, gen |-> 0]
      BY <1>1, <2>2 DEF RunRecord
    <3>2. Loose(p)'
      BY <2>2 DEF Loose
    <3>3. Unseen(p)'
      BY <1>1, <1>2, <1>4, <2>1, <2>2, <3>1 DEF Aware, Unseen, Answered, Signing, Replacing
    <3>4. \A login \in Logins: Keeps(p, login) => Keeps(p, login)'
      BY <1>1, <2>1, <3>1 DEF Keeps, Signing, Replacing
    <3> QED BY <1>3, <1>4, <3>1, <3>2, <3>3, <3>4
  <2>3. CASE /\ wire[p].answer = "none" /\ Ask(p, Nothing)
             /\ \/ run' = [run EXCEPT ![p].pc = "ask", ![p].mark = "none"]
                \/ End(p, "denied")
    <3>1. wire'[p] = Nothing /\ ~Answered(p)
      BY <2>3, WireType DEF Ask, Answered
    <3>2. Loose(p)' /\ \A login: ~Keeps(p, login)
      BY <2>1, <3>1 DEF Loose, Keeps, Signing, Replacing
    <3>3. CASE run' = [run EXCEPT ![p].pc = "ask", ![p].mark = "none"]
      <4>1. run'[p].pc = "ask" /\ run'[p].old = run[p].old /\ run'[p].result = run[p].result
        BY <1>1, <3>3 DEF RunRecord
      <4>2. Unseen(p)'
        BY <1>1, <1>2, <1>4, <2>1, <3>1, <4>1 DEF Aware, Unseen, Signing, Replacing
      <4> QED BY <1>3, <1>4, <3>2, <4>1, <4>2
    <3>4. CASE End(p, "denied")
      BY <1>1, <1>2, <3>2, <3>4, EndCareful
    <3> QED BY <2>3, <3>3, <3>4
  <2>4. CASE End(p, "transport") /\ Lapsed' = Lapsed \cup {p} /\ UNCHANGED wire
    <3>1. run'[p].pc = "over"
      BY <1>1, <2>4 DEF End, RunRecord
    <3>2. Loose(p)'
      BY <2>1, <2>4, <3>1 DEF Loose
    <3>3. \A login: Keeps(p, login) => login = [session |-> p, gen |-> 0]
      BY <2>1 DEF Keeps, Signing, Replacing
    <3>4. \A login \in Logins: Keeps(p, login) => login.session \in Lapsed'
      BY <2>4, <3>3
    <3> QED BY <1>1, <1>2, <2>4, <3>2, <3>4, EndCareful
  <2> QED BY <1>7, <2>2, <2>3, <2>4 DEF Polled
<1>8. CASE Identify(p)
  <2>1. run[p].pc = "identify" /\ wire' = wire
    BY <1>8 DEF Identify
  <2>2. /\ run'[p].pc \in {"lock", "disown"} /\ run'[p].old = run[p].old
        /\ run'[p].result = run[p].result /\ run'[p].hand = run[p].hand
    <3>1. CASE Goto(p, "disown")
      BY <1>1, <3>1 DEF Goto, RunRecord
    <3>2. CASE \E a: run' = [run EXCEPT ![p].pc = "lock", ![p].entry = a]
      BY <1>1, <3>2 DEF RunRecord
    <3> QED BY <1>8, <3>1, <3>2 DEF Identify
  <2>3. Loose(p)'
    BY <1>1, <1>2, <2>1, LooseSame DEF Aware
  <2>4. Unseen(p)'
    BY <1>1, <1>2, <1>4, <2>1, <2>2 DEF Aware, Unseen, Signing, Replacing
  <2>5. \A login \in Logins: Keeps(p, login) => Keeps(p, login)'
    BY <1>1, <2>1, <2>2 DEF Keeps, Signing, Replacing
  <2> QED BY <1>3, <1>4, <2>2, <2>3, <2>4, <2>5
<1> QED BY <1>5, <1>6, <1>7, <1>8

LEMMA DisownCareful ==
    ASSUME Inv, Reachable, Accounted, NEW p \in Procs, Mind(p), Alone(p), session' = session,
           Disown(p) \/ Revoked(p)
    PROVE  Careful(p)
<1> USE DEF disk, server, history, Lapsed
<1>1. /\ run[p] \in RunRecord /\ run \in [Procs -> RunRecord] /\ plan' = plan
      /\ run[p].pc \in {"disown", "disowning", "revoking"}
      /\ run[p].result = "none"
      /\ UNCHANGED <<secret, file>> /\ Lapsed \subseteq Lapsed'
  BY Here DEF Disown, Revoked, Local
<1>2. /\ run[p].pc \notin Between /\ (\A st: ~Renewed(p, st)) /\ Aware(p)
      /\ run[p].pc \notin Holding
  BY <1>1 DEF Accounted, Aware, Between, Renewed, Holding, Replacing, Removing
<1>3. CASE Disown(p)
  <2>1. /\ run'[p].pc = "disowning" /\ run'[p].old = run[p].old
        /\ run'[p].result = run[p].result /\ run'[p].hand = run[p].hand
    BY <1>1, <1>3 DEF Disown, Goto, RunRecord
  <2>2. wire'[p].op = "revoke" /\ wire'[p].answer = "none" /\ run[p].pc = "disown"
    BY <1>3, WireType DEF Disown, Ask, Request
  <2>3. Loose(p)'
    BY <2>2 DEF Loose
  <2>4. Unseen(p)'
    BY <1>1, <1>2, <2>1, <2>2 DEF Aware, Unseen, Signing, Replacing
  <2>5. \A login \in Logins: Keeps(p, login) => Keeps(p, login)'
    BY <2>1, <2>2 DEF Keeps, Answered, Replacing
  <2> QED BY <1>1, <1>2, <2>1, <2>3, <2>4, <2>5, PlainCareful DEF Holding, Replacing, Removing
<1>4. CASE Revoked(p)
  <2>1. /\ run'[p].pc = "over" /\ run'[p].old = run[p].old /\ run'[p].result # "logged out"
    BY <1>1, <1>4 DEF Revoked, RunRecord
  <2>2. wire'[p] = wire[p] /\ wire[p].op = "revoke" /\ run[p].pc \in {"disowning", "revoking"}
    BY <1>4 DEF Revoked, Mind, Sent
  <2>3. Loose(p)'
    BY <2>2 DEF Loose
  <2>4. Unseen(p)'
    BY <1>1, <2>1, UnseenPast
  <2>5. ASSUME NEW login \in Logins, Keeps(p, login) PROVE login.session \in Lapsed'
    <3>1. CASE run[p].pc = "disowning"
      <4>1. plan[p].kind = "login"
        BY <3>1, Here DEF Local
      <4>2. login = [session |-> p, gen |-> 0] /\ ~Answered(p)
        BY <2>5, <3>1, <4>1 DEF Keeps, Mind, Signing, Replacing
      <4> QED BY <1>4, <3>1, <4>2 DEF Revoked, Answered
    <3>2. CASE run[p].pc = "revoking"
      <4>1. login = run[p].old.login /\ ~Answered(p)
        BY <2>5, <3>2 DEF Keeps, Signing, Replacing
      <4> QED BY <1>4, <3>2, <4>1 DEF Revoked, Answered
    <3> QED BY <2>2, <3>1, <3>2
  <2> QED BY <1>1, <1>2, <2>1, <2>3, <2>4, <2>5, PlainCareful DEF Holding, Replacing, Removing
<1> QED BY <1>3, <1>4

\* What a command that replaces the account knows of what it replaces.
Replacement(p) ==
    /\ plan[p].kind \in {"login", "import"}
    /\ run[p].entry \in Accounts /\ run[p].entry.store \in Stores
    /\ plan[p].kind = "login" =>
         /\ run[p].hand = [session |-> p, gen |-> 0] /\ run[p].hand \in Logins
         /\ NewSecret(p) = run[p].hand /\ OriginOf(p) = plan[p].origin
         /\ run[p].entry.kind = "login" /\ run[p].entry.origin = plan[p].origin
    /\ plan[p].kind = "import" =>
         run[p].hand = Nothing /\ NewSecret(p) \notin Logins /\ run[p].entry.kind = "key"
    /\ run[p].old # Nothing =>
         /\ plan[p].kind = "login"
         /\ run[p].old.account \in Accounts /\ run[p].old.account.store \in Stores
         /\ run[p].old.account.kind = "login" /\ run[p].old.account.origin = plan[p].origin
         /\ run[p].old.login \in Logins
    /\ Nothing \notin Logins /\ Nothing \notin Accounts
    /\ run[p].pc \notin {"refreshing", "polling", "over", "dead"}
    /\ \A st: ~Renewed(p, st)
    /\ \A login: Keeps(p, login) =>
         \/ plan[p].kind = "login" /\ login = run[p].hand
         \/ run[p].old # Nothing /\ login = run[p].old.login

LEMMA ReplacingFacts ==
    ASSUME Inv, Reachable, NEW p \in Procs, Mind(p), run[p].pc \in Replacing
    PROVE  Replacement(p)
<1>1. run[p] \in RunRecord /\ plan[p].kind \in {"login", "import"} /\ run[p].entry \in Accounts
  BY Here DEF Local
<1>2. Nothing \notin Logins /\ Nothing \notin Accounts /\ ApiKey \notin Logins
  BY SecretsAreNotNothing, NothingIsApart DEF Secrets
<1>3. plan[p].kind = "login" =>
        /\ run[p].hand = [session |-> p, gen |-> 0] /\ run[p].hand \in Logins
        /\ run[p].entry.kind = "login" /\ run[p].entry.origin = plan[p].origin
  BY Here DEF Local, Mind, Signing, Replacing
<1>4. plan[p].kind = "import" => run[p].hand = Nothing /\ run[p].entry.kind = "key"
  BY DEF Mind
<1>5. run[p].old # Nothing =>
        /\ run[p].old.account \in Accounts /\ run[p].old.login \in Logins
        /\ plan[p].kind = "login" /\ LoginAt(run[p].old.account, plan[p].origin)
  BY <1>1 DEF Mind, RunRecord
<1>6. OriginOf(p) = plan[p].origin
  BY FirstIsNoProcess DEF OriginOf
<1>7. \A a \in Accounts: a.store \in Stores
  BY DEF Accounts
<1>8. /\ plan[p].kind = "import" => NewSecret(p) \notin Logins
      /\ plan[p].kind = "login" => NewSecret(p) = run[p].hand
  BY <1>2 DEF NewSecret
<1>9. run[p].pc \notin {"refreshing", "polling", "over", "dead"} /\ \A st: ~Renewed(p, st)
  BY DEF Replacing, Renewed
<1>10. \A login: Keeps(p, login) =>
                \/ plan[p].kind = "login" /\ login = run[p].hand
                \/ run[p].old # Nothing /\ login = run[p].old.login
  BY <1>9 DEF Keeps, Replacing
<1> QED BY <1>1, <1>2, <1>3, <1>4, <1>5, <1>6, <1>7, <1>8, <1>9, <1>10 DEF LoginAt, Replacement

\* A step from one of its locations to another.
LEMMA ReplacingAware ==
    ASSUME Inv, Reachable, NEW p \in Procs, Mind(p), Aware(p), run[p].pc \in Replacing,
           run'[p].pc \in Replacing \ {"write"}, run'[p].hand = run[p].hand,
           run'[p].old = run[p].old, wire'[p] = wire[p], plan' = plan, session' = session,
           Lapsed \subseteq Lapsed', Guarded(p)'
    PROVE  /\ Aware(p)'
           /\ \A login: Keeps(p, login) => Keeps(p, login)'
           /\ Holding \cap {run'[p].pc} # {}
<1>1. Loose(p)'
  BY ReplacingFacts, LooseSame DEF Aware, Replacement
<1>2. Unseen(p)'
  BY DEF Aware, Unseen, Signing, Replacing
<1>3. SameOrigin(p)'
  BY DEF Aware, SameOrigin, OriginOf
<1>4. LoggedOut(p)'
  BY ReplacingFacts DEF LoggedOut, Replacement
<1>5. \A login: Keeps(p, login) => Keeps(p, login)'
  BY ReplacingFacts DEF Replacement, Keeps, Signing, Replacing
<1> QED BY <1>1, <1>2, <1>3, <1>4, <1>5 DEF Aware, Holding

LEMMA TakeCareful ==
    ASSUME Inv, Reachable, Accounted, NEW p \in Procs, Mind(p), Alone(p), session' = session,
           Take(p)
    PROVE  Careful(p)
<1> USE DEF disk, server, history, Lapsed
<1>1. /\ run[p] \in RunRecord /\ run \in [Procs -> RunRecord] /\ plan' = plan
      /\ run[p].pc = "take" /\ run[p].result = "none" /\ plan[p].kind \in {"login", "import"}
      /\ UNCHANGED <<secret, file, wire, Lapsed>> /\ lock = p /\ Stored(p)
  BY Here DEF Take, Local, Holding, Reachable, Own
<1>2. /\ run[p].pc \notin Between /\ (\A st: ~Renewed(p, st)) /\ Aware(p)
      /\ run[p].pc \in Holding /\ Loose(p)' /\ run[p].old = Nothing
  BY <1>1, LooseSame DEF Accounted, Aware, Between, Renewed, Holding, Stored, Replacing
<1>3. CASE End(p, "in use") /\ plan[p].kind = "import"
  BY <1>1, <1>3, IdleEndCareful
<1>4. CASE plan[p].kind = "login" /\ run' = [run EXCEPT ![p].pc = "disown", ![p].mem = file]
  <2>1. /\ run'[p].pc = "disown" /\ run'[p].old = run[p].old /\ run'[p].result = "none"
        /\ run'[p].hand = run[p].hand
    BY <1>1, <1>4 DEF RunRecord
  <2>2. Unseen(p)'
    BY <1>1, <1>2, <2>1 DEF Aware, Unseen, Signing, Replacing
  <2>3. \A login \in Logins: Keeps(p, login) => Keeps(p, login)'
    BY <1>1, <1>4, <2>1 DEF Keeps, Signing, Replacing
  <2> QED BY <1>1, <1>2, <2>1, <2>2, <2>3, PlainCareful DEF Holding, Replacing, Removing
<1>5. ASSUME run'[p].pc = "write", run'[p].hand = run[p].hand, Guarded(p)', SameOrigin(p)',
             \A o \in Procs: Seen(o)' => Seen(o)
      PROVE  Careful(p)
  <2>1. Unseen(p)'
    BY <1>1, <1>2, <1>5 DEF Aware, Unseen, Signing, Replacing
  <2>2. LoggedOut(p)'
    BY <1>1 DEF LoggedOut
  <2>3. \A login \in Logins: Keeps(p, login) => Keeps(p, login)'
    BY <1>1, <1>5 DEF Keeps, Signing, Replacing
  <2>4. Aware(p)'
    BY <1>2, <1>5, <2>1, <2>2 DEF Aware
  <2> QED BY <1>1, <1>2, <1>5, <2>3, <2>4, QuietCareful
<1>6. Elsewhere(FileStores)'
  BY <1>1, <1>2 DEF Aware, Guarded, Elsewhere, FileStores
<1>7. CASE run' = [run EXCEPT ![p].pc = "write", ![p].mem = file, ![p].entry = Entry(p)]
  <2>1. /\ run'[p].pc = "write" /\ run'[p].old = run[p].old /\ run'[p].hand = run[p].hand
    BY <1>1, <1>7 DEF RunRecord
  <2>2. Guarded(p)' /\ SameOrigin(p)'
    BY <1>2, <1>6, <2>1 DEF Guarded, Between, SameOrigin
  <2> QED BY <1>1, <1>5, <2>1, <2>2, SeenSame
<1>8. ASSUME LoginAt(file.account, plan[p].origin), secret[file.account.store] \in Logins,
             run' = [run EXCEPT ![p].pc = "write", ![p].mem = file,
                                ![p].cache = Cached(file.account.store, secret[file.account.store]),
                                ![p].old = [account |-> file.account,
                                            login |-> secret[file.account.store]]]
      PROVE  Careful(p)
  <2>1. PICK account, login: account = file.account /\ login = secret[file.account.store]
    OBVIOUS
  <2>2. /\ run'[p].pc = "write" /\ run'[p].hand = run[p].hand
        /\ run'[p].old.account = account /\ run'[p].old.login = login
    BY <1>1, <1>8, <2>1 DEF RunRecord
  <2>3. /\ account \in Accounts /\ account.store \in Stores /\ login \in Logins
        /\ account.origin = plan[p].origin /\ secret[account.store] = login
    BY <1>8, <2>1, StoresType DEF LoginAt, Accounts
  <2>4. Valid(login) \/ login.session \in Lapsed
    <3>1. \A q \in Procs: ~Renewed(q, account.store)
      BY <1>1, <1>2 DEF Renewed, Inv, Own, Holding
    <3> QED BY <2>3, <3>1 DEF Accounted, CurrentSecret
  <2>5. Valid(login)' \/ login.session \in Lapsed'
    BY <1>1, <2>4 DEF Valid, Live
  <2>6. Guarded(p)'
    BY <1>1, <1>6, <2>2, <2>3, <2>5 DEF Guarded, Between
  <2>7. OriginOf(login.session)' = plan[p].origin \/ login.session \in Lapsed'
    BY <1>1, <1>8, <2>1, <2>3, StoresType, NothingIsApart DEF Accounted, Kinded, OriginOf
  <2>8. SameOrigin(p)'
    BY <1>1, <2>2, <2>7 DEF SameOrigin
  <2>9. ASSUME NEW o \in Procs, Seen(o)' PROVE Seen(o)
    <3>1. CASE \E st \in Stores: secret'[st] \in Logins /\ secret'[st].session = o
      BY <1>1, <3>1 DEF Seen
    <3>2. ASSUME NEW q \in Procs, run'[q].old # Nothing, run'[q].old.login.session = o PROVE Seen(o)
      <4>1. CASE q = p
        BY <2>2, <2>3, <3>2, <4>1 DEF Seen
      <4>2. CASE q # p
        <5>1. run'[q] = run[q]
          BY <4>2 DEF Alone
        <5> QED BY <3>2, <5>1 DEF Seen
      <4> QED BY <4>1, <4>2
    <3> QED BY <2>9, <3>1, <3>2 DEF Seen
  <2> QED BY <1>5, <2>2, <2>6, <2>8, <2>9
<1> QED BY <1>3, <1>4, <1>7, <1>8 DEF Take

LEMMA WriteSecretCareful ==
    ASSUME Inv, Reachable, Accounted, NEW p \in Procs, Mind(p), Alone(p), session' = session,
           WriteSecret(p)
    PROVE  Careful(p)
<1> USE DEF disk, server, history, Lapsed
<1>1. /\ run[p] \in RunRecord /\ run \in [Procs -> RunRecord] /\ plan' = plan
      /\ run[p].pc = "write" /\ run[p].pc \in Replacing /\ run[p].pc \in Holding \ Between
      /\ UNCHANGED <<file, wire, Lapsed>> /\ Stored(p) /\ Aware(p)
      /\ secret \in [Stores -> Secrets \cup {Nothing}]
  BY Here, StoresType DEF WriteSecret, Holding, Replacing, Between, Reachable, Accounted
<1>0. Replacement(p)
  BY <1>1, ReplacingFacts
<1>2. PICK store, hand, old:
        /\ store = run[p].entry.store /\ hand = run[p].hand /\ old = run[p].old
        /\ store \in Stores
  BY <1>1, <1>0 DEF Replacement
<1>3. /\ run'[p].pc \in {"save", "undo"} /\ run'[p].old = run[p].old /\ run'[p].hand = run[p].hand
      /\ run'[p].entry = run[p].entry
      /\ \/ secret' = [secret EXCEPT ![store] = NewSecret(p)]
         \/ secret' = secret /\ run'[p].pc = "undo"
  <2>1. CASE /\ SecretWrite(store, NewSecret(p), TRUE)
             /\ run' = [run EXCEPT ![p].pc = "save", ![p].cache = Cached(store, NewSecret(p))]
    BY <1>1, <2>1 DEF RunRecord, SecretWrite
  <2>2. CASE /\ SecretWrite(store, NewSecret(p), FALSE)
             /\ run' = [run EXCEPT ![p].pc = "undo", ![p].cache = Nothing]
    BY <1>1, <2>2 DEF RunRecord, SecretWrite
  <2> QED BY <1>2, <2>1, <2>2 DEF WriteSecret
<1>4. /\ \A st \in Stores: st # store => secret'[st] = secret[st]
      /\ secret'[store] = NewSecret(p) \/ secret' = secret
      /\ run'[p].pc = "save" => secret'[store] = NewSecret(p)
  BY <1>1, <1>2, <1>3
<1>5. /\ Touched(p) = {store} \cup FormerStores(p) /\ Touched(p)' = Touched(p)
      /\ NewSecret(p)' = NewSecret(p) /\ Moves(p)' = Moves(p)
      /\ FileStores' = FileStores /\ FileStores = FormerStores(p)
      /\ Elsewhere(FileStores)
      /\ old # Nothing => secret[old.account.store] = old.login
  BY <1>0, <1>1, <1>2, <1>3 DEF Replacement, Touched, FormerStores, NewSecret, Moves, FileStores, Stored, Former,
                          Aware, Guarded
<1>6. Elsewhere(Touched(p))'
  BY <1>1, <1>4, <1>5 DEF Elsewhere
<1>7. Mine(p)'
  <2> SUFFICES ASSUME NEW st \in Touched(p)', secret'[st] \in Logins
               PROVE  \/ secret'[st] = hand
                      \/ old # Nothing /\ secret'[st] = old.login
                      \/ secret'[st].session \in Lapsed'
    BY <1>2, <1>3 DEF Mine
  <2>1. st \in {store} \cup FormerStores(p) /\ st \in Stores
    BY <1>1, <1>2, <1>5, <1>0 DEF Replacement, FormerStores
  <2>2. CASE secret'[st] = secret[st]
    BY <1>1, <1>2, <1>5, <2>1, <2>2 DEF Elsewhere, FormerStores
  <2>3. CASE secret'[st] = NewSecret(p)
    BY <1>1, <1>2, <2>3, <1>0 DEF Replacement
  <2> QED BY <1>4, <2>1, <2>2, <2>3
<1>8. Guarded(p)'
  <2>1. old # Nothing => Valid(old.login)' \/ old.login.session \in Lapsed'
    BY <1>1, <1>2 DEF Aware, Guarded, Valid, Live
  <2>2. Moves(p) => secret'[old.account.store] = old.login
    BY <1>1, <1>2, <1>4, <1>5, <1>0 DEF Replacement, Moves
  <2> QED BY <1>2, <1>3, <1>4, <1>5, <1>6, <1>7, <2>1, <2>2 DEF Guarded, Between, Replacing
<1>9. /\ Aware(p)' /\ run'[p].pc \in Holding
      /\ \A login: Keeps(p, login) => Keeps(p, login)'
  <2>1. run'[p].pc \in Replacing \ {"write"}
    BY <1>3 DEF Replacing
  <2> QED BY <1>1, <1>3, <1>8, <2>1, ReplacingAware
<1>10. ASSUME NEW o \in Procs, o # p, Seen(o)' PROVE Seen(o)
  <2>1. CASE \E q \in Procs: run'[q].old # Nothing /\ run'[q].old.login.session = o
    BY <1>3, <2>1 DEF Alone, Seen
  <2>2. ASSUME NEW st \in Stores, secret'[st] \in Logins, secret'[st].session = o PROVE Seen(o)
    BY <1>1, <1>4, <1>10, <2>2, <1>0 DEF Replacement, Seen
  <2> QED BY <1>10, <2>1, <2>2 DEF Seen
<1>11. Kinded'
  <2> SUFFICES ASSUME file.account # Nothing, secret'[file.account.store] \in Logins
               PROVE  LET s == secret'[file.account.store].session IN
                      \/ s \in Lapsed
                      \/ file.account.kind = "login" /\ OriginOf(s) = file.account.origin
    BY <1>1 DEF Kinded, OriginOf
  <2>1. old # Nothing /\ file.account = old.account
    BY <1>1, <1>2 DEF Stored, Former
  <2>2. CASE secret'[file.account.store] = secret[file.account.store]
    BY <1>1, <2>2 DEF Accounted, Kinded
  <2>3. CASE secret'[file.account.store] = NewSecret(p)
    BY <1>1, <1>2, <2>1, <2>3, <1>0 DEF Replacement
  <2> QED BY <1>1, <1>2, <1>4, <2>1, <2>2, <2>3, <1>0 DEF Replacement
<1>12. Valid(hand)' \/ hand.session \in Lapsed' \/ hand \notin Logins
  <2>1. CASE plan[p].kind = "login"
    <3>1. hand = [session |-> p, gen |-> 0] /\ (session[p].state # "none" \/ p \in Lapsed)
          /\ (session[p].gen = 0 \/ p \in Lapsed)
      BY <1>1, <1>2, <2>1, <1>0 DEF Replacement, Aware, Unseen, Signing, Replacing
    <3> QED BY <1>1, <3>1 DEF Valid, Live
  <2>2. CASE plan[p].kind = "import"
    BY <1>1, <1>2, <2>2, <1>0 DEF Replacement
  <2> QED BY <1>1, <2>1, <2>2, <1>0 DEF Replacement
<1>13. ASSUME NEW st \in Stores, secret'[st] \in Logins
       PROVE  \/ Valid(secret[st])'
              \/ secret'[st].session \in Lapsed'
              \/ secret'[st] = secret[st] /\ (Renewed(p, st) => Renewed(p, st)')
  <2>1. CASE secret'[st] = secret[st]
    BY <1>1, <2>1, <1>0 DEF Replacement
  <2>2. CASE secret'[st] = NewSecret(p)
    <3>1. secret'[st] = hand
      BY <1>1, <1>2, <1>13, <2>2, <1>0 DEF Replacement
    <3> QED BY <1>12, <1>13, <3>1 DEF Valid, Live
  <2> QED BY <1>4, <2>1, <2>2
<1>14. ASSUME NEW login \in Logins, Saves(login) PROVE Keeps(p, login)'
  <2>1. old # Nothing /\ login = old.login
    BY <1>1, <1>2, <1>5, <1>14 DEF Saves, Stored, Former
  <2> QED BY <1>2, <1>3, <2>1 DEF Keeps, Replacing
<1> QED BY <1>9, <1>10, <1>11, <1>13, <1>14 DEF Careful

LEMMA SaveAccountCareful ==
    ASSUME Inv, Reachable, Accounted, NEW p \in Procs, Mind(p), Alone(p), session' = session,
           SaveAccount(p)
    PROVE  Careful(p)
<1> USE DEF disk, server, history, Lapsed
<1> DEFINE c == [run[p].mem EXCEPT !.account = run[p].entry]
<1>1. /\ run[p] \in RunRecord /\ run \in [Procs -> RunRecord] /\ plan' = plan
      /\ run[p].pc = "save" /\ run[p].pc \in Replacing /\ run[p].pc \in Holding
      /\ UNCHANGED <<secret, wire, Lapsed>> /\ Stored(p) /\ Aware(p)
  BY Here DEF SaveAccount, Holding, Replacing, Reachable, Accounted
<1>0. Replacement(p)
  BY <1>1, ReplacingFacts
<1>2. c.account = run[p].entry
  BY <1>1 DEF RunRecord, Configs
<1>3. PICK l \in {"discard", "saved", "undo"}:
        /\ run' = [run EXCEPT ![p].pc = l, ![p].mem = c]
        /\ file' = c \/ (file' = file /\ l = "undo")
        /\ l = "saved" => ~Moves(p)
  BY DEF SaveAccount, ConfigWrite
<1>4. /\ run'[p].pc = l /\ run'[p].old = run[p].old /\ run'[p].entry = run[p].entry
      /\ run'[p].hand = run[p].hand
  BY <1>1, <1>3 DEF RunRecord
<1>5. /\ file'.account = run[p].entry \/ (file' = file /\ l = "undo")
      /\ Touched(p)' = Touched(p) /\ NewSecret(p)' = NewSecret(p) /\ Moves(p)' = Moves(p)
  BY <1>1, <1>2, <1>3, <1>4 DEF Touched, FormerStores, NewSecret, Moves
<1>6. /\ Elsewhere(Touched(p)) /\ Mine(p) /\ secret[run[p].entry.store] = NewSecret(p)
      /\ run[p].old # Nothing /\ Moves(p) => secret[run[p].old.account.store] = run[p].old.login
      /\ run[p].old # Nothing => Valid(run[p].old.login) \/ run[p].old.login.session \in Lapsed
  BY <1>1 DEF Aware, Guarded
<1>7. Elsewhere(Touched(p))' /\ Mine(p)'
  BY <1>1, <1>4, <1>5, <1>6 DEF Elsewhere, Mine
<1>8. l = "saved" => Elsewhere(FileStores)'
  <2>1. l = "saved" => FileStores' = Touched(p)
    BY <1>1, <1>3, <1>5, <1>0 DEF Replacement, FileStores, Touched, FormerStores, Moves
  <2> QED BY <1>5, <1>7, <2>1
<1> HIDE DEF c
<1>9. Guarded(p)'
  <2>1. run[p].old # Nothing => Valid(run[p].old.login)' \/ run'[p].old.login.session \in Lapsed'
    BY <1>1, <1>4, <1>6 DEF Valid, Live
  <2> QED BY <1>1, <1>4, <1>5, <1>6, <1>7, <1>8, <2>1 DEF Guarded, Between, Replacing
<1>10. /\ Aware(p)' /\ run'[p].pc \in Holding
       /\ \A login: Keeps(p, login) => Keeps(p, login)'
  <2>1. run'[p].pc \in Replacing \ {"write"}
    BY <1>4 DEF Replacing
  <2> QED BY <1>1, <1>4, <1>9, <2>1, ReplacingAware
<1>11. \A o \in Procs: Seen(o)' => Seen(o)
  BY <1>1, <1>4, SeenSame
<1>12. Kinded'
  <2>1. CASE file' = file
    BY <1>1, <2>1 DEF Accounted, Kinded, OriginOf
  <2>2. CASE file'.account = run[p].entry
    <3>1. secret'[file'.account.store] = NewSecret(p)
      BY <1>1, <1>6, <2>2
    <3>2. PICK s: s = secret'[file'.account.store].session
      OBVIOUS
    <3>3. secret'[file'.account.store] \in Logins =>
             file'.account.kind = "login" /\ OriginOf(s) = file'.account.origin
      BY <1>1, <2>2, <3>1, <3>2, <1>0 DEF Replacement
    <3> QED BY <1>1, <3>2, <3>3 DEF Kinded, OriginOf
  <2> QED BY <1>5, <2>1, <2>2
<1>13. ASSUME NEW login \in Logins, Saves(login) PROVE Keeps(p, login)
  <2>1. run[p].old # Nothing /\ secret[run[p].old.account.store] = login
    BY <1>1, <1>13 DEF Saves, Stored, Former
  <2>2. login = run[p].old.login \/ login = run[p].hand
    BY <1>1, <1>6, <2>1, <1>0 DEF Replacement, Moves
  <2> QED BY <1>1, <2>1, <2>2, <1>0 DEF Replacement, Keeps, Replacing, Signing
<1>14. \A st: ~Renewed(p, st)
  BY <1>1, <1>0 DEF Replacement
<1> QED BY <1>1, <1>10, <1>11, <1>12, <1>13, <1>14 DEF Careful

LEMMA DiscardCareful ==
    ASSUME Inv, Reachable, Accounted, NEW p \in Procs, Mind(p), Alone(p), session' = session,
           Discard(p)
    PROVE  Careful(p)
<1> USE DEF disk, server, history, Lapsed
<1>1. /\ run[p] \in RunRecord /\ run \in [Procs -> RunRecord] /\ plan' = plan
      /\ run[p].pc = "discard" /\ run[p].pc \in Replacing /\ run[p].pc \in Holding
      /\ UNCHANGED <<file, wire>> /\ Stored(p) /\ Aware(p) /\ Moves(p) /\ Lapsed \subseteq Lapsed'
      /\ secret \in [Stores -> Secrets \cup {Nothing}]
      /\ DiscardSecret(run[p].old.account.store, {run[p].old.login.session})
  BY Here, StoresType DEF Discard, Holding, Replacing, Reachable, Accounted, Mind, DiscardSecret
<1>0. Replacement(p)
  BY <1>1, ReplacingFacts
<1>2. /\ run'[p].pc = "saved" /\ run'[p].old = run[p].old /\ run'[p].entry = run[p].entry
      /\ run'[p].hand = run[p].hand
  BY <1>1 DEF Discard, Goto, RunRecord
<1>3. PICK store, old: /\ old = run[p].old /\ store = old.account.store /\ store \in Stores
                       /\ store # run[p].entry.store /\ old # Nothing
  BY <1>1, <1>0 DEF Replacement, Moves
<1>4. /\ \A st \in Stores: st # store => secret'[st] = secret[st]
      /\ secret'[store] = Nothing \/ (secret' = secret /\ old.login.session \in Lapsed')
      /\ Nothing \notin Logins /\ secret[store] = old.login
  BY <1>1, <1>3, <1>0 DEF Replacement, DiscardSecret, Aware, Guarded
<1>5. Elsewhere(FileStores)'
  <2>1. FileStores' = {run[p].entry.store} /\ Touched(p) = {run[p].entry.store, store}
    BY <1>1, <1>3, <1>0 DEF Replacement, Stored, FileStores, Touched, FormerStores
  <2>2. Elsewhere(Touched(p))
    BY <1>1 DEF Aware, Guarded
  <2> QED BY <1>1, <1>4, <2>1, <2>2 DEF Elsewhere
<1>6. Guarded(p)'
  <2>1. Valid(old.login)' \/ old.login.session \in Lapsed'
    BY <1>1, <1>3 DEF Aware, Guarded, Valid, Live
  <2>2. secret'[run[p].entry.store] = NewSecret(p) /\ NewSecret(p)' = NewSecret(p)
    BY <1>1, <1>2, <1>3, <1>4, <1>0 DEF Replacement, Aware, Guarded, NewSecret
  <2> QED BY <1>2, <1>3, <1>5, <2>1, <2>2 DEF Guarded, Between, Replacing
<1>7. /\ Aware(p)' /\ run'[p].pc \in Holding
      /\ \A login: Keeps(p, login) => Keeps(p, login)'
  <2>1. run'[p].pc \in Replacing \ {"write"}
    BY <1>2 DEF Replacing
  <2> QED BY <1>1, <1>2, <1>6, <2>1, ReplacingAware
<1>8. ASSUME NEW o \in Procs, Seen(o)' PROVE Seen(o)
  BY <1>2, <1>4, <1>8 DEF Seen, Alone
<1>9. file'.account = run[p].entry /\ file.account = run[p].entry /\ run[p].entry.store \in Stores
  BY <1>1, <1>0 DEF Replacement, Stored
<1>10. secret'[file.account.store] = secret[file.account.store]
  BY <1>3, <1>4, <1>9
<1>11. Kinded' /\ \A login: Saves(login) => Saves(login)'
  BY <1>1, <1>10 DEF Accounted, Kinded, OriginOf, Saves
<1>12. \A st: ~Renewed(p, st)
  BY <1>1, <1>0 DEF Replacement
<1> QED BY <1>4, <1>7, <1>8, <1>11, <1>12 DEF Careful

LEMMA SavedCareful ==
    ASSUME Inv, Reachable, Accounted, NEW p \in Procs, Mind(p), Alone(p), session' = session,
           Saved(p)
    PROVE  Careful(p)
<1> USE DEF disk, server, history, Lapsed
<1>1. /\ run[p] \in RunRecord /\ run \in [Procs -> RunRecord] /\ plan' = plan
      /\ run[p].pc = "saved" /\ run[p].pc \in Replacing /\ run[p].pc \in Holding \ Between
      /\ UNCHANGED <<secret, file, Lapsed>> /\ Stored(p) /\ Aware(p) /\ run[p].result = "none"
  BY Here DEF Saved, Holding, Replacing, Between, Reachable, Accounted, Local
<1>0. Replacement(p)
  BY <1>1, ReplacingFacts
<1>2. ASSUME NEW login \in Logins, plan[p].kind = "login", login = run[p].hand PROVE Saves(login)
  BY <1>1, <1>2, <1>0 DEF Replacement, Saves, Stored, Aware, Guarded
<1>3. ASSUME run'[p].pc \in {"over", "revoking"}, run'[p].old = run[p].old, run'[p].result # "logged out",
             Loose(p)', run[p].old # Nothing => Keeps(p, run[p].old.login)'
      PROVE  Careful(p)
  <2>1. Unseen(p)'
    BY <1>1, <1>3, UnseenPast
  <2>2. \A st: ~Renewed(p, st)
    BY <1>1, <1>0 DEF Replacement
  <2>3. \A login \in Logins: Keeps(p, login) =>
          login.session \in Lapsed' \/ Saves(login) \/ Keeps(p, login)'
    BY <1>1, <1>2, <1>3, <1>0 DEF Replacement
  <2> QED BY <1>1, <1>3, <2>1, <2>2, <2>3, PlainCareful DEF Holding, Replacing, Removing
<1>4. CASE /\ run[p].old = Nothing /\ UNCHANGED wire
           /\ run' = [run EXCEPT ![p].pc = "over", ![p].result = "saved", ![p].mark = "none"]
  <2>1. run'[p].pc = "over" /\ run'[p].old = run[p].old /\ run'[p].result = "saved"
    BY <1>1, <1>4 DEF RunRecord
  <2>2. Loose(p)'
    BY <1>1, <1>4, LooseSame DEF Aware
  <2> QED BY <1>3, <1>4, <2>1, <2>2
<1>5. CASE /\ run[p].old # Nothing
           /\ run' = [run EXCEPT ![p].pc = "revoking", ![p].mark = "revoke"]
           /\ Ask(p, Request("revoke", run[p].old.login, plan[p].origin))
  <2>1. run'[p].pc = "revoking" /\ run'[p].old = run[p].old /\ run'[p].result = "none"
    BY <1>1, <1>5 DEF RunRecord
  <2>2. wire'[p].op = "revoke" /\ wire'[p].answer = "none"
    BY <1>5, WireType DEF Ask, Request
  <2>3. Loose(p)'
    BY <2>2 DEF Loose
  <2>4. Keeps(p, run[p].old.login)'
    BY <2>1, <2>2 DEF Keeps, Answered
  <2> QED BY <1>3, <2>1, <2>3, <2>4
<1> QED BY <1>4, <1>5 DEF Saved

LEMMA UndoCareful ==
    ASSUME Inv, Reachable, Accounted, NEW p \in Procs, Mind(p), Alone(p), session' = session,
           Undo(p)
    PROVE  Careful(p)
<1> USE DEF disk, server, history, Lapsed
<1>1. /\ run[p] \in RunRecord /\ run \in [Procs -> RunRecord] /\ plan' = plan
      /\ run[p].pc = "undo" /\ run[p].pc \in Replacing /\ run[p].pc \in Holding
      /\ UNCHANGED <<file, wire>> /\ Stored(p) /\ Aware(p) /\ Lapsed \subseteq Lapsed'
      /\ secret \in [Stores -> Secrets \cup {Nothing}]
      /\ Elsewhere(Touched(p)) /\ Mine(p)
  BY Here, StoresType
  DEF Undo, Holding, Replacing, Reachable, Accounted, Mind, DiscardSecret, Aware, Guarded
<1>0. Replacement(p)
  BY <1>1, ReplacingFacts
<1>2. /\ run'[p].pc = "putback" /\ run'[p].old = run[p].old /\ run'[p].entry = run[p].entry
      /\ run'[p].hand = run[p].hand
  BY <1>1 DEF Undo, Goto, RunRecord
<1>3. PICK store, old, hand: /\ old = run[p].old /\ store = run[p].entry.store /\ hand = run[p].hand
                             /\ store \in Stores
  BY <1>0 DEF Replacement
<1>4. /\ \A st \in Stores: st # store => secret'[st] = secret[st]
      /\ secret'[store] = Nothing \/ secret' = secret
      /\ secret'[store] # secret[store] => old = Nothing \/ Moves(p)
      /\ old = Nothing \/ Moves(p) => secret'[store] = Nothing \/ (secret' = secret /\ InHand(p) \subseteq Lapsed')
  BY <1>1, <1>3 DEF Undo, DiscardSecret
<1>5. /\ hand \in Logins => hand.session \in InHand(p)
      /\ old # Nothing => old.login.session \in InHand(p)
  BY <1>3 DEF InHand
<1>6. /\ Touched(p) = {store} \cup FormerStores(p) /\ Touched(p)' = Touched(p)
      /\ FormerStores(p)' = FormerStores(p) /\ Moves(p)' = Moves(p)
      /\ FormerStores(p) = (IF old = Nothing THEN {} ELSE {old.account.store})
      /\ Moves(p) <=> old # Nothing /\ old.account.store # store
      /\ old # Nothing => old.account.store \in Stores /\ old.login \in Logins
      /\ Nothing \notin Logins
  BY <1>0, <1>2, <1>3 DEF Replacement, Touched, FormerStores, Moves
<1>7. Elsewhere(FormerStores(p))'
  <2> SUFFICES ASSUME NEW st \in Stores, st \notin FormerStores(p), secret'[st] \in Logins
               PROVE  secret'[st].session \in Lapsed'
    BY <1>6 DEF Elsewhere
  <2>1. secret'[st] = secret[st]
    BY <1>4, <1>6
  <2>2. CASE st # store
    BY <1>1, <1>6, <2>1, <2>2 DEF Elsewhere
  <2>3. CASE st = store
    <3>1. InHand(p) \subseteq Lapsed'
      BY <1>4, <1>6, <2>3
    <3>2. \/ secret[st] = hand
          \/ old # Nothing /\ secret[st] = old.login
          \/ secret[st].session \in Lapsed
      BY <1>1, <1>3, <1>6, <2>1, <2>3 DEF Mine
    <3> QED BY <1>1, <1>5, <2>1, <3>1, <3>2
  <2> QED BY <2>2, <2>3
<1>8. Mine(p)'
  BY <1>1, <1>2, <1>4, <1>6 DEF Mine
<1>9. Guarded(p)'
  <2>1. old # Nothing => Valid(old.login)' \/ old.login.session \in Lapsed'
    BY <1>1, <1>3 DEF Aware, Guarded, Valid, Live
  <2>2. Moves(p) => secret'[old.account.store] = old.login
    BY <1>1, <1>3, <1>4, <1>6 DEF Aware, Guarded
  <2> QED BY <1>2, <1>3, <1>6, <1>7, <1>8, <2>1, <2>2 DEF Guarded, Between, Replacing
<1>10. /\ Aware(p)' /\ run'[p].pc \in Holding
       /\ \A login: Keeps(p, login) => Keeps(p, login)'
  <2>1. run'[p].pc \in Replacing \ {"write"}
    BY <1>2 DEF Replacing
  <2> QED BY <1>1, <1>2, <1>9, <2>1, ReplacingAware
<1>11. ASSUME NEW o \in Procs, Seen(o)' PROVE Seen(o)
  BY <1>2, <1>4, <1>6, <1>11 DEF Seen, Alone
<1>12. Kinded'
  <2>1. file.account # Nothing /\ secret'[file.account.store] \in Logins
          => secret'[file.account.store] = secret[file.account.store]
    BY <1>4, <1>6, StoresType DEF Accounts
  <2> QED BY <1>1, <2>1 DEF Accounted, Kinded, OriginOf
<1>13. ASSUME NEW login \in Logins, Saves(login)
       PROVE  login.session \in Lapsed' \/ Saves(login)' \/ Keeps(p, login)
  <2>1. CASE secret'[file.account.store] = secret[file.account.store]
    BY <1>1, <1>13, <2>1 DEF Saves
  <2>2. CASE secret'[file.account.store] # secret[file.account.store]
    <3>1. file.account.store \in Stores
      BY <1>13, StoresType DEF Saves, Accounts
    <3>2. secret[store] = login
      BY <1>4, <1>13, <2>2, <3>1 DEF Saves
    <3>3. \/ login = hand
          \/ old # Nothing /\ login = old.login
          \/ login.session \in Lapsed
      BY <1>1, <1>3, <1>6, <3>2 DEF Mine
    <3>4. login = hand => plan[p].kind = "login"
      BY <1>0, <1>3 DEF Replacement
    <3> QED BY <1>1, <1>3, <3>3, <3>4 DEF Keeps, Replacing, Signing
  <2> QED BY <2>1, <2>2
<1>14. \A st: ~Renewed(p, st)
  BY <1>0 DEF Replacement
<1>15. ASSUME NEW st \in Stores, secret'[st] \in Logins PROVE secret'[st] = secret[st]
  BY <1>4, <1>6, <1>15
<1> QED BY <1>10, <1>11, <1>12, <1>13, <1>14, <1>15 DEF Careful

LEMMA PutBackCareful ==
    ASSUME Inv, Reachable, Accounted, NEW p \in Procs, Mind(p), Alone(p), session' = session,
           PutBack(p)
    PROVE  Careful(p)
<1> USE DEF disk, server, history, Lapsed
<1>1. /\ run[p] \in RunRecord /\ run \in [Procs -> RunRecord] /\ plan' = plan
      /\ run[p].pc = "putback" /\ run[p].pc \in Replacing /\ run[p].pc \in Holding
      /\ UNCHANGED <<file, wire, Lapsed>> /\ Stored(p) /\ Aware(p)
      /\ secret \in [Stores -> Secrets \cup {Nothing}]
      /\ Elsewhere(FormerStores(p)) /\ Mine(p)
  BY Here, StoresType DEF PutBack, Holding, Replacing, Reachable, Accounted, Mind, Aware, Guarded
<1>0. Replacement(p)
  BY <1>1, ReplacingFacts
<1>2. PICK old, hand, store: old = run[p].old /\ hand = run[p].hand /\ store = old.account.store
  OBVIOUS
<1>3. /\ run'[p].pc = "resave" /\ run'[p].old = run[p].old /\ run'[p].entry = run[p].entry
      /\ run'[p].hand = run[p].hand
      /\ old = Nothing => secret' = secret
      /\ old # Nothing => SecretWrite(store, old.login, FALSE)
      /\ old # Nothing /\ ~run'[p].hint => secret'[store] = old.login
  <2>1. CASE /\ old = Nothing /\ secret' = secret
             /\ run' = [run EXCEPT ![p].pc = "resave", ![p].mem.account = Nothing]
    BY <1>1, <2>1 DEF RunRecord
  <2>2. CASE old # Nothing
    <3>1. /\ SecretWrite(store, old.login, FALSE)
          /\ \E hint \in BOOLEAN:
                /\ ~hint => secret'[store] = old.login
                /\ run' = [run EXCEPT ![p].pc = "resave", ![p].mem.account = old.account,
                                      ![p].hint = hint]
      BY <1>2, <2>2 DEF PutBack
    <3>2. PICK hint \in BOOLEAN:
                /\ ~hint => secret'[store] = old.login
                /\ run' = [run EXCEPT ![p].pc = "resave", ![p].mem.account = old.account,
                                      ![p].hint = hint]
      BY <3>1
    <3>3. /\ run'[p].pc = "resave" /\ run'[p].old = run[p].old /\ run'[p].entry = run[p].entry
          /\ run'[p].hand = run[p].hand /\ run'[p].hint = hint
      BY <1>1, <3>2 DEF RunRecord
    <3> QED BY <2>2, <3>1, <3>2, <3>3
  <2> QED BY <1>2, <2>1, <2>2 DEF PutBack
<1>4. \A st \in Stores: \/ secret'[st] = secret[st]
                        \/ old # Nothing /\ st = store /\ secret'[st] = old.login
  BY <1>1, <1>3 DEF SecretWrite
<1>5. /\ Touched(p)' = Touched(p)
      /\ FormerStores(p)' = FormerStores(p) /\ Moves(p)' = Moves(p)
      /\ FormerStores(p) = (IF old = Nothing THEN {} ELSE {store})
      /\ Touched(p) \subseteq Stores
      /\ old # Nothing => store \in Stores /\ old.login \in Logins
      /\ Nothing \notin Logins
  BY <1>0, <1>2, <1>3 DEF Replacement, Touched, FormerStores, Moves
<1>6. Elsewhere(FormerStores(p))'
  BY <1>1, <1>4, <1>5 DEF Elsewhere
<1>7. Mine(p)'
  BY <1>1, <1>2, <1>3, <1>4, <1>5 DEF Mine
<1>8. old # Nothing =>
        /\ Valid(old.login)' \/ old.login.session \in Lapsed'
        /\ OriginOf(old.login.session) = plan[p].origin \/ old.login.session \in Lapsed'
  BY <1>1, <1>2 DEF Aware, Guarded, Valid, Live, SameOrigin
<1>9. Guarded(p)'
  <2>1. Moves(p) => secret'[store] = old.login
    BY <1>1, <1>2, <1>4, <1>5 DEF Aware, Guarded, Moves
  <2> QED BY <1>2, <1>3, <1>5, <1>6, <1>7, <1>8, <2>1 DEF Guarded, Between, Replacing
<1>10. /\ Aware(p)' /\ run'[p].pc \in Holding
       /\ \A login: Keeps(p, login) => Keeps(p, login)'
  <2>1. run'[p].pc \in Replacing \ {"write"}
    BY <1>3 DEF Replacing
  <2> QED BY <1>1, <1>3, <1>9, <2>1, ReplacingAware
<1>11. ASSUME NEW o \in Procs, Seen(o)' PROVE Seen(o)
  <2>1. CASE \E q \in Procs: run'[q].old # Nothing /\ run'[q].old.login.session = o
    BY <1>3, <2>1 DEF Alone, Seen
  <2>2. CASE \E st \in Stores: secret'[st] \in Logins /\ secret'[st].session = o
    BY <1>2, <1>4, <2>2 DEF Seen
  <2> QED BY <1>11, <2>1, <2>2 DEF Seen
<1>12. Kinded'
  <2> SUFFICES ASSUME file.account # Nothing, secret'[file.account.store] \in Logins
               PROVE  LET s == secret'[file.account.store].session IN
                      \/ s \in Lapsed
                      \/ file.account.kind = "login" /\ OriginOf(s) = file.account.origin
    BY <1>1 DEF Kinded, OriginOf
  <2>1. file.account.store \in Stores
    BY StoresType DEF Accounts
  <2>2. CASE secret'[file.account.store] = secret[file.account.store]
    BY <1>1, <2>2 DEF Accounted, Kinded
  <2>3. CASE old # Nothing /\ secret'[file.account.store] = old.login
    <3>1. file.account.kind = "login" /\ file.account.origin = plan[p].origin
      BY <1>0, <1>1, <1>2, <2>3 DEF Replacement, Stored, Former
    <3> QED BY <1>1, <1>8, <2>3, <3>1
  <2> QED BY <1>4, <2>1, <2>2, <2>3
<1>13. ASSUME NEW login \in Logins, Saves(login)
       PROVE  login.session \in Lapsed' \/ Saves(login)' \/ Keeps(p, login)
  <2>1. CASE secret'[file.account.store] = secret[file.account.store]
    BY <1>1, <1>13, <2>1 DEF Saves
  <2>2. CASE secret'[file.account.store] # secret[file.account.store]
    <3>1. file.account.store \in Stores
      BY <1>13, StoresType DEF Saves, Accounts
    <3>2. old # Nothing /\ secret[store] = login
      BY <1>4, <1>13, <2>2, <3>1 DEF Saves
    <3>3. \/ login = hand
          \/ login = old.login
          \/ login.session \in Lapsed
      BY <1>1, <1>2, <1>5, <3>2 DEF Mine, Touched, FormerStores
    <3>4. plan[p].kind = "login"
      BY <1>0, <1>2, <3>2 DEF Replacement
    <3> QED BY <1>1, <1>2, <3>2, <3>3, <3>4 DEF Keeps, Replacing, Signing
  <2> QED BY <2>1, <2>2
<1>14. \A st: ~Renewed(p, st)
  BY <1>0 DEF Replacement
<1>15. ASSUME NEW st \in Stores, secret'[st] \in Logins
       PROVE  \/ Valid(secret[st])'
              \/ secret'[st].session \in Lapsed'
              \/ secret'[st] = secret[st]
  BY <1>4, <1>8 DEF Valid, Live
<1> QED BY <1>10, <1>11, <1>12, <1>13, <1>14, <1>15 DEF Careful

\* What Resave leaves, to be told of or restored.
LEMMA ResaveCareful ==
    ASSUME Inv, Reachable, Accounted, NEW p \in Procs, Mind(p), Alone(p), session' = session,
           Resave(p)
    PROVE  Careful(p)
<1> USE DEF disk, server, history, Lapsed
<1>1. /\ run[p] \in RunRecord /\ run \in [Procs -> RunRecord] /\ plan' = plan
      /\ run[p].pc = "resave" /\ run[p].pc \in Replacing /\ run[p].pc \in Holding
      /\ UNCHANGED <<secret, wire>> /\ Stored(p) /\ Aware(p) /\ Lapsed \subseteq Lapsed'
      /\ Elsewhere(FormerStores(p)) /\ Mine(p) /\ run[p].result = "none"
  BY Here DEF Resave, Holding, Replacing, Reachable, Accounted, Mind, Aware, Guarded, Local
<1>0. Replacement(p)
  BY <1>1, ReplacingFacts
<1>2. PICK lost \in BOOLEAN:
        /\ ~lost => StoreOf(file') = StoreOf(run[p].mem)
        /\ run' = [run EXCEPT ![p].hint = lost \/ run[p].hint,
                              ![p].pc = IF plan[p].kind = "login" THEN "disown" ELSE "over",
                              ![p].result = IF plan[p].kind = "login" THEN @ ELSE "not saved"]
        /\ Lapsed' = IF (lost \/ run[p].hint) /\ run[p].old # Nothing
                   THEN Lapsed \cup {run[p].old.login.session} ELSE Lapsed
  BY DEF Resave
<1>3. /\ run'[p].pc = IF plan[p].kind = "login" THEN "disown" ELSE "over"
      /\ run'[p].old = run[p].old /\ run'[p].hand = run[p].hand /\ run'[p].result # "logged out"
  BY <1>1, <1>2 DEF RunRecord
<1>4. /\ file'.account \in {Former(p), run[p].entry}
      /\ file' = file \/ file'.account = Former(p)
      /\ file.account \in {Former(p), run[p].entry}
  BY <1>1 DEF Resave, ConfigWrite, Stored
<1>5. ASSUME run[p].old # Nothing
      PROVE  \/ run[p].old.login.session \in Lapsed'
             \/ Saves(run[p].old.login)'
  <2> SUFFICES ASSUME ~lost, ~run[p].hint PROVE Saves(run[p].old.login)'
    BY <1>2, <1>5
  <2>1. StoreOf(file') = run[p].old.account.store
    BY <1>0, <1>1, <1>2, <1>5 DEF Stored, Former, StoreOf, Replacement
  <2>2. file'.account # Nothing /\ file'.account.kind = "login" /\ file'.account.store = run[p].old.account.store
    BY <1>0, <1>4, <1>5, <2>1 DEF Former, StoreOf, Replacement
  <2>3. secret[run[p].old.account.store] = run[p].old.login
    BY <1>1, <1>5 DEF Aware, Guarded
  <2> QED BY <1>1, <1>3, <2>2, <2>3 DEF Saves
<1>6. Elsewhere(FileStores)'
  <2> SUFFICES ASSUME NEW st \in Stores, st \notin FileStores', secret[st] \in Logins,
                      secret[st].session \notin Lapsed'
               PROVE  FALSE
    BY <1>1 DEF Elsewhere
  <2>1. run[p].old # Nothing /\ st = run[p].old.account.store
    BY <1>1 DEF Elsewhere, FormerStores
  <2>2. file'.account = run[p].entry /\ run[p].entry.store # st
    BY <1>0, <1>4, <2>1 DEF FileStores, Former, Replacement
  <2>3. secret[st] = run[p].old.login
    BY <1>1, <2>1, <2>2 DEF Aware, Guarded, Moves
  <2>4. Saves(run[p].old.login)'
    BY <1>5, <2>1, <2>3
  <2>5. StoreOf(file') = st
    BY <1>0, <1>1, <1>2, <2>1, <2>3 DEF Stored, Former, StoreOf, Replacement
  <2> QED BY <1>0, <2>2, <2>5 DEF StoreOf, Replacement
<1>7. ASSUME NEW login \in Logins, login = run[p].hand \/ (run[p].old # Nothing /\ login = run[p].old.login)
      PROVE  login.session \in Lapsed' \/ Saves(login)' \/ Keeps(p, login)'
  <2>1. CASE login = run[p].hand
    <3>1. plan[p].kind = "login"
      BY <1>0, <1>7, <2>1 DEF Replacement
    <3> QED BY <1>1, <1>3, <2>1, <3>1 DEF Keeps, Signing
  <2>2. CASE run[p].old # Nothing /\ login = run[p].old.login
    BY <1>3, <1>5, <2>2 DEF Saves
  <2> QED BY <1>7, <2>1, <2>2
<1>8. Aware(p)'
  <2>1. Guarded(p)'
    BY <1>3 DEF Guarded, Holding, Replacing, Removing
  <2>2. Loose(p)'
    BY <1>0, <1>1, LooseSame DEF Aware, Replacement
  <2>3. Unseen(p)'
    BY <1>1, <1>3 DEF Aware, Unseen, Signing, Replacing
  <2>4. SameOrigin(p)'
    BY <1>1, <1>3 DEF Aware, SameOrigin, OriginOf
  <2>5. LoggedOut(p)'
    BY <1>0, <1>1 DEF LoggedOut, Replacement
  <2> QED BY <2>1, <2>2, <2>3, <2>4, <2>5 DEF Aware
<1>9. \A o \in Procs: Seen(o)' => Seen(o)
  BY <1>1, <1>3, SeenSame
<1>10. Kinded'
  <2>1. CASE file' = file
    BY <1>1, <2>1 DEF Accounted, Kinded, OriginOf
  <2>2. CASE file'.account = Former(p)
    <3> SUFFICES ASSUME run[p].old # Nothing, secret[run[p].old.account.store] \in Logins
                 PROVE  LET s == secret[run[p].old.account.store].session IN
                        s \in Lapsed' \/ (run[p].old.account.kind = "login"
                                        /\ OriginOf(s) = run[p].old.account.origin)
      BY <1>1, <2>2 DEF Kinded, OriginOf, Former
    <3>1. \/ secret[run[p].old.account.store] = run[p].hand
          \/ secret[run[p].old.account.store] = run[p].old.login
          \/ secret[run[p].old.account.store].session \in Lapsed
      BY <1>1 DEF Mine, Touched, FormerStores
    <3>2. OriginOf(run[p].old.login.session) = plan[p].origin \/ run[p].old.login.session \in Lapsed
      BY <1>1 DEF Aware, SameOrigin
    <3>3. run[p].hand.session = p
      BY <1>0 DEF Replacement
    <3> QED BY <1>0, <1>1, <3>1, <3>2, <3>3 DEF Replacement
  <2> QED BY <1>4, <2>1, <2>2
<1>11. ASSUME NEW login \in Logins, Saves(login)
       PROVE  \/ login = run[p].hand
              \/ run[p].old # Nothing /\ login = run[p].old.login
              \/ login.session \in Lapsed
  <2>1. file.account # Nothing /\ file.account.store \in Touched(p) /\ secret[file.account.store] = login
    BY <1>4, <1>11 DEF Saves, Former, Touched, FormerStores
  <2> QED BY <1>1, <1>11, <2>1 DEF Mine
<1>12. /\ \A st: ~Renewed(p, st)
       /\ \A login: Keeps(p, login) =>
            login = run[p].hand \/ (run[p].old # Nothing /\ login = run[p].old.login)
  BY <1>0 DEF Replacement
<1>13. \A login \in Logins: Saves(login) \/ Keeps(p, login) =>
         login.session \in Lapsed' \/ Saves(login)' \/ Keeps(p, login)'
  BY <1>1, <1>7, <1>11, <1>12
<1> QED BY <1>1, <1>6, <1>8, <1>9, <1>10, <1>12, <1>13 DEF Careful

LEMMA LogoutCareful ==
    ASSUME Inv, Reachable, Accounted, NEW p \in Procs, Mind(p), Alone(p), session' = session,
           Logout(p) \/ LogoutRevoked(p)
    PROVE  Careful(p)
<1> USE DEF disk, server, history, Lapsed
<1>1. /\ run[p] \in RunRecord /\ run \in [Procs -> RunRecord] /\ plan' = plan
      /\ run[p].pc \in {"logout", "logging out"} /\ plan[p].kind \in {"logout", "local"}
      /\ run[p].pc \in Idle /\ run[p].result = "none" /\ run[p].pc \in Holding \ Between
      /\ UNCHANGED <<secret, file, Lapsed>> /\ Aware(p) /\ Stored(p)
  BY Here DEF Logout, LogoutRevoked, Local, Idle, Holding, Removing, Between, Accounted, Reachable
<1>2. /\ \A login: ~Keeps(p, login)
      /\ \A st: ~Renewed(p, st)
      /\ Unseen(p)' /\ run[p].old = Nothing /\ Nothing \notin Logins
  BY <1>1, IdleKeeps, UnseenPast, SecretsAreNotNothing DEF Stored, Replacing, Secrets
<1>3. Elsewhere(FileStores)'
  BY <1>1 DEF Aware, Guarded, Elsewhere, FileStores
<1>4. CASE UNCHANGED wire /\ \E result \in {"unknown", "unreadable", "not logged out"}: End(p, result)
  BY <1>1, <1>4, IdleEndCareful
<1>5. ASSUME run'[p].old = run[p].old, Guarded(p)', Loose(p)', LoggedOut(p)'
      PROVE  Careful(p)
  <2>1. SameOrigin(p)'
    BY <1>2, <1>5 DEF SameOrigin
  <2>2. Aware(p)'
    BY <1>2, <1>5, <2>1 DEF Aware
  <2> QED BY <1>1, <1>2, <1>5, <2>2, QuietCareful
<1>6. CASE /\ run[p].pc = "logout" /\ (file.account.kind = "key" \/ plan[p].kind = "local")
           /\ run' = [run EXCEPT ![p].pc = "remove", ![p].mem = file] /\ UNCHANGED wire
  <2>1. run'[p].pc = "remove" /\ run'[p].old = run[p].old /\ run'[p].hand = run[p].hand
    BY <1>1, <1>6 DEF RunRecord
  <2>2. Guarded(p)'
    BY <1>1, <1>2, <1>3, <1>6, <2>1 DEF Guarded, Replacing, Between
  <2>3. Loose(p)'
    BY <1>1, <1>6, LooseSame DEF Aware
  <2>4. LoggedOut(p)'
    BY <1>1, <1>2, <1>6, <2>1 DEF LoggedOut, Mind
  <2> QED BY <1>5, <2>1, <2>2, <2>3, <2>4
<1>7. CASE /\ run[p].pc = "logout" /\ file.account.kind = "login"
           /\ run' = [run EXCEPT ![p].pc = "logging out", ![p].mem = file,
                                ![p].hand = secret[file.account.store], ![p].mark = "logout",
                                ![p].cache = Cached(file.account.store, secret[file.account.store])]
           /\ Ask(p, Request("revoke", secret[file.account.store], file.account.origin))
  <2>1. /\ run'[p].pc = "logging out" /\ run'[p].old = run[p].old
        /\ run'[p].hand = secret[file.account.store] /\ run'[p].result = "none"
    BY <1>1, <1>7 DEF RunRecord
  <2>2. wire'[p].op = "revoke" /\ wire'[p].answer = "none"
    BY <1>7, WireType DEF Ask, Request
  <2>3. Guarded(p)'
    BY <1>1, <1>2, <1>3, <1>7, <2>1 DEF Guarded, Replacing, Between
  <2>4. Loose(p)' /\ LoggedOut(p)'
    BY <2>1, <2>2 DEF Loose, LoggedOut, Answered
  <2> QED BY <1>5, <2>1, <2>3, <2>4
<1>8. CASE /\ run[p].pc = "logging out" /\ UNCHANGED wire
           /\ wire[p].answer = "ok" /\ Goto(p, "remove")
  <2>1. run'[p].pc = "remove" /\ run'[p].old = run[p].old /\ run'[p].hand = run[p].hand
    BY <1>1, <1>8 DEF Goto, RunRecord
  <2>2. Guarded(p)'
    BY <1>1, <1>2, <1>3, <1>8, <2>1 DEF Aware, Guarded, Mind, Replacing, Between
  <2>3. Loose(p)'
    BY <1>8 DEF Loose
  <2>4. LoggedOut(p)'
    BY <1>1, <1>8, <2>1 DEF Aware, LoggedOut, Answered, Gone
  <2> QED BY <1>5, <2>1, <2>2, <2>3, <2>4
<1>9. CASE Logout(p)
  BY <1>4, <1>6, <1>7, <1>9 DEF Logout
<1>10. CASE LogoutRevoked(p)
  BY <1>4, <1>8, <1>10 DEF LogoutRevoked
<1> QED BY <1>9, <1>10

LEMMA RemoveCareful ==
    ASSUME Inv, Reachable, Accounted, NEW p \in Procs, Mind(p), Alone(p), session' = session,
           Remove(p)
    PROVE  Careful(p)
<1> USE DEF disk, server, history, Lapsed
<1>1. /\ run[p] \in RunRecord /\ run \in [Procs -> RunRecord] /\ plan' = plan
      /\ run[p].pc = "remove" /\ plan[p].kind \in {"logout", "local"} /\ run[p].pc \in Idle
      /\ run[p].pc \in Holding \ Between /\ run[p].result = "none"
      /\ UNCHANGED <<file, wire>> /\ Aware(p) /\ Stored(p) /\ Lapsed \subseteq Lapsed'
      /\ secret \in [Stores -> Secrets \cup {Nothing}] /\ run[p].mem.account \in Accounts
  BY Here, StoresType DEF Remove, Local, Idle, Holding, Removing, Between, Accounted, Reachable
<1>2. /\ \A login: ~Keeps(p, login)
      /\ \A st: ~Renewed(p, st)
      /\ Unseen(p)' /\ run[p].old = Nothing /\ Loose(p)'
      /\ Nothing \notin Logins /\ Nothing \notin Accounts
  BY <1>1, IdleKeeps, UnseenPast, LooseSame, SecretsAreNotNothing, NothingIsApart
  DEF Aware, Stored, Replacing, Secrets
<1>3. CASE End(p, "not logged out") /\ UNCHANGED <<secret, Lapsed>>
  BY <1>1, <1>3, IdleEndCareful
<1>4. PICK store: store = file.account.store
  OBVIOUS
<1>5. run[p].mem.account = file.account /\ file.account # Nothing /\ store \in Stores
  BY <1>1, <1>2, <1>4 DEF Stored, Removing, Accounts
<1>6. CASE /\ Goto(p, "forget")
           /\ secret[store] \in Logins /\ plan[p].kind = "local" => secret[store].session \in Lapsed'
           /\ \/ secret' = [secret EXCEPT ![store] = Nothing]
              \/ UNCHANGED secret /\ plan[p].kind = "local"
  <2>1. run'[p].pc = "forget" /\ run'[p].old = run[p].old /\ run'[p].hand = run[p].hand
    BY <1>1, <1>6 DEF Goto, RunRecord
  <2>2. /\ \A st \in Stores: st # store => secret'[st] = secret[st]
        /\ \A st \in Stores: secret'[st] \in Logins => secret'[st] = secret[st]
        /\ secret'[store] \in Logins => secret[store].session \in Lapsed'
    BY <1>1, <1>2, <1>5, <1>6
  <2>3. Elsewhere({})'
    <3>1. Elsewhere({store})
      BY <1>1, <1>4, <1>5 DEF Aware, Guarded, FileStores
    <3> QED BY <1>1, <2>2, <3>1 DEF Elsewhere
  <2>4. Guarded(p)'
    BY <1>2, <2>1, <2>3 DEF Guarded, Replacing, Between
  <2>5. LoggedOut(p)'
    BY <1>1, <2>1 DEF Aware, LoggedOut, Gone
  <2>6. SameOrigin(p)'
    BY <1>2, <2>1 DEF SameOrigin
  <2>7. Aware(p)'
    BY <1>2, <2>4, <2>5, <2>6 DEF Aware
  <2>8. ASSUME NEW o \in Procs, Seen(o)' PROVE Seen(o)
    BY <2>1, <2>2, <2>8 DEF Alone, Seen
  <2>9. Kinded'
    BY <1>1, <1>4, <1>5, <2>2 DEF Accounted, Kinded, OriginOf
  <2>10. ASSUME NEW login \in Logins, Current(login), Saves(login) PROVE login.session \in Lapsed'
    <3>1. secret[store] = login /\ file.account.kind = "login"
      BY <1>4, <2>10 DEF Saves
    <3>2. CASE plan[p].kind = "local"
      BY <1>6, <3>1, <3>2
    <3>3. CASE plan[p].kind = "logout"
      <4>1. run[p].hand = login
        BY <1>1, <1>4, <3>1, <3>3 DEF Aware, Guarded
      <4>2. Gone(login.session)
        BY <1>1, <3>3, <4>1 DEF Aware, LoggedOut
      <4> QED BY <1>1, <2>10, <4>2 DEF Gone, Current, Live
    <3> QED BY <1>1, <3>2, <3>3
  <2>11. run'[p].pc \in Holding
    BY <2>1 DEF Holding, Removing
  <2> QED BY <1>2, <2>2, <2>7, <2>8, <2>9, <2>10, <2>11 DEF Careful
<1> QED BY <1>3, <1>4, <1>5, <1>6 DEF Remove

LEMMA ForgetCareful ==
    ASSUME Inv, Reachable, Accounted, NEW p \in Procs, Alone(p), session' = session, Forget(p)
    PROVE  Careful(p)
<1> USE DEF disk, server, history, Lapsed
<1>1. /\ run[p] \in RunRecord /\ run \in [Procs -> RunRecord] /\ plan' = plan
      /\ run[p].pc = "forget" /\ plan[p].kind \in {"logout", "local"} /\ run[p].mem \in Configs
      /\ UNCHANGED <<secret, wire, Lapsed>> /\ Aware(p) /\ Stored(p)
  BY Here DEF Forget, Local, Removing, Accounted, Reachable, RunRecord
<1>2. /\ \A login: ~Keeps(p, login)
      /\ \A st: ~Renewed(p, st)
      /\ Unseen(p)' /\ run[p].old = Nothing /\ Loose(p)'
  BY <1>1, UnseenPast, LooseSame DEF Aware, Stored, Replacing, Keeps, Signing, Renewed
<1>3. run'[p].pc = "over" /\ run'[p].old = run[p].old /\ run'[p].hand = run[p].hand
  <2>1. CASE run' = [run EXCEPT ![p].pc = "over", ![p].result = "logged out", ![p].mark = "none"]
    BY <1>1, <2>1 DEF RunRecord
  <2>2. CASE End(p, "not logged out")
    BY <1>1, <2>2 DEF End, RunRecord
  <2> QED BY <2>1, <2>2 DEF Forget
<1>4. file' = file \/ file'.account = Nothing
  BY <1>1 DEF Forget, ConfigWrite, Configs
<1>5. Elsewhere({})
  BY <1>1 DEF Aware, Guarded
<1>6. Elsewhere(FileStores)'
  BY <1>1, <1>5 DEF Elsewhere
<1>7. Aware(p)'
  <2>1. Guarded(p)' /\ SameOrigin(p)'
    BY <1>2, <1>3 DEF Guarded, Holding, Replacing, Removing, SameOrigin
  <2>2. LoggedOut(p)'
    BY <1>1, <1>3 DEF Aware, LoggedOut, Gone
  <2> QED BY <1>2, <2>1, <2>2 DEF Aware
<1>8. \A o \in Procs: Seen(o)' => Seen(o)
  BY <1>1, <1>3, SeenSame
<1>9. Kinded'
  BY <1>1, <1>4 DEF Accounted, Kinded, OriginOf
<1>10. ASSUME NEW login \in Logins, Saves(login) PROVE login.session \in Lapsed'
  <2>1. file.account.store \in Stores
    BY <1>10, StoresType DEF Saves, Accounts
  <2> QED BY <1>1, <1>5, <1>10, <2>1 DEF Saves, Elsewhere
<1> QED BY <1>1, <1>2, <1>6, <1>7, <1>8, <1>9, <1>10 DEF Careful

LEMMA CreateProfileCareful ==
    ASSUME Inv, Reachable, Accounted, NEW p \in Procs, Alone(p), session' = session,
           CreateProfile(p)
    PROVE  Careful(p)
<1> USE DEF disk, server, history, Lapsed
<1>1. /\ run[p] \in RunRecord /\ run \in [Procs -> RunRecord] /\ plan' = plan
      /\ run[p].pc = "profile" /\ plan[p].kind = "profile" /\ run[p].pc \in Idle
      /\ run[p].pc \in Holding \ Between
      /\ UNCHANGED <<secret, wire, Lapsed>> /\ Aware(p) /\ Stored(p)
  BY Here DEF CreateProfile, Local, Idle, Holding, Between, Accounted, Reachable
<1>2. /\ \A login: ~Keeps(p, login)
      /\ \A st: ~Renewed(p, st)
      /\ Unseen(p)' /\ run[p].old = Nothing /\ Loose(p)'
  BY <1>1, IdleKeeps, UnseenPast, LooseSame DEF Aware, Stored, Replacing
<1>3. file'.account = file.account
  BY StoresType DEF CreateProfile, ConfigWrite, Configs
<1>4. run'[p].pc = "over" /\ run'[p].old = run[p].old
  <2>1. \E result: End(p, result)
    BY DEF CreateProfile
  <2> QED BY <1>1, <2>1 DEF End, RunRecord
<1>5. Elsewhere(FileStores)'
  BY <1>1, <1>3 DEF Aware, Guarded, Elsewhere, FileStores
<1>6. Aware(p)'
  <2>1. Guarded(p)' /\ SameOrigin(p)' /\ LoggedOut(p)'
    BY <1>1, <1>2, <1>4 DEF Guarded, Holding, Replacing, Removing, SameOrigin, LoggedOut
  <2> QED BY <1>2, <2>1 DEF Aware
<1>7. \A o \in Procs: Seen(o)' => Seen(o)
  BY <1>1, <1>4, SeenSame
<1>8. Kinded' /\ \A login: Saves(login)' = Saves(login)
  BY <1>1, <1>3 DEF Accounted, Kinded, OriginOf, Saves
<1> QED BY <1>1, <1>2, <1>5, <1>6, <1>7, <1>8 DEF Careful

\* What p keeps, its report or the kill tells of.
LEMMA InterruptCareful ==
    ASSUME Inv, Reachable, Accounted, NEW p \in Procs, Mind(p), Alone(p), session' = session,
           Interrupt(p)
    PROVE  Careful(p)
<1> USE DEF disk, server, history, Lapsed
<1>1. /\ run[p] \in RunRecord /\ run \in [Procs -> RunRecord] /\ plan' = plan
      /\ run[p].pc \in Awaits /\ UNCHANGED <<secret, file, wire>> /\ Local(plan[p].kind, run[p])
      /\ Lapsed' = Lapsed \cup Named(p) /\ Aware(p) /\ Own(p)
  BY Here DEF Interrupt, Accounted
<1>2. PICK result: result = IF run[p].watching THEN "stopped" ELSE "interrupted"
  OBVIOUS
<1>9. End(p, result) /\ result # "logged out"
  BY <1>2 DEF Interrupt
<1>3. run'[p].pc = "over" /\ run[p].pc \notin Between \cup Replacing \cup {"store"}
  BY <1>1, <1>9 DEF End, RunRecord, Awaits, Between, Replacing
<1>4. run[p].pc = "refreshing" => Named(p) = {run[p].hand.session} /\ Sent(p, "refresh", run[p].hand)
  BY DEF Mind, Named
<1>5. run[p].pc = "polling" => Named(p) = {p} /\ wire[p].op = "issue"
  <2>1. run[p].pc = "polling" => plan[p].kind = "login"
    BY <1>1 DEF Local
  <2> QED BY <2>1 DEF Mind, Named
<1>6. Loose(p)'
  <2>1. CASE run[p].pc = "refreshing"
    BY <1>1, <1>4, <2>1 DEF Loose, Sent
  <2>2. CASE run[p].pc = "polling"
    BY <1>1, <1>3, <1>5, <2>2 DEF Loose
  <2>3. CASE run[p].pc \notin {"refreshing", "polling"}
    BY <1>1, <2>3, LooseSame DEF Aware, Awaits
  <2> QED BY <2>1, <2>2, <2>3
<1>7. \A st \in Stores: Renewed(p, st) /\ secret[st] \in Logins => secret[st].session \in Lapsed'
  BY <1>1, <1>3, <1>4 DEF Renewed, Own
<1>8. ASSUME NEW login \in Logins, Keeps(p, login) PROVE login.session \in Lapsed'
  <2>1. CASE run[p].pc = "refreshing"
    <3>1. login = Renewal(run[p].hand) /\ run[p].hand \in Logins
      BY <1>1, <1>8, <2>1 DEF Keeps, Signing, Replacing, Local
    <3> QED BY <1>1, <1>4, <2>1, <3>1 DEF Renewal, Logins
  <2>2. CASE run[p].pc = "polling"
    BY <1>1, <1>5, <1>8, <2>2 DEF Keeps, Signing, Replacing
  <2>3. CASE run[p].pc \in Signing
    <3>1. plan[p].kind = "login" /\ login = run[p].hand
      BY <1>1, <1>3, <1>8, <2>3 DEF Keeps, Signing, Local
    <3>2. run[p].mark = "login" /\ run[p].hand = [session |-> p, gen |-> 0]
      BY <2>3, <3>1 DEF Mind, Signing, Replacing
    <3>3. Named(p) = {p} /\ run[p].hand.session = p
      BY <3>2 DEF Named
    <3> QED BY <1>1, <3>1, <3>3
  <2>4. CASE run[p].pc = "revoking"
    <3>1. login = run[p].old.login
      BY <1>8, <2>4 DEF Keeps, Signing, Replacing
    <3>2. Named(p) = {run[p].old.login.session}
      BY <2>4 DEF Mind, Named
    <3> QED BY <1>1, <3>1, <3>2
  <2> QED BY <1>3, <1>8, <2>1, <2>2, <2>3, <2>4 DEF Keeps, Signing
<1> QED BY <1>1, <1>3, <1>6, <1>7, <1>8, <1>9, EndCareful

LEMMA KillCareful ==
    ASSUME Inv, Reachable, Accounted, NEW p \in Procs, Mind(p), Alone(p), session' = session,
           Kill(p)
    PROVE  Careful(p)
<1> USE DEF disk, server, history, Lapsed
<1>1. /\ run[p] \in RunRecord /\ run \in [Procs -> RunRecord] /\ plan' = plan
      /\ run[p].pc \notin {"start", "over", "dead"} /\ UNCHANGED <<secret, file, wire>>
      /\ Lapsed' = Lapsed \cup InHand(p) \cup {p} /\ Aware(p) /\ Own(p) /\ Local(plan[p].kind, run[p])
      /\ run[p].result = "none"
  BY Here DEF Kill, Accounted, Local
<1>2. /\ run'[p].pc = "dead" /\ run'[p].old = run[p].old /\ run'[p].result = "none"
  BY <1>1 DEF Kill, RunRecord
<1>3. /\ run[p].hand \in Logins => run[p].hand.session \in Lapsed'
      /\ run[p].old # Nothing => run[p].old.login.session \in Lapsed'
      /\ p \in Lapsed'
  BY <1>1 DEF InHand
<1>4. run[p].pc \in {"refreshing", "store"} => run[p].hand \in Logins
  BY <1>1 DEF Local
<1>5. run[p].pc \in Holding => Elsewhere(FileStores)'
  <2> SUFFICES ASSUME run[p].pc \in Holding, NEW st \in Stores, st \notin FileStores,
                      secret[st] \in Logins
               PROVE  secret[st].session \in Lapsed'
    BY <1>1 DEF Elsewhere, FileStores
  <2>1. CASE run[p].pc \notin Between
    BY <1>1, <2>1 DEF Aware, Guarded, Elsewhere
  <2>2. CASE run[p].pc = "forget"
    BY <1>1, <2>2 DEF Aware, Guarded, Elsewhere
  <2>3. CASE run[p].pc \in {"save", "undo", "discard", "putback", "resave"}
    <3>1. CASE st \in Touched(p)
      BY <1>1, <1>3, <2>3, <3>1 DEF Aware, Guarded, Mine
    <3>2. CASE st \notin Touched(p)
      BY <1>1, <2>3, <3>2 DEF Aware, Guarded, Elsewhere, Touched
    <3> QED BY <3>1, <3>2
  <2> QED BY <2>1, <2>2, <2>3 DEF Between
<1>6. Aware(p)'
  <2>1. Guarded(p)'
    BY <1>2 DEF Guarded, Holding, Replacing, Removing
  <2>2. Loose(p)'
    BY <1>1, <1>2, <1>3, <1>4 DEF Aware, Loose, Mind, Sent
  <2>3. Unseen(p)'
    BY <1>1, <1>2, UnseenPast
  <2>4. SameOrigin(p)' /\ LoggedOut(p)'
    BY <1>1, <1>2 DEF Aware, SameOrigin, OriginOf, LoggedOut
  <2> QED BY <2>1, <2>2, <2>3, <2>4 DEF Aware
<1>7. \A o \in Procs: Seen(o)' => Seen(o)
  BY <1>1, <1>2, SeenSame
<1>8. Kinded' /\ \A login: Saves(login)' = Saves(login)
  BY <1>1 DEF Accounted, Kinded, OriginOf, Saves
<1>9. \A st \in Stores: Renewed(p, st) /\ secret[st] \in Logins => secret[st].session \in Lapsed'
  BY <1>1, <1>3, <1>4 DEF Renewed, Own
<1>10. ASSUME NEW login \in Logins, Keeps(p, login) PROVE login.session \in Lapsed'
  <2>1. CASE run[p].pc = "refreshing" /\ login = Renewal(run[p].hand)
    BY <1>3, <1>4, <2>1 DEF Renewal, Logins
  <2>2. CASE run[p].pc = "revoking"
    <3>1. login = run[p].old.login /\ run[p].old # Nothing
      BY <1>1, <1>10, <2>2 DEF Keeps, Signing, Replacing, Local
    <3> QED BY <1>3, <3>1
  <2>3. CASE run[p].pc # "revoking" /\ ~(run[p].pc = "refreshing" /\ login = Renewal(run[p].hand))
    BY <1>3, <1>10, <2>3 DEF Keeps
  <2> QED BY <2>1, <2>2, <2>3
<1> QED BY <1>1, <1>5, <1>6, <1>7, <1>8, <1>9, <1>10 DEF Careful

-----------------------------------------------------------------------------
(* The auth service, and the whole *)

\* What an answer to p leaves alone.
Still(p) ==
    /\ UNCHANGED <<plan, run, lock, file, secret, Lapsed>>
    /\ wire[p] # Nothing /\ wire[p].answer = "none" /\ wire'[p].answer # "none"
    /\ \A o \in Procs: o # p => wire'[o] = wire[o]

LEMMA ServeStill ==
    ASSUME Inv, NEW p \in Procs, Serve(p)
    PROVE  /\ Still(p)
           /\ wire[p].op \in {"issue", "refresh", "revoke"}
           /\ wire[p].op # "issue" => wire[p].login \in Logins /\ wire[p].login.session \in Sessions
           /\ session \in [Sessions -> [state: {"none", "live", "revoked"}, gen: 0..MaxGen]]
           /\ p \in Sessions
<1> USE DEF disk, server, history, Lapsed
<1>1. /\ UNCHANGED <<plan, run, lock, file, secret, Lapsed>>
      /\ wire[p] # Nothing /\ wire[p].answer = "none"
      /\ wire' = [wire EXCEPT ![p].answer = "ok"] \/ wire' = [wire EXCEPT ![p].answer = "refused"]
  BY DEF Serve
<1>2. \/ wire[p] \in [op: {"refresh", "revoke"}, login: Logins, origin: Origins,
                      answer: {"none", "ok", "refused"}]
      \/ wire[p] \in [op: {"issue"}, answer: {"none", "ok"}]
  BY <1>1, WireType
<1>3. wire'[p].answer # "none" /\ \A o \in Procs: o # p => wire'[o] = wire[o]
  <2>1. CASE wire[p] \in [op: {"refresh", "revoke"}, login: Logins, origin: Origins,
                      answer: {"none", "ok", "refused"}]
    BY <1>1, <2>1, WireType
  <2>2. CASE wire[p] \in [op: {"issue"}, answer: {"none", "ok"}]
    BY <1>1, <2>2, WireType
  <2> QED BY <1>2, <2>1, <2>2
<1>4. /\ wire[p].op \in {"issue", "refresh", "revoke"}
      /\ wire[p].op # "issue" => wire[p].login \in Logins /\ wire[p].login.session \in Sessions
  BY <1>2 DEF Logins
<1> QED BY <1>1, <1>3, <1>4, OutsideHere DEF Still, Sessions, Outside

\* Who keeps a login goes on to keep it, unless its answer was that of a revoke.
LEMMA StillKeeps ==
    ASSUME NEW p \in Procs, Still(p), NEW q \in Procs
    PROVE  /\ \A login: Keeps(q, login) /\ (q = p => run[p].pc \notin {"disowning", "revoking"})
                => Keeps(q, login)'
           /\ \A st: Renewed(q, st) => Renewed(q, st)'
<1>1. CASE q = p
  BY <1>1 DEF Still, Keeps, Renewed, Answered
<1>2. CASE q # p
  <2>1. wire'[q] = wire[q] /\ run' = run /\ plan' = plan
    BY <1>2 DEF Still
  <2> QED BY <1>2, <2>1 DEF Keeps, Renewed, Answered
<1> QED BY <1>1, <1>2

LEMMA StillAware ==
    ASSUME Inv, NEW p \in Procs, Still(p), NEW o \in Procs, Aware(o),
           run[o].old # Nothing /\ run[o].pc \in Replacing
             => Valid(run[o].old.login)' \/ run[o].old.login.session \in Lapsed,
           run[o].pc = "refreshing" /\ Answered(o)'
             => Valid(Renewal(run[o].hand))' \/ run[o].hand.session \in Lapsed,
           run[o].pc = "store" => Valid(run[o].hand)' \/ run[o].hand.session \in Lapsed,
           Unseen(o)', LoggedOut(o)'
    PROVE  Aware(o)'
<1>1. UNCHANGED <<plan, run, lock, file, secret, Lapsed>>
  BY DEF Still
<1>2. Guarded(o)'
  <2>1. /\ Moves(o)' = Moves(o) /\ NewSecret(o)' = NewSecret(o)
        /\ Touched(o)' = Touched(o) /\ FormerStores(o)' = FormerStores(o)
    BY <1>1 DEF Moves, NewSecret, Touched, FormerStores
  <2>2. /\ Elsewhere(FileStores) => Elsewhere(FileStores)'
        /\ Elsewhere(Touched(o)) => Elsewhere(Touched(o))'
        /\ Elsewhere(FormerStores(o)) => Elsewhere(FormerStores(o))'
        /\ Elsewhere({}) => Elsewhere({})'
        /\ Mine(o) => Mine(o)'
    BY <1>1, <2>1 DEF Elsewhere, FileStores, Mine
  <2>3. Guarded(o)
    BY DEF Aware
  <2>4. /\ run'[o].pc \in Holding \ Between => Elsewhere(FileStores)'
        /\ run'[o].pc \in {"save", "undo", "discard"} => Elsewhere(Touched(o))'
        /\ run'[o].pc \in {"putback", "resave"} => Elsewhere(FormerStores(o))'
        /\ run'[o].pc = "forget" => Elsewhere({})'
        /\ run'[o].pc \in {"save", "undo", "discard", "putback", "resave"} => Mine(o)'
    BY <1>1, <2>2, <2>3 DEF Guarded
  <2>5. /\ run'[o].old # Nothing /\ run'[o].pc \in Replacing
             => Valid(run[o].old.login)' \/ run'[o].old.login.session \in Lapsed'
        /\ run'[o].pc = "refreshing" /\ Answered(o)'
             => Valid(Renewal(run[o].hand))' \/ run'[o].hand.session \in Lapsed'
        /\ run'[o].pc = "store" => Valid(run[o].hand)' \/ run'[o].hand.session \in Lapsed'
    BY <1>1
  <2> QED BY <1>1, <2>1, <2>3, <2>4, <2>5 DEF Guarded
<1>3. Loose(o)'
  <2>1. CASE o = p
    BY <2>1 DEF Still, Loose
  <2>2. CASE o # p
    BY <1>1, <2>2 DEF Still, Aware, Loose
  <2> QED BY <2>1, <2>2
<1>4. SameOrigin(o)'
  BY <1>1 DEF Aware, SameOrigin, OriginOf
<1> QED BY <1>2, <1>3, <1>4 DEF Aware

LEMMA StillAccounted ==
    ASSUME Inv, Accounted, NEW p \in Procs, Still(p), \A o \in Procs: Aware(o)',
           CurrentSecret', AllKept'
    PROVE  Accounted'
<1>1. Told'
  BY DEF Still, Accounted, Told, Elsewhere, FileStores
<1>2. Kinded'
  BY DEF Still, Accounted, Kinded, OriginOf
<1> QED BY <1>1, <1>2 DEF Accounted

\* The session of a login comes into being while its process polls, or a person knows that
\* it may have.
LEMMA IssueKeeps ==
    ASSUME Inv, Minded, Accounted, NEW p \in Procs, Serve(p), wire[p].op = "issue"
    PROVE  Accounted'
<1>1. /\ session' = [session EXCEPT ![p].state = "live"] /\ wire'[p].answer = "ok"
      /\ Still(p) /\ p \in Sessions
      /\ session \in [Sessions -> [state: {"none", "live", "revoked"}, gen: 0..MaxGen]]
  <2>1. wire[p] \in [op: {"issue"}, answer: {"none", "ok"}]
    BY WireType DEF Serve
  <2>2. session' = [session EXCEPT ![p].state = "live"] /\ wire' = [wire EXCEPT ![p].answer = "ok"]
    BY DEF Serve
  <2>3. wire'[p].answer = "ok"
    BY <2>1, <2>2, WireType
  <2> QED BY <2>2, <2>3, ServeStill
<1>2. \/ run[p].pc = "polling" /\ ~Answered(p)
      \/ p \in Lapsed
  BY <1>1 DEF Accounted, Aware, Loose, Still, Answered
<1>3. p \notin Lapsed => /\ plan[p].kind = "login" /\ session[p].state = "none" /\ session[p].gen = 0
  BY <1>2, Here DEF Local, Accounted, Aware, Unseen
<1>4. /\ \A s \in Sessions: s # p => session'[s] = session[s]
      /\ session'[p].state = "live" /\ session'[p].gen = session[p].gen
  BY <1>1
<1>5. ASSUME NEW login, login.session \in Sessions, Valid(login)
      PROVE  Valid(login)' \/ login.session \in Lapsed
  <2>1. CASE login.session = p
    BY <1>3, <1>5, <2>1 DEF Valid
  <2>2. CASE login.session # p
    BY <1>4, <1>5, <2>2 DEF Valid, Live
  <2> QED BY <2>1, <2>2
<1>6. ASSUME NEW o \in Procs PROVE Aware(o)'
  <2>1. Aware(o) /\ run[o] \in RunRecord /\ Local(plan[o].kind, run[o]) /\ o \in Sessions /\ run' = run
    BY <1>1, Here DEF Accounted, Sessions, Still
  <2>2. Answered(o)' => Answered(o) \/ o = p
    BY <1>1 DEF Still, Answered
  <2>3. run[o].old # Nothing /\ run[o].pc \in Replacing
          => Valid(run[o].old.login)' \/ run[o].old.login.session \in Lapsed
    <3>1. PICK l: l = run[o].old.login
      OBVIOUS
    <3>2. run[o].old # Nothing => l.session \in Sessions
      BY <2>1, <3>1 DEF RunRecord, Logins
    <3>3. run[o].old # Nothing /\ run[o].pc \in Replacing => Valid(l) \/ l.session \in Lapsed
      BY <2>1, <3>1 DEF Aware, Guarded
    <3> QED BY <1>5, <2>1, <3>1, <3>2, <3>3
  <2>4. run[o].pc = "store" => Valid(run[o].hand)' \/ run[o].hand.session \in Lapsed
    <3>1. PICK l: l = run[o].hand
      OBVIOUS
    <3>2. run[o].pc = "store" => l.session \in Sessions
      BY <2>1, <3>1 DEF Local, Logins
    <3>3. run[o].pc = "store" => Valid(l) \/ l.session \in Lapsed
      BY <2>1, <3>1 DEF Aware, Guarded
    <3> QED BY <1>5, <2>1, <3>1, <3>2, <3>3
  <2>5. run[o].pc = "refreshing" /\ Answered(o)'
          => Valid(Renewal(run[o].hand))' \/ run[o].hand.session \in Lapsed
    <3>1. PICK l: l = Renewal(run[o].hand)
      OBVIOUS
    <3>2. run[o].pc = "refreshing" => l.session \in Sessions /\ l.session = run[o].hand.session
      BY <2>1, <3>1 DEF Local, Logins, Renewal
    <3>3. o = p => run[o].pc # "refreshing"
      BY DEF Minded, Mind, Sent
    <3>4. run[o].pc = "refreshing" /\ Answered(o) => Valid(l) \/ l.session \in Lapsed
      BY <2>1, <3>1, <3>2 DEF Aware, Guarded
    <3>5. Valid(l)' <=> Valid(Renewal(run[o].hand))'
      BY <2>1, <3>1 DEF Renewal
    <3> QED BY <1>5, <2>1, <2>2, <3>2, <3>3, <3>4, <3>5
  <2>6. Unseen(o)'
    <3>1. CASE o = p
      <4>1. Seen(p)' <=> Seen(p)
        BY <1>1 DEF Still, Seen
      <4>2. plan' = plan /\ run' = run /\ Lapsed' = Lapsed /\ wire'[p].answer = "ok"
        BY <1>1 DEF Still
      <4>3. CASE p \in Lapsed
        <5>1. run[p].pc \notin {"start", "name", "ask"}
          BY <1>1, <2>1, <3>1 DEF Aware, Loose, Still
        <5> QED BY <3>1, <4>2, <4>3, <5>1 DEF Unseen, Answered
      <4>4. CASE run[p].pc = "polling" /\ ~Answered(p) /\ p \notin Lapsed
        <5>1. session'[p].state = "live" /\ session'[p].gen = 0
          BY <1>3, <1>4, <4>4
        <5>2. (session[p].gen = 0 /\ ~Seen(p)) \/ plan[p].kind # "login"
          BY <2>1, <3>1, <4>4 DEF Aware, Unseen
        <5> QED BY <3>1, <4>1, <4>2, <4>4, <5>1, <5>2 DEF Unseen, Answered, Signing, Replacing
      <4> QED BY <1>2, <3>1, <4>3, <4>4
    <3>2. CASE o # p
      BY <1>1, <1>4, <2>1, <3>2 DEF Aware, Unseen, Still, Answered, Seen
    <3> QED BY <3>1, <3>2
  <2>7. LoggedOut(o)'
    <3>1. run[o].pc = "logging out" => o # p
      BY DEF Minded, Mind, Sent
    <3>2. \A s \in Sessions: Gone(s) => Gone(s)'
      BY <1>1, <1>3, <1>4 DEF Gone, Still
    <3>3. run[o].hand \in Logins => run[o].hand.session \in Sessions
      BY DEF Logins
    <3>4. PICK s: s = run[o].hand.session
      OBVIOUS
    <3>5. Gone(s) <=> Gone(run[o].hand.session)
      BY <3>4
    <3>6. Gone(s)' <=> Gone(run[o].hand.session)'
      BY <2>1, <3>4
    <3> QED BY <1>1, <2>1, <2>2, <3>1, <3>2, <3>3, <3>4, <3>5, <3>6 DEF Aware, LoggedOut, Still
  <2> QED BY <1>1, <2>1, <2>3, <2>4, <2>5, <2>6, <2>7, StillAware
<1>7. CurrentSecret'
  <2> SUFFICES ASSUME NEW st \in Stores, secret'[st] \in Logins
               PROVE  \/ Valid(secret[st])'
                      \/ secret'[st].session \in Lapsed'
                      \/ \E q \in Procs: Renewed(q, st)'
    BY DEF CurrentSecret
  <2>1. PICK l: l = secret[st]
    OBVIOUS
  <2>2. l \in Logins /\ l.session \in Sessions /\ secret' = secret /\ Lapsed' = Lapsed
    BY <1>1, <2>1 DEF Still, Logins
  <2>3. Valid(l) \/ l.session \in Lapsed \/ \E q \in Procs: Renewed(q, st)
    BY <2>1, <2>2 DEF Accounted, CurrentSecret
  <2>4. \A q \in Procs: Renewed(q, st) => Renewed(q, st)'
    BY <1>1, StillKeeps
  <2>5. Valid(l)' <=> Valid(secret[st])'
    BY <2>1, <2>2
  <2> QED BY <1>5, <2>1, <2>2, <2>3, <2>4, <2>5
<1>8. AllKept'
  <2> SUFFICES ASSUME NEW login \in Logins, Current(login)', login.session \notin Lapsed
               PROVE  Saves(login)' \/ \E q \in Procs: Keeps(q, login)'
    BY <1>1 DEF AllKept, Still
  <2>1. CASE login.session = p
    <3>1. login = [session |-> p, gen |-> 0]
      BY <1>3, <1>4, <2>1 DEF Current, Logins
    <3>2. Keeps(p, login)'
      BY <1>1, <1>2, <2>1, <3>1 DEF Keeps, Answered, Still
    <3> QED BY <3>2
  <2>2. CASE login.session # p
    <3>1. Current(login)
      BY <1>4, <2>2 DEF Current, Live, Logins
    <3>2. Saves(login) \/ \E q \in Procs: Keeps(q, login)
      BY <3>1 DEF Accounted, AllKept
    <3>3. Saves(login) => Saves(login)'
      BY <1>1 DEF Still, Saves
    <3>4. run[p].pc \notin {"disowning", "revoking"}
      BY DEF Minded, Mind, Sent
    <3> QED BY <1>1, <3>2, <3>3, <3>4, StillKeeps
  <2> QED BY <2>1, <2>2
<1> QED BY <1>1, <1>6, <1>7, <1>8, StillAccounted

\* A refresh that is refused changes no session.
LEMMA RefuseKeeps ==
    ASSUME Inv, Minded, Accounted, NEW p \in Procs, Still(p), session' = session,
           wire[p].op = "refresh", wire'[p].answer = "refused"
    PROVE  Accounted'
<1>1. /\ UNCHANGED <<plan, run, secret, file, Lapsed>>
      /\ run[p].pc \notin {"disowning", "revoking"}
      /\ \A o \in Procs: Answered(o)' <=> Answered(o)
  BY DEF Still, Minded, Mind, Sent, Answered
<1>2. \A login: (Valid(login)' <=> Valid(login)) /\ (Current(login)' <=> Current(login))
  BY DEF Valid, Current, Live
<1>3. ASSUME NEW o \in Procs PROVE Aware(o)'
  <2>1. Aware(o) /\ Guarded(o)
    BY DEF Accounted, Aware
  <2>2. run[o].old # Nothing /\ run[o].pc \in Replacing
          => Valid(run[o].old.login)' \/ run[o].old.login.session \in Lapsed
    BY <1>1, <2>1 DEF Guarded, Valid, Live
  <2>3. run[o].pc = "refreshing" /\ Answered(o)'
          => Valid(Renewal(run[o].hand))' \/ run[o].hand.session \in Lapsed
    BY <1>1, <2>1 DEF Guarded, Valid, Live, Renewal
  <2>4. run[o].pc = "store" => Valid(run[o].hand)' \/ run[o].hand.session \in Lapsed
    BY <1>1, <2>1 DEF Guarded, Valid, Live
  <2>5. Unseen(o)'
    BY <1>1, <2>1 DEF Aware, Unseen, Seen
  <2>6. LoggedOut(o)'
    BY <1>1, <2>1 DEF Aware, LoggedOut, Gone
  <2> QED BY <2>1, <2>2, <2>3, <2>4, <2>5, <2>6, StillAware
<1>4. CurrentSecret'
  <2> SUFFICES ASSUME NEW st \in Stores, secret'[st] \in Logins
               PROVE  \/ Valid(secret[st])'
                      \/ secret'[st].session \in Lapsed'
                      \/ \E q \in Procs: Renewed(q, st)'
    BY DEF CurrentSecret
  <2>1. Valid(secret[st])' <=> Valid(secret[st])
    BY <1>1 DEF Valid, Live
  <2>2. \A q \in Procs: Renewed(q, st) => Renewed(q, st)'
    BY StillKeeps
  <2> QED BY <1>1, <2>1, <2>2 DEF Accounted, CurrentSecret
<1>5. AllKept'
  <2> SUFFICES ASSUME NEW login \in Logins, Current(login)', login.session \notin Lapsed
               PROVE  Saves(login)' \/ \E q \in Procs: Keeps(q, login)'
    BY <1>1 DEF AllKept
  <2>1. Saves(login) \/ \E q \in Procs: Keeps(q, login)
    BY <1>2 DEF Accounted, AllKept
  <2>2. Saves(login) => Saves(login)'
    BY <1>1 DEF Saves
  <2> QED BY <1>1, <2>1, <2>2, StillKeeps
<1> QED BY <1>3, <1>4, <1>5, StillAccounted

\* A refreshed session is renewed in the hands of the process that holds the lock, or a
\* person knows of it.
LEMMA RenewKeeps ==
    ASSUME Inv, Reachable, Minded, Accounted, NEW p \in Procs, Still(p),
           wire[p].op = "refresh", wire'[p].answer = "ok",
           NEW login \in Logins, login = wire[p].login, Current(login),
           session' = [session EXCEPT ![login.session].gen = @ + 1]
    PROVE  Accounted'
<1>1. /\ UNCHANGED <<plan, run, secret, file, Lapsed>>
      /\ run[p].pc \notin {"disowning", "revoking", "polling", "logging out"}
      /\ \A o \in Procs: o # p => (Answered(o)' <=> Answered(o))
      /\ Answered(p)' /\ Mind(p) /\ Aware(p) /\ Guarded(p) /\ Own(p)
  BY DEF Still, Minded, Mind, Sent, Answered, Accounted, Aware, Inv
<1>2. PICK s \in Sessions: s = login.session
  BY DEF Logins
<1>3. /\ session \in [Sessions -> [state: {"none", "live", "revoked"}, gen: 0..MaxGen]]
      /\ session[s].state = "live" /\ session[s].gen = login.gen /\ login.gen \in Nat
      /\ login = [session |-> s, gen |-> login.gen]
  BY <1>2, OutsideHere DEF Current, Live, Outside, Logins
<1>4. /\ session'[s].gen = login.gen + 1
      /\ \A t \in Sessions: session'[t].state = session[t].state
      /\ \A t \in Sessions: t # s => session'[t] = session[t]
  BY <1>2, <1>3
<1>5. \/ /\ run[p].pc = "refreshing" /\ run[p].hand = login /\ lock = p
         /\ run[p].mem.account \in Accounts /\ secret[run[p].mem.account.store] = login
         /\ run[p].mem.account.store \in Stores
      \/ s \in Lapsed
  <2>1. CASE run[p].pc = "refreshing"
    <3>1. run[p].mem.account \in Accounts
      BY <2>1, Here DEF Local
    <3>2. run[p].mem.account.store \in Stores
      BY <3>1 DEF Accounts
    <3> QED BY <1>1, <2>1, <3>1, <3>2 DEF Mind, Sent, Own, Holding
  <2>2. CASE run[p].pc # "refreshing"
    BY <1>1, <1>2, <2>2 DEF Aware, Loose, Still
  <2> QED BY <2>1, <2>2
<1>6. ASSUME NEW l, l.session \in Sessions, Valid(l), l.session # s PROVE Valid(l)'
  BY <1>4, <1>6 DEF Valid, Live
<1>7. ASSUME NEW o \in Procs PROVE Aware(o)'
  <2>1. Aware(o) /\ Guarded(o) /\ run[o] \in RunRecord /\ Local(plan[o].kind, run[o]) /\ Own(o)
    BY Here DEF Accounted, Aware
  <2>2. run[o].pc \in Holding => o = p \/ s \in Lapsed
    BY <1>5, <2>1 DEF Own
  <2>3. run[o].old # Nothing /\ run[o].pc \in Replacing
          => Valid(run[o].old.login)' \/ run[o].old.login.session \in Lapsed
    <3>1. PICK l: l = run[o].old.login
      OBVIOUS
    <3>2. run[o].old # Nothing => l.session \in Sessions
      BY <2>1, <3>1 DEF RunRecord, Logins
    <3>3. run[o].old # Nothing /\ run[o].pc \in Replacing => Valid(l) \/ l.session \in Lapsed
      BY <2>1, <3>1 DEF Guarded
    <3>4. run[o].pc \in Replacing => s \in Lapsed
      BY <1>5, <2>2 DEF Holding, Replacing
    <3>5. Valid(l)' <=> Valid(run[o].old.login)'
      BY <1>1, <3>1
    <3> QED BY <1>6, <3>1, <3>2, <3>3, <3>4, <3>5
  <2>4. run[o].pc = "store" => Valid(run[o].hand)' \/ run[o].hand.session \in Lapsed
    <3>1. PICK l: l = run[o].hand
      OBVIOUS
    <3>2. run[o].pc = "store" => l.session \in Sessions
      BY <2>1, <3>1 DEF Local, Logins
    <3>3. run[o].pc = "store" => Valid(l) \/ l.session \in Lapsed
      BY <2>1, <3>1 DEF Guarded
    <3>4. run[o].pc = "store" => s \in Lapsed
      BY <1>5, <2>2 DEF Holding
    <3>5. Valid(l)' <=> Valid(run[o].hand)'
      BY <1>1, <3>1
    <3> QED BY <1>6, <3>1, <3>2, <3>3, <3>4, <3>5
  <2>5. run[o].pc = "refreshing" /\ Answered(o)'
          => Valid(Renewal(run[o].hand))' \/ run[o].hand.session \in Lapsed
    <3>1. PICK l: l = Renewal(run[o].hand)
      OBVIOUS
    <3>2. run[o].pc = "refreshing" => l.session \in Sessions /\ l.session = run[o].hand.session
      BY <2>1, <3>1 DEF Local, Logins, Renewal
    <3>3. Valid(l)' <=> Valid(Renewal(run[o].hand))'
      BY <1>1, <3>1 DEF Renewal
    <3>4. CASE o # p
      <4>1. run[o].pc = "refreshing" /\ Answered(o) => Valid(l) \/ l.session \in Lapsed
        BY <2>1, <3>1, <3>2 DEF Guarded
      <4>2. run[o].pc = "refreshing" => s \in Lapsed
        BY <2>2, <3>4 DEF Holding
      <4> QED BY <1>1, <1>6, <3>2, <3>3, <3>4, <4>1, <4>2
    <3>5. CASE o = p /\ s \notin Lapsed
      <4>1. l.session = s /\ l.gen = login.gen + 1
        BY <1>2, <1>3, <1>5, <3>1, <3>5 DEF Renewal
      <4>2. session'[s].state = "live"
        BY <1>3, <1>4
      <4>3. Valid(l)'
        BY <1>4, <4>1, <4>2 DEF Valid, Live
      <4> QED BY <3>3, <4>3
    <3>6. CASE o = p /\ s \in Lapsed
      BY <1>1, <1>2, <3>6 DEF Mind, Sent
    <3> QED BY <3>4, <3>5, <3>6
  <2>6. Unseen(o)'
    <3>1. /\ Seen(o)' <=> Seen(o)
          /\ o \in Sessions
      BY <1>1 DEF Seen, Sessions
    <3>2. run[o].pc = "polling" => (Answered(o)' <=> Answered(o))
      BY <1>1
    <3>3. session'[o].gen = session[o].gen \/ Seen(o) \/ o \in Lapsed
      <4>1. CASE o # s
        BY <1>4, <3>1, <4>1
      <4>2. CASE o = s
        BY <1>2, <1>5, <4>2 DEF Seen
      <4> QED BY <4>1, <4>2
    <3> QED BY <1>1, <1>4, <2>1, <3>1, <3>2, <3>3 DEF Aware, Unseen
  <2>7. LoggedOut(o)'
    <3>1. run[o].pc = "logging out" => (Answered(o)' <=> Answered(o))
      BY <1>1
    <3>2. run[o].hand \in Logins => run[o].hand.session \in Sessions
      BY DEF Logins
    <3> QED BY <1>1, <1>4, <2>1, <3>1, <3>2 DEF Aware, LoggedOut, Gone
  <2> QED BY <2>1, <2>3, <2>4, <2>5, <2>6, <2>7, StillAware
<1>8. CurrentSecret'
  <2> SUFFICES ASSUME NEW st \in Stores, secret'[st] \in Logins, secret'[st].session \notin Lapsed
               PROVE  Valid(secret[st])' \/ \E q \in Procs: Renewed(q, st)'
    BY <1>1 DEF CurrentSecret
  <2>1. PICK l \in Logins: l = secret[st] /\ l.session \in Sessions
    BY <1>1 DEF Logins
  <2>2. Valid(l) \/ \E q \in Procs: Renewed(q, st)
    BY <1>1, <2>1 DEF Accounted, CurrentSecret
  <2>3. \A q \in Procs: Renewed(q, st) => Renewed(q, st)'
    BY StillKeeps
  <2>4. Valid(l)' <=> Valid(secret[st])'
    BY <1>1, <2>1
  <2>5. CASE l.session # s
    BY <1>6, <2>1, <2>2, <2>3, <2>4, <2>5
  <2>6. CASE l.session = s
    <3>1. /\ run[p].pc = "refreshing" /\ secret[run[p].mem.account.store] = login
          /\ run[p].mem.account.store \in Stores
      BY <1>1, <1>5, <2>1, <2>6
    <3>2. Elsewhere(FileStores)
      BY <1>1, <3>1 DEF Guarded, Holding, Between
    <3>3. st = run[p].mem.account.store
      BY <1>1, <1>2, <2>1, <2>6, <3>1, <3>2 DEF Elsewhere, FileStores
    <3>4. Renewed(p, st)'
      BY <1>1, <3>1, <3>3 DEF Renewed
    <3> QED BY <3>4
  <2> QED BY <2>5, <2>6
<1>9. AllKept'
  <2> SUFFICES ASSUME NEW l \in Logins, Current(l)', l.session \notin Lapsed
               PROVE  Saves(l)' \/ \E q \in Procs: Keeps(q, l)'
    BY <1>1 DEF AllKept
  <2>1. l.session \in Sessions /\ l = [session |-> l.session, gen |-> l.gen]
    BY DEF Logins
  <2>2. CASE l.session = s
    <3>1. run[p].pc = "refreshing" /\ run[p].hand = login
      BY <1>5, <2>2
    <3>2. l.gen = login.gen + 1
      BY <1>4, <2>2 DEF Current
    <3>3. l = Renewal(login)
      BY <1>3, <2>1, <2>2, <3>2 DEF Renewal
    <3>4. Keeps(p, l)'
      BY <1>1, <3>1, <3>3 DEF Keeps, Renewal
    <3> QED BY <3>4
  <2>3. CASE l.session # s
    <3>1. Current(l)
      BY <1>4, <2>1, <2>3 DEF Current, Live
    <3>2. Saves(l) \/ \E q \in Procs: Keeps(q, l)
      BY <3>1 DEF Accounted, AllKept
    <3>3. Saves(l) => Saves(l)'
      BY <1>1 DEF Saves
    <3> QED BY <1>1, <3>2, <3>3, StillKeeps
  <2> QED BY <2>2, <2>3
<1> QED BY <1>7, <1>8, <1>9, StillAccounted

\* A revoke takes effect when it names the current login of its session at the origin of
\* that session, which those of the code do.
LEMMA RevokeKeeps ==
    ASSUME Inv, Reachable, Minded, Accounted, NEW p \in Procs, Still(p),
           wire[p].op = "revoke", wire'[p].answer = "ok",
           NEW login \in Logins, login = wire[p].login,
           NEW known \in BOOLEAN,
           known <=> Current(login) /\ OriginOf(login.session) = wire[p].origin,
           session' = IF known THEN [session EXCEPT ![login.session].state = "revoked"] ELSE session
    PROVE  Accounted'
<1>1. /\ UNCHANGED <<plan, run, secret, file, Lapsed>>
      /\ run[p].pc \notin {"refreshing", "polling"}
      /\ \A o \in Procs: o # p => (Answered(o)' <=> Answered(o))
      /\ Mind(p) /\ Aware(p) /\ Guarded(p) /\ Stored(p) /\ p # First
      /\ Local(plan[p].kind, run[p]) /\ Own(p)
  BY Here, FirstIsNoProcess
  DEF Still, Minded, Mind, Sent, Answered, Accounted, Aware, Reachable
<1>2. PICK s \in Sessions: s = login.session
  BY DEF Logins
<1>3. /\ session \in [Sessions -> [state: {"none", "live", "revoked"}, gen: 0..MaxGen]]
      /\ known => session[s].state = "live"
  BY <1>2, OutsideHere DEF Current, Live, Outside
<1>4. /\ \A t \in Sessions: session'[t].gen = session[t].gen
      /\ \A t \in Sessions: session'[t].state = IF known /\ t = s THEN "revoked" ELSE session[t].state
  BY <1>2, <1>3
<1>5. ASSUME NEW l, l.session \in Sessions
      PROVE  /\ Valid(l) => Valid(l)'
             /\ Current(l)' => Current(l) /\ ~(known /\ l.session = s)
  BY <1>3, <1>4, <1>5 DEF Valid, Current, Live
<1>6. \A t \in Sessions: Gone(t) => Gone(t)'
  BY <1>1, <1>4 DEF Gone
<1>7. ASSUME run[p].pc = "logging out" PROVE Gone(s)'
  <2>1. /\ run[p].hand = login /\ wire[p].origin = file.account.origin
        /\ file.account \in Accounts /\ file.account.kind = "login"
        /\ secret[file.account.store] = login /\ lock = p
    BY <1>1, <1>7 DEF Mind, Sent, Stored, Guarded, Own, Local, Holding, Removing
  <2>2. file.account.store \in Stores /\ file.account # Nothing
    BY <2>1, NothingIsApart DEF Accounts
  <2>3. s \in Lapsed \/ OriginOf(s) = file.account.origin
    BY <1>2, <2>1, <2>2 DEF Accounted, Kinded
  <2>4. ASSUME NEW q \in Procs PROVE ~Renewed(q, file.account.store)
    BY <1>7, <2>1 DEF Renewed, Inv, Own, Holding
  <2>5. s \in Lapsed \/ Valid(login)
    BY <1>2, <2>1, <2>2, <2>4 DEF Accounted, CurrentSecret
  <2>6. CASE s \in Lapsed
    BY <1>1, <2>6 DEF Gone
  <2>7. CASE s \notin Lapsed /\ session[s].state = "live"
    <3>1. Current(login)
      BY <1>2, <2>5, <2>7 DEF Valid, Current, Live
    <3>2. known
      BY <1>2, <2>1, <2>3, <2>7, <3>1
    <3> QED BY <1>4, <3>2 DEF Gone
  <2>8. CASE s \notin Lapsed /\ session[s].state # "live"
    BY <1>2, <1>3, <1>4, <2>5, <2>8 DEF Valid, Gone
  <2> QED BY <2>6, <2>7, <2>8
<1>8. ASSUME NEW o \in Procs PROVE Aware(o)'
  <2>1. Aware(o) /\ Guarded(o) /\ run[o] \in RunRecord /\ Local(plan[o].kind, run[o]) /\ o \in Sessions
    BY Here DEF Accounted, Aware, Sessions
  <2>2. run[o].old # Nothing /\ run[o].pc \in Replacing
          => Valid(run[o].old.login)' \/ run[o].old.login.session \in Lapsed
    <3>1. PICK l: l = run[o].old.login
      OBVIOUS
    <3>2. run[o].old # Nothing => l.session \in Sessions
      BY <2>1, <3>1 DEF RunRecord, Logins
    <3>3. Valid(l)' <=> Valid(run[o].old.login)'
      BY <1>1, <3>1
    <3>4. run[o].old # Nothing /\ run[o].pc \in Replacing => Valid(l) \/ l.session \in Lapsed
      BY <2>1, <3>1 DEF Guarded
    <3> QED BY <1>5, <3>1, <3>2, <3>3, <3>4
  <2>3. run[o].pc = "store" => Valid(run[o].hand)' \/ run[o].hand.session \in Lapsed
    <3>1. PICK l: l = run[o].hand
      OBVIOUS
    <3>2. run[o].pc = "store" => l.session \in Sessions
      BY <2>1, <3>1 DEF Local, Logins
    <3>3. Valid(l)' <=> Valid(run[o].hand)'
      BY <1>1, <3>1
    <3>4. run[o].pc = "store" => Valid(l) \/ l.session \in Lapsed
      BY <2>1, <3>1 DEF Guarded
    <3> QED BY <1>5, <3>1, <3>2, <3>3, <3>4
  <2>4. run[o].pc = "refreshing" /\ Answered(o)'
          => Valid(Renewal(run[o].hand))' \/ run[o].hand.session \in Lapsed
    <3>1. PICK l: l = Renewal(run[o].hand)
      OBVIOUS
    <3>2. run[o].pc = "refreshing" => l.session \in Sessions /\ l.session = run[o].hand.session
      BY <2>1, <3>1 DEF Local, Logins, Renewal
    <3>3. Valid(l)' <=> Valid(Renewal(run[o].hand))'
      BY <1>1, <3>1 DEF Renewal
    <3>4. run[o].pc = "refreshing" /\ Answered(o)' => Valid(l) \/ l.session \in Lapsed
      BY <1>1, <2>1, <3>1, <3>2 DEF Guarded
    <3> QED BY <1>5, <3>2, <3>3, <3>4
  <2>5. Unseen(o)'
    <3>1. Seen(o)' <=> Seen(o)
      BY <1>1 DEF Seen
    <3>2. run[o].pc = "polling" => (Answered(o)' <=> Answered(o))
      BY <1>1
    <3>3. /\ session[o].state = "none" => session'[o].state = "none"
          /\ session[o].state # "none" => session'[o].state # "none"
          /\ session'[o].gen = session[o].gen
      BY <1>3, <1>4, <2>1
    <3> QED BY <1>1, <2>1, <3>1, <3>2, <3>3 DEF Aware, Unseen
  <2>6. LoggedOut(o)'
    <3>1. PICK t: t = run[o].hand.session
      OBVIOUS
    <3>2. run[o].hand \in Logins => t \in Sessions
      BY <3>1 DEF Logins
    <3>3. Gone(t)' <=> Gone(run[o].hand.session)'
      BY <1>1, <3>1
    <3>4. o = p /\ run[o].pc = "logging out" => t = s
      BY <1>1, <1>2, <3>1 DEF Mind, Sent
    <3>5. o # p => (Answered(o)' <=> Answered(o))
      BY <1>1
    <3>6. Gone(t) <=> Gone(run[o].hand.session)
      BY <3>1
    <3> QED BY <1>1, <1>6, <1>7, <2>1, <3>2, <3>3, <3>4, <3>5, <3>6 DEF Aware, LoggedOut
  <2> QED BY <2>1, <2>2, <2>3, <2>4, <2>5, <2>6, StillAware
<1>9. CurrentSecret'
  <2> SUFFICES ASSUME NEW st \in Stores, secret'[st] \in Logins, secret'[st].session \notin Lapsed
               PROVE  Valid(secret[st])' \/ \E q \in Procs: Renewed(q, st)'
    BY <1>1 DEF CurrentSecret
  <2>1. PICK l \in Logins: l = secret[st] /\ l.session \in Sessions
    BY <1>1 DEF Logins
  <2>2. Valid(l) \/ \E q \in Procs: Renewed(q, st)
    BY <1>1, <2>1 DEF Accounted, CurrentSecret
  <2>3. \A q \in Procs: Renewed(q, st) => Renewed(q, st)'
    BY StillKeeps
  <2>4. Valid(l)' <=> Valid(secret[st])'
    BY <1>1, <2>1
  <2> QED BY <1>5, <2>1, <2>2, <2>3, <2>4
<1>10. AllKept'
  <2> SUFFICES ASSUME NEW l \in Logins, Current(l)', l.session \notin Lapsed
               PROVE  Saves(l)' \/ \E q \in Procs: Keeps(q, l)'
    BY <1>1 DEF AllKept
  <2>1. l.session \in Sessions
    BY DEF Logins
  <2>2. Current(l) /\ ~(known /\ l.session = s)
    BY <1>5, <2>1
  <2>3. Saves(l) \/ \E q \in Procs: Keeps(q, l)
    BY <2>2 DEF Accounted, AllKept
  <2>4. Saves(l) => Saves(l)'
    BY <1>1 DEF Saves
  <2>5. ASSUME Keeps(p, l), run[p].pc \in {"disowning", "revoking"} PROVE FALSE
    <3>1. CASE run[p].pc = "disowning"
      <4>1. l = run[p].hand /\ run[p].hand = login /\ plan[p].kind = "login"
        BY <1>1, <2>5, <3>1 DEF Keeps, Mind, Sent, Local, Replacing
      <4>2. login.session = p /\ wire[p].origin = plan[p].origin
        BY <1>1, <3>1, <4>1 DEF Mind, Signing
      <4>3. OriginOf(login.session) = wire[p].origin
        BY <1>1, <4>2 DEF OriginOf
      <4> QED BY <1>2, <2>2, <4>1, <4>3
    <3>2. CASE run[p].pc = "revoking"
      <4>1. l = run[p].old.login /\ run[p].old.login = login /\ run[p].old # Nothing
        BY <1>1, <2>5, <3>2 DEF Keeps, Mind, Sent, Local, Signing, Replacing
      <4>2. wire[p].origin = plan[p].origin
        BY <1>1, <3>2 DEF Mind
      <4>3. OriginOf(login.session) = wire[p].origin
        BY <1>1, <4>1, <4>2 DEF Aware, SameOrigin
      <4> QED BY <1>2, <2>2, <4>1, <4>3
    <3> QED BY <2>5, <3>1, <3>2
  <2> QED BY <2>3, <2>4, <2>5, StillKeeps
<1> QED BY <1>8, <1>9, <1>10, StillAccounted

LEMMA ServeAccounted ==
    ASSUME Inv, Reachable, Minded, Accounted, NEW p \in Procs, Serve(p)
    PROVE  Accounted'
<1>1. /\ Still(p) /\ wire[p].op \in {"issue", "refresh", "revoke"}
      /\ wire[p].op # "issue" => wire[p].login \in Logins
  BY ServeStill
<1>2. CASE wire[p].op = "issue"
  BY <1>2, IssueKeeps
<1>3. CASE wire[p].op # "issue"
  <2>1. PICK login \in Logins: login = wire[p].login
    BY <1>1, <1>3
  <2>2. PICK known \in BOOLEAN: known <=> Current(login) /\ OriginOf(login.session) = wire[p].origin
    OBVIOUS
  <2>3. wire[p] \in [op: {"refresh", "revoke"}, login: Logins, origin: Origins,
                     answer: {"none", "ok", "refused"}]
    BY <1>3, WireType DEF Serve
  <2>4. CASE /\ wire[p].op = "refresh" /\ known
             /\ session' = [session EXCEPT ![login.session].gen = @ + 1]
             /\ wire' = [wire EXCEPT ![p].answer = "ok"]
    <3>1. wire'[p].answer = "ok"
      BY <2>3, <2>4, WireType
    <3> QED BY <1>1, <2>1, <2>2, <2>4, <3>1, RenewKeeps
  <2>5. CASE wire[p].op = "refresh" /\ wire' = [wire EXCEPT ![p].answer = "refused"] /\ session' = session
    <3>1. wire'[p].answer = "refused"
      BY <2>3, <2>5, WireType
    <3> QED BY <1>1, <2>5, <3>1, RefuseKeeps
  <2>6. CASE /\ wire[p].op = "revoke"
             /\ session' = IF known THEN [session EXCEPT ![login.session].state = "revoked"] ELSE session
             /\ wire' = [wire EXCEPT ![p].answer = "ok"]
    <3>1. wire'[p].answer = "ok"
      BY <2>3, <2>6, WireType
    <3> QED BY <1>1, <2>1, <2>2, <2>6, <3>1, RevokeKeeps
  <2> QED BY <1>3, <2>1, <2>2, <2>4, <2>5, <2>6 DEF Serve
<1> QED BY <1>2, <1>3

-----------------------------------------------------------------------------
(* The invariant, and what it says *)

LEMMA AccountedInit == Init => Accounted
<1> SUFFICES ASSUME Init PROVE Accounted
  OBVIOUS
<1>1. /\ \A p \in Procs: /\ run[p].pc = "start" /\ run[p].old = Nothing /\ run[p].hand = Nothing
                         /\ run[p].result = "none" /\ wire[p] = Nothing
      /\ Nothing \notin Logins /\ First \notin Procs /\ ApiKey \notin Logins
  BY SecretsAreNotNothing, FirstIsNoProcess DEF Init, Secrets
<1>2. PICK a \in Accounts \cup {Nothing}:
        /\ a # Nothing => a.origin = IF a.kind = "login" THEN FirstOrigin ELSE DefaultOrigin
        /\ file = [account |-> a, profiles |-> {}]
        /\ secret = [s \in Stores |->
                        IF a = Nothing \/ s # a.store THEN Nothing
                        ELSE IF a.kind = "login" THEN FirstLogin ELSE ApiKey]
        /\ session = [s \in Sessions |->
                        [state |-> IF s = First /\ a # Nothing /\ a.kind = "login"
                                   THEN "live" ELSE "none",
                         gen |-> 0]]
  BY DEF Init
<1>3. /\ First \in Sessions /\ FirstLogin.session = First /\ FirstLogin.gen = 0
      /\ file.account = a
      /\ \A st \in Stores: secret[st] \in Logins =>
            secret[st] = FirstLogin /\ a # Nothing /\ st = a.store /\ a.kind = "login"
      /\ \A s \in Sessions: session[s].gen = 0
            /\ session[s].state = IF s = First /\ a # Nothing /\ a.kind = "login"
                                  THEN "live" ELSE "none"
  BY <1>1, <1>2 DEF FirstLogin, Sessions
<1>4. Elsewhere(FileStores)
  BY <1>3 DEF Elsewhere, FileStores
<1>5. ASSUME NEW p \in Procs PROVE Aware(p)
  <2>1. p \in Sessions /\ p # First
    BY <1>1 DEF Sessions
  <2>2. ~Seen(p)
    BY <1>1, <1>3, <2>1 DEF Seen
  <2>3. Guarded(p) /\ Loose(p) /\ SameOrigin(p) /\ LoggedOut(p)
    BY <1>1 DEF Guarded, Loose, SameOrigin, LoggedOut, Holding, Replacing, Removing
  <2>4. Unseen(p)
    BY <1>1, <1>3, <2>1, <2>2 DEF Unseen, Signing, Replacing
  <2> QED BY <2>3, <2>4 DEF Aware
<1>6. Kinded
  <2> SUFFICES ASSUME file.account # Nothing, secret[file.account.store] \in Logins
               PROVE  /\ file.account.kind = "login"
                      /\ OriginOf(secret[file.account.store].session) = file.account.origin
    BY DEF Kinded
  <2>1. a \in Accounts /\ a.store \in Stores
    BY <1>2, <1>3 DEF Accounts
  <2>2. secret[a.store] = FirstLogin /\ a.kind = "login" /\ a.origin = FirstOrigin
    BY <1>2, <1>3, <2>1
  <2> QED BY <1>3, <2>2 DEF OriginOf
<1>7. CurrentSecret
  BY <1>3 DEF CurrentSecret, Valid, Live
<1>8. AllKept
  <2> SUFFICES ASSUME NEW login \in Logins, Current(login) PROVE Saves(login)
    BY DEF AllKept
  <2>1. login.session = First /\ a # Nothing /\ a.kind = "login" /\ login.gen = 0
    BY <1>3 DEF Current, Live, Logins
  <2>2. login = FirstLogin
    BY <2>1 DEF FirstLogin, Logins
  <2>3. a.store \in Stores
    BY <1>2, <2>1 DEF Accounts
  <2> QED BY <1>2, <1>3, <2>1, <2>2, <2>3 DEF Saves
<1> QED BY <1>4, <1>5, <1>6, <1>7, <1>8 DEF Accounted, Told

\* Nothing that a session is accounted for by changes.
LEMMA AccountedSame ==
    ASSUME Accounted, UNCHANGED <<plan, run, lock, file, secret, session, wire, Lapsed>>
    PROVE  Accounted'
<1>1. ASSUME NEW p \in Procs PROVE Aware(p)'
  <2>1. /\ Moves(p)' = Moves(p) /\ NewSecret(p)' = NewSecret(p) /\ (Answered(p)' <=> Answered(p))
        /\ Touched(p)' = Touched(p) /\ FormerStores(p)' = FormerStores(p) /\ FileStores' = FileStores
    BY DEF Moves, NewSecret, Answered, Touched, FormerStores, FileStores
  <2>2. Aware(p) /\ Guarded(p)
    BY DEF Accounted, Aware
  <2>3. Guarded(p)'
    <3>1. /\ Elsewhere(FileStores) => Elsewhere(FileStores)'
          /\ Elsewhere(Touched(p)) => Elsewhere(Touched(p))'
          /\ Elsewhere(FormerStores(p)) => Elsewhere(FormerStores(p))'
          /\ Elsewhere({}) => Elsewhere({})'
          /\ Mine(p) => Mine(p)'
      BY <2>1 DEF Elsewhere, Mine
    <3>2. /\ run'[p].pc \in Holding \ Between => Elsewhere(FileStores)'
          /\ run'[p].pc \in {"save", "undo", "discard"} => Elsewhere(Touched(p))'
          /\ run'[p].pc \in {"putback", "resave"} => Elsewhere(FormerStores(p))'
          /\ run'[p].pc = "forget" => Elsewhere({})'
          /\ run'[p].pc \in {"save", "undo", "discard", "putback", "resave"} => Mine(p)'
      BY <2>2, <3>1 DEF Guarded
    <3>3. /\ run'[p].old # Nothing /\ run'[p].pc \in Replacing
               => Valid(run[p].old.login)' \/ run'[p].old.login.session \in Lapsed'
          /\ run'[p].pc = "refreshing" /\ Answered(p)'
               => Valid(Renewal(run[p].hand))' \/ run'[p].hand.session \in Lapsed'
          /\ run'[p].pc = "store" => Valid(run[p].hand)' \/ run'[p].hand.session \in Lapsed'
      BY <2>1, <2>2 DEF Guarded, Valid, Live, Renewal
    <3> QED BY <2>1, <2>2, <3>2, <3>3 DEF Guarded
  <2>4. Loose(p)' /\ SameOrigin(p)'
    BY <2>2 DEF Aware, Loose, SameOrigin, OriginOf
  <2>5. Unseen(p)'
    <3>1. Seen(p)' <=> Seen(p)
      BY DEF Seen
    <3> QED BY <2>1, <2>2, <3>1 DEF Aware, Unseen
  <2>6. LoggedOut(p)'
    BY <2>1, <2>2 DEF Aware, LoggedOut, Gone
  <2> QED BY <2>3, <2>4, <2>5, <2>6 DEF Aware
<1>2. Told' /\ Kinded'
  BY DEF Accounted, Told, Elsewhere, FileStores, Kinded, OriginOf
<1>3. CurrentSecret' /\ AllKept'
  BY DEF Accounted, CurrentSecret, Valid, Live, Renewed, AllKept, Current, Saves, Keeps, Answered, Renewal
<1> QED BY <1>1, <1>2, <1>3 DEF Accounted

LEMMA AccountedStep == Inv /\ Inv' /\ Reachable /\ Minded /\ Accounted /\ [Next]_vars => Accounted'
<1> SUFFICES ASSUME Inv, Inv', Reachable, Minded, Accounted, [Next]_vars PROVE Accounted'
  OBVIOUS
<1>1. ASSUME NEW p \in Procs,
             Open(p) \/ Step(p) \/ Reauthorize(p) \/ Interrupt(p) \/ Kill(p)
      PROVE  Accounted'
  <2>1. Alone(p) /\ session' = session /\ Lapsed \subseteq Lapsed' /\ Core(p)
    BY <1>1, StepAlone
  <2>2. Mind(p)
    BY DEF Minded
  <2>3. Careful(p)
    BY <1>1, <2>1, <2>2, UseCareful, LockCareful, RereadCareful, RefreshedCareful,
       StoreRefreshedCareful, LoginCareful, DisownCareful, TakeCareful, WriteSecretCareful,
       SaveAccountCareful, DiscardCareful, SavedCareful, UndoCareful, PutBackCareful,
       ResaveCareful, LogoutCareful, RemoveCareful, ForgetCareful, CreateProfileCareful,
       InterruptCareful, KillCareful
    DEF Step
  <2> QED BY <2>1, <2>3, CarefulKeeps
<1>2. ASSUME NEW p \in Procs, Serve(p) PROVE Accounted'
  BY <1>2, ServeAccounted
<1>3. (\E login \in Logins: Expire(login)) \/ UNCHANGED vars
        => UNCHANGED <<plan, run, lock, file, secret, session, wire, Lapsed>>
  BY DEF Expire, vars, disk, server, history, Lapsed
<1> QED BY <1>1, <1>2, <1>3, AccountedSame DEF Next

LEMMA AccountedAlways == Spec => []Accounted
BY Invariance, ReachableAlways, MindedAlways, AccountedInit, AccountedStep, PTL DEF Spec

\* No login that the auth service still takes is ever left behind in silence: it is where the
\* next command finds it, in the hands of a running process, or a person was told of it
\* (login's and save_login's comments on orphaned sessions).  One way to lose a session in
\* silence is left, and the property names it: Ctrl-C in a watch's refresh (`unsaid`).
THEOREM NoneOrphaned == Spec => []NoSilentOrphan
<1>1. Inv /\ Accounted => NoSilentOrphan
  <2> SUFFICES ASSUME Inv, Accounted, NEW s \in Sessions, Live(s), s \notin Lapsed,
                      ~Saves([session |-> s, gen |-> session[s].gen])
               PROVE  \E p \in Procs: Running(p) /\ s \in InHand(p) \cup {p}
    BY DEF NoSilentOrphan, Lapsed
  <2>1. PICK login \in Logins: login = [session |-> s, gen |-> session[s].gen]
    BY OutsideHere DEF Outside, Logins
  <2>2. login.session = s /\ Current(login)
    BY <2>1 DEF Current
  <2>3. PICK p \in Procs: Keeps(p, login)
    BY <2>1, <2>2 DEF Accounted, AllKept
  <2>4. run[p].pc \notin {"start", "over", "dead"}
    BY <2>3 DEF Keeps, Signing, Replacing
  <2>5. run[p].pc \in {"refreshing"} => run[p].hand \in Logins
    BY Here DEF Local
  <2>6. s \in InHand(p) \cup {p}
    <3>1. CASE run[p].pc = "refreshing" /\ login = Renewal(run[p].hand)
      BY <2>2, <2>5, <3>1 DEF InHand, Renewal, Logins
    <3>2. CASE login = run[p].hand
      BY <2>1, <2>2, <3>2 DEF InHand
    <3>3. CASE login = [session |-> p, gen |-> 0]
      BY <2>2, <3>3
    <3>4. CASE run[p].old # Nothing /\ login = run[p].old.login
      BY <2>2, <3>4 DEF InHand
    <3>5. run[p].pc = "revoking" => run[p].old # Nothing
      BY Here DEF Local
    <3> QED BY <2>3, <3>1, <3>2, <3>3, <3>4, <3>5 DEF Keeps
  <2> QED BY <2>4, <2>6 DEF Running
<1> QED BY <1>1, Invariance, AccountedAlways, PTL

\* A logout that reports success leaves no session alive that nobody was told about: it
\* revoked the current login of the saved session, whoever refreshed it before (logout); but
\* a refresh that a stopped watch gave up may be served late, and leave it a spent token.
THEOREM LogoutsRevoke == Spec => []LogoutRevokes
<1>1. Accounted => LogoutRevokes
  BY DEF Accounted, Aware, LoggedOut, Gone, Live, LogoutRevokes, Lapsed
<1> QED BY <1>1, AccountedAlways, PTL

\* A save that fails without a hint leaves the account as it was, and its secret or none
\* (put_account and restore): either write may have failed after it took effect.
THEOREM FailedSavesRestore == Spec => FailedSaveRestores
<1>1. Inv /\ Reachable /\ Minded /\ Accounted /\ [Next]_vars =>
        [\A p \in Procs:
            run[p].pc = "resave" /\ run'[p].pc \in {"disown", "over"} /\ ~run'[p].hint
              => Restored(p)]_vars
  <2> SUFFICES ASSUME Inv, Reachable, Minded, Accounted, Next, NEW p \in Procs,
                      run[p].pc = "resave", run'[p].pc \in {"disown", "over"}, ~run'[p].hint
               PROVE  Restored(p)
    OBVIOUS
  <2>1. Resave(p)
    <3>1. PICK q \in Procs:
            Open(q) \/ Step(q) \/ Reauthorize(q) \/ Interrupt(q) \/ Kill(q) \/ Serve(q)
      BY DEF Next, Expire
    <3>2. q = p
      BY <3>1, StepAlone DEF Serve, Alone
    <3>3. run'[p].pc # "dead"
      OBVIOUS
    <3>4. ~Kill(p)
      BY <3>3, Here DEF Kill, RunRecord
    <3> QED
      BY <3>1, <3>2, <3>4
      DEF Open, Step, Reauthorize, Interrupt, Awaits, Serve, Read, Lock, Reread, Refreshed,
          StoreRefreshed, Exchange, CheckName, AskGrant, Polled, Identify, Take, WriteSecret,
          SaveAccount, Discard, Saved, Undo, PutBack, Disown, Revoked, Logout, LogoutRevoked,
          Remove, Forget, CreateProfile
  <2>2. /\ run[p] \in RunRecord /\ run \in [Procs -> RunRecord] /\ Local(plan[p].kind, run[p])
        /\ Stored(p) /\ Mind(p) /\ Guarded(p)
    BY Here DEF Reachable, Minded, Accounted, Aware
  <2>3. /\ file' = run[p].mem \/ file' = file
        /\ StoreOf(file') = StoreOf(run[p].mem)
        /\ ~run[p].hint
    <3>1. PICK lost \in BOOLEAN:
            /\ ~lost => StoreOf(file') = StoreOf(run[p].mem)
            /\ run' = [run EXCEPT ![p].hint = lost \/ run[p].hint,
                                  ![p].pc = IF plan[p].kind = "login" THEN "disown" ELSE "over",
                                  ![p].result = IF plan[p].kind = "login" THEN @ ELSE "not saved"]
      BY <2>1 DEF Resave
    <3>2. run'[p].hint = (lost \/ run[p].hint)
      BY <2>2, <3>1 DEF RunRecord
    <3>3. ~lost /\ ~run[p].hint
      BY <3>2
    <3> QED BY <2>1, <3>1, <3>3 DEF Resave, ConfigWrite
  <2>4. /\ run[p].mem.account = Former(p) /\ file.account \in {Former(p), run[p].entry}
        /\ Reached(FormerStores(p)) /\ run[p].entry \in Accounts /\ run[p].entry.store \in Stores
    BY <2>2 DEF Stored, Local, Replacing, Accounts
  <2>5. CASE run[p].old = Nothing
    <3>1. file'.account = Nothing
      <4>1. StoreOf(file') = Nothing
        BY <2>3, <2>4, <2>5 DEF StoreOf, Former
      <4>2. run[p].entry # Nothing /\ run[p].entry.store # Nothing
        BY <2>4, NothingIsApart
      <4> QED BY <2>3, <2>4, <2>5, <4>1, <4>2 DEF StoreOf, Former
    <3>2. secret[run[p].entry.store] = Nothing \/ run[p].entry.store \in leftover
      BY <2>4, <2>5 DEF Reached, FormerStores
    <3> QED BY <2>5, <3>1, <3>2 DEF Restored
  <2>6. CASE run[p].old # Nothing
    <3>1. secret[run[p].old.account.store] = run[p].old.login
      BY <2>2, <2>3, <2>6 DEF Guarded
    <3>2. PICK a \in Accounts: a = run[p].old.account
      BY <2>2, <2>6 DEF RunRecord
    <3>3. PICK e \in Accounts: e = run[p].entry
      BY <2>4
    <3>4. a.kind = e.kind /\ a.origin = e.origin /\ Former(p) = a /\ a # Nothing /\ e # Nothing
      BY <2>2, <2>6, <3>2, <3>3, NothingIsApart DEF Mind, LoginAt, Former, Replacing
    <3>5. e.store = a.store => e = a
      BY <3>4 DEF Accounts
    <3>6. file'.account = a
      BY <2>3, <2>4, <3>3, <3>4, <3>5 DEF StoreOf
    <3> QED BY <2>6, <3>1, <3>2, <3>6 DEF Restored
  <2> QED BY <2>5, <2>6
<1> QED
  BY <1>1, Invariance, ReachableAlways, MindedAlways, AccountedAlways, PTL
  DEF Spec, FailedSaveRestores

=============================================================================
