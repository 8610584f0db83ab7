------------------------------ MODULE AppAccess ------------------------------
(***************************************************************************)
(* Who may operate the program: the operator's password in its two files   *)
(* (app/auth.py), the operator sessions signed with the stored secret, the *)
(* pause after repeated wrong passwords, and the pairing codes and         *)
(* sessions of the service leader's phone (app/service_leader_auth.py),    *)
(* together with the handlers of app/main.py that use them and the         *)
(* desktop's password reset (recovery.rs).                                 *)
(*                                                                         *)
(* Handlers run on the event loop; the sign-in check of a handler          *)
(* (require_operator) runs before it in a worker thread, so a request is   *)
(* two steps, Authorise and its handling, with others in between.  The     *)
(* program may die between the write of the first file and of the spare.   *)
(* Time is counted in ticks: a field that holds a deadline in the code is  *)
(* held here as the ticks left to it.                                      *)
(***************************************************************************)
EXTENDS Integers, FiniteSets, FiniteSetsExt, Functions

CONSTANTS
    Passwords,            \* what may be typed
    NoPassword,           \* no password hash in a store
    EnvPassword,          \* OPERATOR_PASSWORD, or NoPassword
    Missing, Corrupt,     \* a file that is not there, or cannot be read
    LoginKeys,            \* throttle_key: the sign-in form at an address
    PairingKeys,          \* throttle_key: the pairing form of this computer
    FreeAttempts,         \* free_attempts
    LongestDelay,         \* maximum_delay_seconds
    Observation,          \* observation_seconds
    MaxEntries,           \* max_entries
    PairingTTL,           \* PAIRING_TTL_SECONDS
    SessionAge,           \* SESSION_MAX_AGE_SECONDS
    IdleTimeout,          \* SESSION_IDLE_TIMEOUT_SECONDS
    MostFailures,         \* failures counted: the delay grows no further
    MaxSecrets, MaxCodes, MaxSessions, MaxLosses   \* bounds of the model

ASSUME AccessAssumption ==
    /\ NoPassword \notin Passwords
    /\ EnvPassword \in Passwords \cup {NoPassword}
    /\ Missing # Corrupt
    /\ {Missing, Corrupt}
         \cap [password : Passwords \cup {NoPassword}, secret : Nat] = {}
    /\ {FreeAttempts, LongestDelay, MaxEntries, PairingTTL, SessionAge,
        IdleTimeout} \subseteq Nat \ {0}
    /\ Observation \in Nat /\ Observation > LongestDelay
    /\ MostFailures \in Nat /\ MostFailures >= FreeAttempts
    /\ 2 ^ (MostFailures - FreeAttempts + 1) >= LongestDelay
    /\ {MaxSecrets, MaxCodes, MaxSessions, MaxLosses} \subseteq Nat

VARIABLES
    engine,        \* "up" or "down"
    primary,       \* operator_auth.json
    backup,        \* operator_auth.backup.json
    pending,       \* the store a save has still to write to the spare
    secrets,       \* session secrets drawn so far: names the next one
    cookies,       \* secrets that some browser holds a session signed with
    inflight,      \* requests whose sign-in was accepted, handler not run
    throttle,      \* AuthenticationThrottle._entries
    issued,        \* pairing codes made so far: names the next one
    pairings,      \* ServiceLeaderAccessManager._pairings
    sessions,      \* ServiceLeaderAccessManager._sessions
    opened,        \* sessions opened so far: names the next one
    reset,         \* "none", or "primary": the reset has still to remove it
    losses,        \* files lost so far
    current,       \* history: the store the operator last established
    closed         \* history: codes that were used, replaced or ended

files == <<primary, backup, pending, secrets, current>>
leader == <<issued, pairings, sessions, opened, closed>>
vars == <<engine, files, cookies, inflight, throttle, leader, reset, losses>>

Empty == [password |-> NoPassword, secret |-> 0]
NoSave == Empty

Stores == [password : Passwords \cup {NoPassword}, secret : 0 .. MaxSecrets]
Complete(store) == store.password # NoPassword /\ store.secret # 0

AccessTypeOK ==
    /\ engine \in {"up", "down"}
    /\ {primary, backup} \subseteq Stores \cup {Missing, Corrupt}
    /\ {pending, current} \subseteq Stores
    /\ secrets \in 0 .. MaxSecrets
    /\ cookies \subseteq 1 .. MaxSecrets
    /\ inflight \subseteq
         [request : {"pairing", "cancel", "revoke", "password"},
          secret : 1 .. MaxSecrets]
    /\ DOMAIN throttle \subseteq LoginKeys \cup PairingKeys
    /\ \A k \in DOMAIN throttle :
         throttle[k] \in [failures : 1 .. MostFailures,
                          quiet : 0 .. Observation + 1,
                          blocked : 0 .. LongestDelay]
    /\ Cardinality(DOMAIN throttle) <= MaxEntries
    /\ issued \in 0 .. MaxCodes
    /\ pairings \subseteq [code : 1 .. MaxCodes, left : -1 .. PairingTTL]
    /\ opened \in 0 .. MaxSessions
    /\ sessions \subseteq
         [number : 1 .. MaxSessions, code : 1 .. MaxCodes,
          age : 0 .. SessionAge + 1, left : -1 .. SessionAge,
          idle : 0 .. IdleTimeout + 1]
    /\ reset \in {"none", "primary"}
    /\ losses \in 0 .. MaxLosses
    /\ closed \subseteq 1 .. MaxCodes

-----------------------------------------------------------------------------
(* Requests are served: the program is up and no save holds the loop.      *)
Serving == engine = "up" /\ pending = NoSave

(* The store of the operator's password, app/auth.py.                      *)

Read(file) == IF file \in {Missing, Corrupt} THEN Empty ELSE file

PrimaryLost == /\ Read(primary).password = NoPassword
               /\ Read(backup).password # NoPassword

(* _load_store: what is read, and the first file after it was read.        *)
Loaded == IF PrimaryLost THEN Read(backup) ELSE Read(primary)
Restored == IF PrimaryLost THEN backup ELSE primary

NeedsSetup == Loaded.password = NoPassword /\ EnvPassword = NoPassword

PasswordIsValid(p) ==
    IF Loaded.password # NoPassword THEN p = Loaded.password
    ELSE EnvPassword # NoPassword /\ p = EnvPassword

(* Mutant of SaveStore: the spare is written first.                        *)
SpareFirst(store) ==
    /\ backup' = IF Complete(store) THEN store ELSE backup
    /\ pending' = NoSave
    /\ current' = store
    /\ UNCHANGED primary

(* _save_store: the first file, then, if the store is whole, the spare.    *)
SaveStore(store) ==
    /\ primary' = store
    /\ pending' = IF Complete(store) THEN store ELSE NoSave
    /\ current' = store
    /\ UNCHANGED backup

WriteBackup ==
    /\ engine = "up" /\ pending # NoSave
    /\ backup' = pending
    /\ pending' = NoSave
    /\ UNCHANGED <<engine, primary, secrets, current, cookies, inflight,
                   throttle, leader, reset, losses>>

(* Mutant of Bootstrap: a missing spare is not written again.              *)
BootstrapNoSpare ==
    LET fresh == Loaded.secret = 0
        store == [Loaded EXCEPT !.secret = IF fresh THEN secrets + 1 ELSE @]
    IN  /\ fresh => secrets < MaxSecrets
        /\ secrets' = IF fresh THEN secrets + 1 ELSE secrets
        /\ IF fresh
           THEN SaveStore(store)
           ELSE /\ primary' = Restored
                /\ UNCHANGED <<backup, pending, current>>

(* bootstrap_auth_store, when the program starts.                          *)
Bootstrap ==
    LET fresh == Loaded.secret = 0
        store == [password |-> IF Loaded.password # NoPassword
                               THEN Loaded.password ELSE EnvPassword,
                  secret |-> IF fresh THEN secrets + 1 ELSE Loaded.secret]
    IN  /\ fresh => secrets < MaxSecrets
        /\ secrets' = IF fresh THEN secrets + 1 ELSE secrets
        /\ IF store # Loaded \/ (backup = Missing /\ Complete(store))
           THEN SaveStore(store)
           ELSE /\ primary' = Restored
                /\ UNCHANGED <<backup, pending, current>>

Start ==
    /\ engine = "down" /\ reset = "none"
    /\ engine' = "up"
    /\ Bootstrap
    /\ UNCHANGED <<cookies, inflight, throttle, leader, reset, losses>>

(* The process ends; what it held in memory is gone.                       *)
Stop ==
    /\ engine = "up"
    /\ engine' = "down"
    /\ pending' = NoSave
    /\ inflight' = {} /\ throttle' = << >>
    /\ pairings' = {} /\ sessions' = {}
    /\ closed' = 1 .. issued
    /\ UNCHANGED <<primary, backup, secrets, current, cookies, issued, opened,
                   reset, losses>>

(* A file is damaged or disappears while the program runs.                 *)
Lose(left) ==
    /\ Serving /\ losses < MaxLosses
    /\ losses' = losses + 1
    /\ \/ primary' = left /\ UNCHANGED backup
       \/ backup' = left /\ UNCHANGED primary
    /\ UNCHANGED <<engine, pending, secrets, current, cookies, inflight,
                   throttle, leader, reset>>

-----------------------------------------------------------------------------
(* The pause after wrong passwords, AuthenticationThrottle.                *)

Younger(entries) ==
    [k \in {j \in DOMAIN entries : entries[j].quiet <= Observation}
       |-> entries[k]]

Blocked(k) ==
    k \in DOMAIN Younger(throttle) /\ throttle[k].blocked > 0

Delay(failures) ==
    IF failures < FreeAttempts THEN 0
    ELSE Min({LongestDelay, 2 ^ (failures - FreeAttempts + 1)})

(* record_failure: the entry heard of longest ago makes room for a new one. *)
RecordFailure(k) ==
    LET young == Younger(throttle)
        full == k \notin DOMAIN young
                /\ Cardinality(DOMAIN young) >= MaxEntries
        failures == Min({MostFailures, IF k \in DOMAIN young
                                       THEN young[k].failures + 1 ELSE 1})
        entry == [failures |-> failures, quiet |-> 0,
                  blocked |-> IF failures < FreeAttempts
                              THEN IF k \in DOMAIN young
                                   THEN young[k].blocked ELSE 0
                              ELSE Delay(failures)]
    IN  \E gone \in IF full
                    THEN {{j} : j \in {i \in DOMAIN young :
                            \A o \in DOMAIN young :
                                young[i].quiet >= young[o].quiet}}
                    ELSE {{}} :
            throttle' = [j \in (DOMAIN young \ gone) \cup {k}
                           |-> IF j = k THEN entry ELSE young[j]]

ResetEntry(k) ==
    throttle' = Restrict(Younger(throttle), DOMAIN Younger(throttle) \ {k})

-----------------------------------------------------------------------------
(* The operator's forms and requests, app/main.py.                         *)

SetPassword(p) ==
    /\ secrets < MaxSecrets
    /\ secrets' = secrets + 1
    /\ SaveStore([password |-> p, secret |-> secrets + 1])

Setup(p) ==
    /\ Serving /\ NeedsSetup
    /\ SetPassword(p)
    /\ UNCHANGED <<engine, cookies, inflight, throttle, leader, reset, losses>>

Login(k, p) ==
    /\ Serving /\ ~Blocked(k)
    /\ primary' = Restored
    /\ IF PasswordIsValid(p)
       THEN /\ ResetEntry(k)
            /\ cookies' = (cookies \cup {Loaded.secret}) \ {0}
       ELSE RecordFailure(k) /\ UNCHANGED cookies
    /\ UNCHANGED <<engine, backup, pending, secrets, current, inflight, leader,
                   reset, losses>>

(* verify_session_token, and verify_operator_csrf_token of a form that     *)
(* changes something: both are signed with the stored secret.              *)
SignedBy(s) == s # 0 /\ s = Loaded.secret

(* require_operator: the cookie is checked in a worker thread.             *)
Authorise(request, s) ==
    /\ Serving /\ ~NeedsSetup
    /\ s \in cookies /\ SignedBy(s)
    /\ inflight = {}
    /\ primary' = Restored
    /\ inflight' = {[request |-> request, secret |-> s]}
    /\ UNCHANGED <<engine, backup, pending, secrets, current, cookies,
                   throttle, leader, reset, losses>>

(* The history of the codes that are not to be honoured again.             *)
Close(codes) == closed' = closed \cup codes
RevokeAll == pairings' = {} /\ sessions' = {} /\ Close(1 .. issued)

(* change_operator_password: the request token is checked again here.      *)
ChangePassword(r, old, new) ==
    /\ Serving /\ r \in inflight /\ r.request = "password"
    /\ inflight' = inflight \ {r}
    /\ IF SignedBy(r.secret) /\ PasswordIsValid(old)
       THEN SetPassword(new) /\ RevokeAll
       ELSE /\ primary' = Restored
            /\ UNCHANGED <<backup, pending, secrets, current, pairings,
                           sessions, closed>>
    /\ UNCHANGED <<engine, cookies, throttle, issued, opened, reset, losses>>

-----------------------------------------------------------------------------
(* Pairing codes and the service leader's sessions.                        *)

AlivePairings == {p \in pairings : p.left >= 0}
(* Mutant of AliveSessions: the age of a session is not looked at.         *)
AgelessSessions == {s \in sessions : s.idle <= IdleTimeout}

AliveSessions == {s \in sessions : s.left >= 0 /\ s.idle <= IdleTimeout}

(* Mutant of CreatePairing: the older codes stay.                          *)
AddPairing ==
    /\ issued < MaxCodes
    /\ issued' = issued + 1
    /\ pairings' = AlivePairings
                   \cup {[code |-> issued + 1, left |-> PairingTTL]}
    /\ sessions' = AliveSessions
    /\ Close(1 .. issued)
    /\ UNCHANGED opened

(* create_pairing: a new code replaces the older ones.                     *)
CreatePairing ==
    /\ issued < MaxCodes
    /\ issued' = issued + 1
    /\ pairings' = {[code |-> issued + 1, left |-> PairingTTL]}
    /\ sessions' = AliveSessions
    /\ Close(1 .. issued)
    /\ UNCHANGED opened

PairByPassword(k, p) ==
    /\ Serving /\ ~Blocked(k)
    /\ primary' = Restored
    /\ IF PasswordIsValid(p)
       THEN ResetEntry(k) /\ CreatePairing
       ELSE RecordFailure(k) /\ UNCHANGED leader
    /\ UNCHANGED <<engine, backup, pending, secrets, current, cookies,
                   inflight, reset, losses>>

(* The handlers of the operator's page, for a request accepted before.     *)
Handle(r) ==
    /\ Serving /\ r \in inflight
    /\ inflight' = inflight \ {r}
    /\ \/ r.request = "pairing" /\ CreatePairing
       \/ /\ r.request = "cancel"
          /\ pairings' = {}
          /\ Close(1 .. issued)
          /\ UNCHANGED <<issued, sessions, opened>>
       \/ /\ r.request = "revoke"
          /\ RevokeAll
          /\ UNCHANGED <<issued, opened>>
    /\ UNCHANGED <<engine, files, cookies, throttle, reset, losses>>

(* exchange_pairing: a code that is alive is taken and opens a session.    *)
Exchange(code) ==
    /\ Serving /\ opened < MaxSessions
    /\ \E p \in AlivePairings :
         /\ p.code = code
         /\ pairings' = AlivePairings \ {p}
    /\ opened' = opened + 1
    /\ sessions' = AliveSessions \cup
         {[number |-> opened + 1, code |-> code, age |-> 0,
           left |-> SessionAge, idle |-> 0]}
    /\ Close({code})
    /\ UNCHANGED <<engine, files, cookies, inflight, throttle, issued, reset,
                   losses>>

(* verify_session with touch, and extend_session.                          *)
LeaderRequest(s) ==
    /\ Serving /\ s \in AliveSessions
    /\ sessions' = (AliveSessions \ {s}) \cup {[s EXCEPT !.idle = 0]}
    /\ pairings' = AlivePairings
    /\ UNCHANGED <<engine, files, cookies, inflight, throttle, issued, opened,
                   closed, reset, losses>>

LeaderLogout(s) ==
    /\ Serving /\ s \in AliveSessions
    /\ sessions' = AliveSessions \ {s}
    /\ pairings' = AlivePairings
    /\ UNCHANGED <<engine, files, cookies, inflight, throttle, issued, opened,
                   closed, reset, losses>>

-----------------------------------------------------------------------------
(* The desktop's password reset, with the program stopped.                 *)

ResetBackup ==
    /\ engine = "down" /\ reset = "none"
    /\ backup' = Missing
    /\ reset' = "primary"
    /\ UNCHANGED <<engine, primary, pending, secrets, current, cookies,
                   inflight, throttle, leader, losses>>

ResetPrimary ==
    /\ reset = "primary"
    /\ primary' = Missing
    /\ reset' = "none"
    /\ current' = Empty
    /\ UNCHANGED <<engine, backup, pending, secrets, cookies, inflight,
                   throttle, leader, losses>>

(* A file cannot be removed: the reset ends with an error.                 *)
ResetFails ==
    /\ reset = "primary"
    /\ reset' = "none"
    /\ UNCHANGED <<engine, files, cookies, inflight, throttle, leader, losses>>

-----------------------------------------------------------------------------
Older(n, limit) == Min({n + 1, limit})

(* A unit of time goes by.                                                 *)
Tick ==
    /\ engine = "up"
    /\ throttle' = [k \in DOMAIN throttle |->
         [throttle[k] EXCEPT !.quiet = Older(@, Observation + 1),
                             !.blocked = Max({0, @ - 1})]]
    /\ pairings' = {[p EXCEPT !.left = Max({-1, @ - 1})] : p \in pairings}
    /\ sessions' = {[s EXCEPT !.age = Older(@, SessionAge + 1),
                              !.left = Max({-1, @ - 1}),
                              !.idle = Older(@, IdleTimeout + 1)]
                      : s \in sessions}
    /\ Close({p.code : p \in {q \in pairings : q.left <= 0}})
    /\ UNCHANGED <<engine, files, cookies, inflight, issued, opened, reset,
                   losses>>

Init ==
    /\ engine = "down"
    /\ primary = Missing /\ backup = Missing /\ pending = NoSave
    /\ secrets = 0 /\ cookies = {} /\ inflight = {}
    /\ throttle = << >>
    /\ issued = 0 /\ pairings = {} /\ sessions = {} /\ opened = 0
    /\ reset = "none" /\ losses = 0
    /\ current = Empty /\ closed = {}

Next ==
    \/ Start \/ Stop \/ WriteBackup \/ Tick
    \/ \E left \in {Missing, Corrupt} : Lose(left)
    \/ \E p \in Passwords :
         \/ Setup(p)
         \/ \E k \in LoginKeys : Login(k, p)
         \/ \E k \in PairingKeys : PairByPassword(k, p)
    \/ \E request \in {"pairing", "cancel", "revoke", "password"},
          s \in cookies : Authorise(request, s)
    \/ \E r \in inflight :
         \/ Handle(r)
         \/ \E old, new \in Passwords : ChangePassword(r, old, new)
    \/ \E code \in 1 .. issued : Exchange(code)
    \/ \E s \in sessions : LeaderRequest(s) \/ LeaderLogout(s)
    \/ ResetBackup \/ ResetPrimary \/ ResetFails

(* The clock goes on while the program runs.                               *)
Spec == Init /\ [][Next]_vars /\ WF_vars(Tick)

-----------------------------------------------------------------------------
(* The password and the session secret the program would read are the ones *)
(* the operator last established, whatever was interrupted: a save between *)
(* its two files, a start, a reset that could not remove both files.       *)
PasswordKept == losses = 0 => Loaded = current

(* While the program serves, the loss of either file does not bring the    *)
(* first-start page back to an operator who had set a password.            *)
LossSurvived ==
    (Serving /\ losses <= 1 /\ current.password # NoPassword)
        => Loaded.password # NoPassword

(* A session of the service leader is opened only with a code that was not *)
(* used, replaced, cancelled, revoked or timed out before, though several  *)
(* codes were shown and requests of the operator arrive in between.        *)
CodesOpenOnce ==
    [][\A s \in sessions' :
         (\A t \in sessions : t.number # s.number) => s.code \notin closed]_vars

(* No request of a leader is honoured beyond the session's full age or its *)
(* idle limit, however often the session was extended.                     *)
SessionsEnd ==
    [][\A s \in sessions, t \in sessions' :
         (s.number = t.number /\ t.idle < s.idle)
            => s.age <= SessionAge /\ s.idle <= IdleTimeout]_vars

=============================================================================
