-------------------------- MODULE AppAccessProofs --------------------------
(***************************************************************************)
(* Proofs about AppAccess, for any passwords, keys, limits and bounds.     *)
(***************************************************************************)
EXTENDS AppAccess, FiniteSetTheorems, TLAPS

HasPassword(file) == Read(file).password # NoPassword

(* Who may do what while a save, or the desktop's reset, is half done.     *)
PhaseInv ==
    /\ engine \in {"up", "down"}
    /\ engine = "down" => pending = NoSave
    /\ reset \in {"none", "primary"}
    /\ reset = "primary" => engine = "down" /\ backup = Missing
    /\ pending # NoSave => primary = pending /\ Complete(pending)

(* What the files can hold: the spare only whole stores, and the first     *)
(* file a store without a password only when the operator has none.        *)
FileInv ==
    /\ {primary, backup} \subseteq Stores \cup {Missing, Corrupt}
    /\ {pending, current} \subseteq Stores
    /\ secrets \in 0 .. MaxSecrets
    /\ losses \in Nat
    /\ backup \in Stores => Complete(backup)
    /\ primary \in Stores /\ primary.password = NoPassword
         => current = primary

(* Without a loss the first file is what was established, and the spare    *)
(* holds no password the operator does not have.                           *)
NoLossInv ==
    losses = 0 =>
      /\ Corrupt \notin {primary, backup}
      /\ Read(primary) = current
      /\ ~HasPassword(primary) => ~HasPassword(backup)

(* Of the two files of an operator with a password, one loss leaves one.   *)
SpareInv ==
    Serving /\ current.password # NoPassword =>
      /\ losses = 0 => HasPassword(primary) /\ HasPassword(backup)
      /\ losses = 1 => HasPassword(primary) \/ HasPassword(backup)

StoreInv == PhaseInv /\ FileInv /\ NoLossInv /\ SpareInv

(* One code at most is shown, and as long as it lives it is not closed.    *)
CodeInv ==
    /\ issued \in Nat /\ closed \subseteq 1 .. issued
    /\ pairings \subseteq [code : 1 .. issued, left : Int]
    /\ \A p, q \in pairings : p = q
    /\ \A p \in pairings : p.left >= 0 => p.code \notin closed

(* Sessions are told apart by their numbers; what a session has left is    *)
(* what its age has not used up.                                           *)
LeaderInv ==
    /\ opened \in Nat
    /\ sessions \subseteq [number : 1 .. opened, code : Nat, age : Nat,
                           left : Int, idle : 0 .. IdleTimeout + 1]
    /\ \A s, t \in sessions : s.number = t.number => s = t
    /\ \A s \in sessions : s.left >= 0 => s.age + s.left = SessionAge

ThrottleInv ==
    /\ IsFiniteSet(DOMAIN throttle)
    /\ Cardinality(DOMAIN throttle) <= MaxEntries

-----------------------------------------------------------------------------
(* The two files of the store.                                             *)
LEMMA EmptyStore == Empty \in Stores /\ ~Complete(Empty)
<1> QED
  BY AccessAssumption DEF Empty, Stores, Complete

LEMMA FilesAreNotStores == Missing \notin Stores /\ Corrupt \notin Stores
<1>1. Stores \subseteq [password : Passwords \cup {NoPassword}, secret : Nat]
  BY AccessAssumption DEF Stores
<1> QED
  BY <1>1, AccessAssumption

(* What is read is a store; it has a password if one of the files has; and *)
(* the first file, restored, reads like it.                                *)
LEMMA LoadedFacts ==
    ASSUME FileInv
    PROVE  /\ Loaded \in Stores
           /\ Loaded.password # NoPassword
                <=> HasPassword(primary) \/ HasPassword(backup)
           /\ Restored \in {primary, backup} /\ Read(Restored) = Loaded
           /\ Loaded.secret # 0 /\ Loaded.password = NoPassword
                => current.password = NoPassword
<1>1. /\ primary \in Stores \cup {Missing, Corrupt}
      /\ backup \in Stores \cup {Missing, Corrupt}
      /\ primary \in Stores /\ primary.password = NoPassword
           => current = primary
  BY DEF FileInv
<1>2. Read(primary) \in Stores /\ Read(backup) \in Stores
  BY <1>1, EmptyStore DEF Read
<1>3. Read(primary) # Empty => primary \in Stores /\ Read(primary) = primary
  BY <1>1 DEF Read
<1>4. Loaded \in {Read(primary), Read(backup)}
      /\ Restored \in {primary, backup} /\ Read(Restored) = Loaded
  BY DEF Loaded, Restored
<1>5. Loaded.password # NoPassword
        <=> HasPassword(primary) \/ HasPassword(backup)
  BY DEF Loaded, HasPassword, PrimaryLost
<1>6. ASSUME Loaded.secret # 0, Loaded.password = NoPassword
      PROVE  current.password = NoPassword
  <2>1. Loaded = Read(primary)
    BY <1>6 DEF Loaded, PrimaryLost
  <2>2. Loaded # Empty
    BY <1>6 DEF Empty
  <2> QED
    BY <1>1, <1>3, <1>6, <2>1, <2>2
<1> QED
  BY <1>2, <1>4, <1>5, <1>6

(* Steps by what they do to the files.                                     *)
Looks ==
    /\ UNCHANGED <<engine, backup, pending, secrets, current, reset, losses>>
    /\ primary' \in {primary, Restored}

EstablishesPassword ==
    /\ Serving
    /\ \E p \in Passwords : SetPassword(p)
    /\ UNCHANGED <<engine, reset, losses>>

LEMMA StoreSteps ==
    ASSUME [Next]_vars
    PROVE  \/ Looks \/ EstablishesPassword \/ Start \/ Stop \/ WriteBackup
           \/ \E left \in {Missing, Corrupt} : Lose(left)
           \/ ResetBackup \/ ResetPrimary \/ ResetFails
<1>1. CASE Tick \/ UNCHANGED vars
  BY <1>1 DEF Tick, Looks, vars, files
<1>2. ASSUME NEW p \in Passwords, Setup(p)
      PROVE  EstablishesPassword
  BY <1>2 DEF Setup, EstablishesPassword
<1>3. ASSUME NEW p \in Passwords, NEW k, Login(k, p) \/ PairByPassword(k, p)
      PROVE  Looks
  BY <1>3 DEF Login, PairByPassword, Looks
<1>4. ASSUME NEW request, NEW s, Authorise(request, s)
      PROVE  Looks
  BY <1>4 DEF Authorise, Looks
<1>5. ASSUME NEW r, Handle(r)
      PROVE  Looks
  BY <1>5 DEF Handle, Looks, files
<1>6. ASSUME NEW r, NEW old \in Passwords, NEW new \in Passwords,
             ChangePassword(r, old, new)
      PROVE  Looks \/ EstablishesPassword
  BY <1>6 DEF ChangePassword, Looks, EstablishesPassword
<1>7. ASSUME NEW code, Exchange(code)
      PROVE  Looks
  BY <1>7 DEF Exchange, Looks, files
<1>8. ASSUME NEW s, LeaderRequest(s) \/ LeaderLogout(s)
      PROVE  Looks
  BY <1>8 DEF LeaderRequest, LeaderLogout, Looks, files
<1> QED
  BY <1>1, <1>2, <1>3, <1>4, <1>5, <1>6, <1>7, <1>8 DEF Next

(* A save, up to its first file: whatever happens next, the new store is   *)
(* what is read.                                                           *)
LEMMA SaveKeeps ==
    ASSUME FileInv, NEW store \in Stores, store.secret # 0, SaveStore(store),
           store.password = NoPassword => ~HasPassword(backup),
           losses = 0 => backup # Corrupt,
           secrets' \in 0 .. MaxSecrets, engine' = "up", reset' = "none",
           UNCHANGED losses
    PROVE  StoreInv'
<1>1. primary' = store /\ current' = store /\ UNCHANGED backup
      /\ pending' = IF Complete(store) THEN store ELSE NoSave
  BY DEF SaveStore
<1>2. /\ store \notin {Missing, Corrupt} /\ NoSave \in Stores
      /\ ~Complete(NoSave)
  BY FilesAreNotStores, EmptyStore DEF NoSave
<1>3. Complete(store) <=> store.password # NoPassword
  BY DEF Complete
<1>4. PhaseInv'
  BY <1>1, <1>2 DEF PhaseInv
<1>5. FileInv'
  BY <1>1, <1>2 DEF FileInv
<1>6. Read(store) = store
  BY <1>2 DEF Read
<1>7. NoLossInv'
  BY <1>1, <1>2, <1>6 DEF NoLossInv, HasPassword
<1>8. SpareInv'
  BY <1>1, <1>2, <1>3 DEF SpareInv, Serving
<1> QED
  BY <1>4, <1>5, <1>7, <1>8 DEF StoreInv

(* The first file restored from the spare holds what was read.             *)
LEMMA RestoringKeeps ==
    ASSUME FileInv, NoLossInv, primary' \in {primary, Restored},
           UNCHANGED <<backup, pending, secrets, current, losses>>
    PROVE  FileInv' /\ NoLossInv'
<1>1. CASE primary' = primary
  BY <1>1 DEF FileInv, NoLossInv
<1>2. CASE primary' # primary
  <2>1. PrimaryLost /\ primary' = backup
    BY <1>2 DEF Restored
  <2>2. ~HasPassword(primary) /\ HasPassword(backup)
    BY <2>1 DEF PrimaryLost, HasPassword
  <2>3. backup \in Stores /\ backup.password # NoPassword
    BY <2>2, EmptyStore DEF FileInv, HasPassword, Read, Empty
  <2>4. losses # 0
    BY <2>2 DEF NoLossInv
  <2>5. FileInv'
    BY <2>1, <2>3 DEF FileInv
  <2> QED
    BY <2>4, <2>5 DEF NoLossInv
<1> QED
  BY <1>1, <1>2

LEMMA LooksKeeps ==
    ASSUME StoreInv, Looks
    PROVE  StoreInv'
<1>1. /\ PhaseInv /\ FileInv /\ NoLossInv /\ SpareInv
      /\ UNCHANGED <<engine, backup, pending, secrets, current, reset, losses>>
  BY DEF StoreInv, Looks
<1>2. FileInv' /\ NoLossInv'
  BY <1>1, RestoringKeeps DEF Looks
<1>3. CASE primary' = primary
  BY <1>1, <1>2, <1>3 DEF StoreInv, PhaseInv, SpareInv, Serving
<1>4. CASE primary' # primary
  <2>1. PrimaryLost /\ primary' = backup
    BY <1>4 DEF Looks, Restored
  <2>2. ~HasPassword(primary) /\ HasPassword(backup)
    BY <2>1 DEF PrimaryLost, HasPassword
  <2>3. pending = NoSave
    BY <1>1, <2>2, FilesAreNotStores
       DEF PhaseInv, FileInv, Complete, HasPassword, Read
  <2>4. PhaseInv'
    BY <1>1, <2>3 DEF PhaseInv
  <2>5. SpareInv'
    BY <1>1, <2>1, <2>2 DEF NoLossInv, SpareInv
  <2> QED
    BY <1>2, <2>4, <2>5 DEF StoreInv
<1> QED
  BY <1>3, <1>4

LEMMA PasswordChangeKeeps ==
    ASSUME StoreInv, EstablishesPassword
    PROVE  StoreInv'
<1>1. PICK p \in Passwords : SetPassword(p)
  BY DEF EstablishesPassword
<1> DEFINE store == [password |-> p, secret |-> secrets + 1]
<1>2. secrets \in 0 .. MaxSecrets /\ secrets < MaxSecrets
      /\ secrets' = secrets + 1 /\ SaveStore(store)
  BY <1>1 DEF SetPassword, StoreInv, FileInv
<1>3. /\ secrets' \in 0 .. MaxSecrets /\ store \in Stores
      /\ store.password # NoPassword /\ store.secret # 0
  BY <1>2, AccessAssumption DEF Stores
<1>4. /\ FileInv /\ engine' = "up" /\ UNCHANGED losses
      /\ reset' = reset /\ reset # "primary"
      /\ losses = 0 => backup # Corrupt
  BY DEF StoreInv, PhaseInv, NoLossInv, EstablishesPassword, Serving
<1>5. reset = "none"
  BY <1>4 DEF StoreInv, PhaseInv
<1> QED
  BY <1>2, <1>3, <1>4, <1>5, SaveKeeps

LEMMA StartKeeps ==
    ASSUME StoreInv, Start
    PROVE  StoreInv'
<1> DEFINE fresh == Loaded.secret = 0
           store == [password |-> IF Loaded.password # NoPassword
                                  THEN Loaded.password ELSE EnvPassword,
                     secret |-> IF fresh THEN secrets + 1 ELSE Loaded.secret]
<1>1. /\ PhaseInv /\ FileInv /\ NoLossInv
      /\ engine' = "up" /\ reset = "none" /\ reset' = "none"
      /\ UNCHANGED losses /\ Bootstrap
  BY DEF StoreInv, Start
<1>2. /\ Loaded \in Stores
      /\ Loaded.password # NoPassword
           <=> HasPassword(primary) \/ HasPassword(backup)
      /\ Restored \in {primary, backup} /\ Read(Restored) = Loaded
      /\ Loaded.secret # 0 /\ Loaded.password = NoPassword
           => current.password = NoPassword
  BY <1>1, LoadedFacts
<1>3. /\ secrets \in 0 .. MaxSecrets /\ MaxSecrets \in Nat
      /\ fresh => secrets < MaxSecrets
      /\ secrets' = IF fresh THEN secrets + 1 ELSE secrets
      /\ secrets' \in 0 .. MaxSecrets
  BY <1>1, AccessAssumption DEF Bootstrap, FileInv
<1>4. /\ store \in Stores /\ store.secret # 0
      /\ store.password = NoPassword => Loaded.password = NoPassword
  BY <1>2, <1>3, AccessAssumption DEF Stores
<1>5. CASE store # Loaded \/ (backup = Missing /\ Complete(store))
  <2>1. SaveStore(store)
    BY <1>1, <1>5 DEF Bootstrap
  <2>2. losses = 0 => backup # Corrupt
    BY <1>1 DEF NoLossInv
  <2> QED
    BY <1>1, <1>2, <1>3, <1>4, <2>1, <2>2, SaveKeeps
<1>6. CASE ~(store # Loaded \/ (backup = Missing /\ Complete(store)))
  <2>1. primary' = Restored /\ UNCHANGED <<backup, pending, current>>
    BY <1>1, <1>6 DEF Bootstrap
  <2>2. store = Loaded /\ Loaded.secret # 0 /\ secrets' = secrets
    BY <1>3, <1>4, <1>6
  <2>3. PhaseInv'
    BY <1>1, <2>1, <2>2 DEF PhaseInv, Start
  <2>4. FileInv' /\ NoLossInv'
    BY <1>1, <2>1, <2>2, RestoringKeeps
  <2>5. ASSUME current.password # NoPassword
        PROVE  /\ HasPassword(Restored)
               /\ losses = 0 => HasPassword(backup)
    <3>1. Loaded.password # NoPassword
      BY <1>2, <2>2, <2>5
    <3>2. HasPassword(Restored)
      BY <1>2, <3>1 DEF HasPassword
    <3>3. Complete(store)
      BY <2>2, <3>1 DEF Complete
    <3>4. ASSUME losses = 0
          PROVE  HasPassword(backup)
      <4>1. backup \in Stores
        BY <1>1, <1>6, <3>3, <3>4 DEF FileInv, NoLossInv
      <4> QED
        BY <1>1, <4>1, FilesAreNotStores
           DEF FileInv, HasPassword, Read, Complete
    <3> QED
      BY <3>2, <3>4
  <2>6. SpareInv'
    BY <2>1, <2>5, <1>1 DEF SpareInv
  <2> QED
    BY <2>3, <2>4, <2>6 DEF StoreInv
<1> QED
  BY <1>5, <1>6

LEMMA OtherStoreStepsKeep ==
    ASSUME StoreInv,
           \/ Stop \/ WriteBackup \/ ResetBackup \/ ResetPrimary \/ ResetFails
           \/ \E left \in {Missing, Corrupt} : Lose(left)
    PROVE  StoreInv'
<1>1. PhaseInv /\ FileInv /\ NoLossInv /\ SpareInv /\ Missing # Corrupt
  BY AccessAssumption DEF StoreInv
<1>2. NoSave \in Stores /\ Empty \in Stores /\ ~Complete(NoSave)
      /\ Missing \notin Stores /\ Corrupt \notin Stores
  BY EmptyStore, FilesAreNotStores DEF NoSave
<1>3. ~HasPassword(Missing) /\ ~HasPassword(Corrupt) /\ Read(Missing) = Empty
  BY DEF HasPassword, Read, Empty
<1>4. CASE Stop
  <2>1. PhaseInv'
    BY <1>1, <1>4 DEF PhaseInv, Stop
  <2>2. FileInv' /\ NoLossInv' /\ SpareInv'
    BY <1>1, <1>2, <1>4 DEF FileInv, NoLossInv, SpareInv, Serving, Stop
  <2> QED
    BY <2>1, <2>2 DEF StoreInv
<1>5. CASE WriteBackup
  <2>1. primary = pending /\ Complete(pending) /\ pending \in Stores
    BY <1>1, <1>5 DEF PhaseInv, FileInv, WriteBackup
  <2>2. HasPassword(pending)
    BY <1>2, <2>1 DEF HasPassword, Read, Complete
  <2>3. PhaseInv'
    BY <1>1, <1>5 DEF PhaseInv, WriteBackup
  <2>4. FileInv'
    BY <1>1, <1>2, <1>5, <2>1 DEF FileInv, WriteBackup
  <2>5. NoLossInv' /\ SpareInv'
    BY <1>1, <1>2, <1>5, <2>1, <2>2 DEF NoLossInv, SpareInv, WriteBackup
  <2> QED
    BY <2>3, <2>4, <2>5 DEF StoreInv
<1>6. CASE ResetBackup
  <2>1. PhaseInv'
    BY <1>1, <1>6 DEF PhaseInv, ResetBackup
  <2>2. FileInv'
    BY <1>1, <1>2, <1>6 DEF FileInv, ResetBackup
  <2>3. NoLossInv' /\ SpareInv'
    BY <1>1, <1>3, <1>6 DEF NoLossInv, SpareInv, Serving, ResetBackup
  <2> QED
    BY <2>1, <2>2, <2>3 DEF StoreInv
<1>7. CASE ResetPrimary
  <2>1. engine = "down" /\ backup = Missing
    BY <1>1, <1>7 DEF PhaseInv, ResetPrimary
  <2>2. PhaseInv'
    BY <1>1, <1>7, <2>1 DEF PhaseInv, ResetPrimary
  <2>3. FileInv'
    BY <1>1, <1>2, <1>7 DEF FileInv, ResetPrimary
  <2>4. NoLossInv' /\ SpareInv'
    BY <1>1, <1>3, <1>7, <2>1
       DEF NoLossInv, SpareInv, Serving, ResetPrimary
  <2> QED
    BY <2>2, <2>3, <2>4 DEF StoreInv
<1>8. CASE ResetFails
  BY <1>1, <1>8 DEF StoreInv, PhaseInv, FileInv, NoLossInv, SpareInv, Serving,
     ResetFails, files
<1>9. ASSUME NEW left \in {Missing, Corrupt}, Lose(left)
      PROVE  StoreInv'
  <2>1. /\ UNCHANGED <<engine, pending, secrets, current, reset>>
        /\ losses \in Nat /\ losses' = losses + 1 /\ Serving
        /\ \/ primary' = left /\ UNCHANGED backup
           \/ backup' = left /\ UNCHANGED primary
    BY <1>1, <1>9 DEF Lose, FileInv
  <2>2. PhaseInv'
    BY <1>1, <2>1 DEF PhaseInv, Serving
  <2>3. FileInv'
    BY <1>1, <1>2, <2>1 DEF FileInv
  <2>4. NoLossInv' /\ (losses' = 1 => losses = 0)
    BY <2>1 DEF NoLossInv
  <2>5. SpareInv'
    BY <1>1, <2>1, <2>4 DEF SpareInv, Serving
  <2> QED
    BY <2>2, <2>3, <2>4, <2>5 DEF StoreInv
<1> QED
  BY <1>4, <1>5, <1>6, <1>7, <1>8, <1>9

LEMMA StoreInit == Init => StoreInv
<1> SUFFICES ASSUME Init
             PROVE  StoreInv
  OBVIOUS
<1>1. /\ Empty \in Stores /\ NoSave = Empty /\ Missing # Corrupt
      /\ Missing \notin Stores /\ Read(Missing) = Empty
      /\ Empty.password = NoPassword
  BY EmptyStore, FilesAreNotStores, AccessAssumption DEF NoSave, Read, Empty
<1>2. PhaseInv
  BY DEF Init, PhaseInv
<1>3. FileInv
  BY <1>1, AccessAssumption DEF Init, FileInv
<1>4. NoLossInv /\ SpareInv
  BY <1>1 DEF Init, NoLossInv, SpareInv, Serving, HasPassword
<1> QED
  BY <1>2, <1>3, <1>4 DEF StoreInv

LEMMA StoreStep == StoreInv /\ [Next]_vars => StoreInv'
<1> QED
  BY StoreSteps, LooksKeeps, PasswordChangeKeeps, StartKeeps,
     OtherStoreStepsKeep

LEMMA StoreAlways == Spec => []StoreInv
<1> QED
  BY StoreInit, StoreStep, PTL DEF Spec

(* _load_store reads the password and the secret last established, at any  *)
(* point of a save, a crash, a start or a reset that fails half way.       *)
THEOREM EstablishedStoreIsRead == Spec => []PasswordKept
<1>1. StoreInv => PasswordKept
  BY DEF StoreInv, NoLossInv, PasswordKept, Loaded, PrimaryLost, HasPassword
<1> QED
  BY <1>1, StoreAlways, PTL

(* With one file lost the operator is asked for the password that was set, *)
(* not for a new one.                                                      *)
THEOREM OneLossIsSurvived == Spec => []LossSurvived
<1>1. StoreInv => LossSurvived
  <2> SUFFICES ASSUME StoreInv, Serving, losses <= 1,
                      current.password # NoPassword
               PROVE  Loaded.password # NoPassword
    BY DEF LossSurvived
  <2>1. losses = 0 \/ losses = 1
    BY DEF StoreInv, FileInv
  <2>2. HasPassword(primary) \/ HasPassword(backup)
    BY <2>1 DEF StoreInv, SpareInv
  <2> QED
    BY <2>2, LoadedFacts DEF StoreInv
<1> QED
  BY <1>1, StoreAlways, PTL

-----------------------------------------------------------------------------
(* The pairing codes and the leader's sessions.                            *)
LEMMA Smaller ==
    ASSUME NEW a \in Int, NEW b \in Int
    PROVE  Min({a, b}) = IF a <= b THEN a ELSE b
<1> DEFINE least == IF a <= b THEN a ELSE b
<1>1. least \in {a, b} /\ \A y \in {a, b} : least <= y
  OBVIOUS
<1>2. \A x \in {a, b} : (\A y \in {a, b} : x <= y) => x = least
  OBVIOUS
<1> HIDE DEF least
<1>3. Min({a, b}) = least
  BY <1>1, <1>2 DEF Min
<1> QED
  BY <1>3 DEF least

LEMMA Larger ==
    ASSUME NEW a \in Int, NEW b \in Int
    PROVE  Max({a, b}) = IF a >= b THEN a ELSE b
<1> DEFINE most == IF a >= b THEN a ELSE b
<1>1. most \in {a, b} /\ \A y \in {a, b} : most >= y
  OBVIOUS
<1>2. \A x \in {a, b} : (\A y \in {a, b} : x >= y) => x = most
  OBVIOUS
<1> HIDE DEF most
<1>3. Max({a, b}) = most
  BY <1>1, <1>2 DEF Max
<1> QED
  BY <1>3 DEF most

(* A pairing and a session after a unit of time, as Tick leaves them.      *)
TickedPairing(p) == [p EXCEPT !.left = Max({-1, p.left - 1})]
TickedSession(s) ==
    [s EXCEPT !.age = Older(s.age, SessionAge + 1),
              !.left = Max({-1, s.left - 1}),
              !.idle = Older(s.idle, IdleTimeout + 1)]

SessionRecords(n) ==
    [number : 1 .. n, code : Nat, age : Nat, left : Int,
     idle : 0 .. IdleTimeout + 1]

LEMMA TickedFacts ==
    ASSUME NEW n, NEW s \in SessionRecords(n)
    PROVE  /\ TickedSession(s) \in SessionRecords(n)
           /\ TickedSession(s).number = s.number
           /\ TickedSession(s).idle >= s.idle
           /\ (s.left >= 0 => s.age + s.left = SessionAge)
                => (TickedSession(s).left >= 0
                      => TickedSession(s).age + TickedSession(s).left
                           = SessionAge)
<1> DEFINE age == Older(s.age, SessionAge + 1)
           left == Max({-1, s.left - 1})
           idle == Older(s.idle, IdleTimeout + 1)
<1>1. /\ s.number \in 1 .. n /\ s.code \in Nat /\ s.age \in Nat
      /\ s.left \in Int /\ s.idle \in 0 .. IdleTimeout + 1
      /\ SessionAge \in Nat /\ IdleTimeout \in Nat
  BY AccessAssumption DEF SessionRecords
<1>2. age = IF s.age + 1 <= SessionAge + 1 THEN s.age + 1 ELSE SessionAge + 1
  BY <1>1, Smaller DEF Older
<1>3. idle = IF s.idle + 1 <= IdleTimeout + 1 THEN s.idle + 1
             ELSE IdleTimeout + 1
  BY <1>1, Smaller DEF Older
<1>4. left = IF -1 >= s.left - 1 THEN -1 ELSE s.left - 1
  BY <1>1, Larger
<1>5. TickedSession(s) = [s EXCEPT !.age = age, !.left = left, !.idle = idle]
  BY DEF TickedSession
<1> HIDE DEF age, left, idle
<1>6. /\ age \in Nat /\ left \in Int /\ idle \in 0 .. IdleTimeout + 1
      /\ idle >= s.idle
      /\ (s.left >= 0 => s.age + s.left = SessionAge)
           => (left >= 0 => age + left = SessionAge)
  BY <1>1, <1>2, <1>3, <1>4
<1>7. s \in [number : 1 .. n, code : Nat, age : Nat, left : Int,
             idle : 0 .. IdleTimeout + 1]
  BY DEF SessionRecords
<1>8. /\ [s EXCEPT !.age = age, !.left = left, !.idle = idle]
           \in [number : 1 .. n, code : Nat, age : Nat, left : Int,
                idle : 0 .. IdleTimeout + 1]
      /\ [s EXCEPT !.age = age, !.left = left, !.idle = idle].number = s.number
      /\ [s EXCEPT !.age = age, !.left = left, !.idle = idle].age = age
      /\ [s EXCEPT !.age = age, !.left = left, !.idle = idle].left = left
      /\ [s EXCEPT !.age = age, !.left = left, !.idle = idle].idle = idle
  BY <1>6, <1>7
<1> QED
  BY <1>5, <1>6, <1>8 DEF SessionRecords

(* What a step that opens no session does to those there are: it ends      *)
(* some, or all become a unit older, or one that is alive is used.         *)
Ages == sessions' = {TickedSession(s) : s \in sessions}

Uses ==
    \E s \in AliveSessions :
       sessions' = (AliveSessions \ {s}) \cup {[s EXCEPT !.idle = 0]}

Opens(code) ==
    /\ opened' = opened + 1
    /\ sessions' = AliveSessions \cup
         {[number |-> opened + 1, code |-> code, age |-> 0,
           left |-> SessionAge, idle |-> 0]}

LEMMA SessionSteps ==
    ASSUME [Next]_vars
    PROVE  \/ sessions' \subseteq sessions /\ UNCHANGED opened
           \/ (Ages \/ Uses) /\ UNCHANGED opened
           \/ \E code \in 1 .. issued : Exchange(code) /\ Opens(code)
<1> USE DEF leader
<1>1. CASE Tick
  BY <1>1 DEF Tick, Ages, TickedSession
<1>2. CASE Start \/ Stop \/ WriteBackup \/ ResetBackup \/ ResetPrimary
           \/ ResetFails \/ UNCHANGED vars
           \/ \E left \in {Missing, Corrupt} : Lose(left)
  BY <1>2 DEF Start, Stop, WriteBackup, ResetBackup, ResetPrimary, ResetFails,
     Lose, vars
<1>3. CASE \/ \E p \in Passwords : Setup(p)
           \/ \E p \in Passwords, k \in LoginKeys : Login(k, p)
           \/ \E request \in {"pairing", "cancel", "revoke", "password"},
                 s \in cookies : Authorise(request, s)
  BY <1>3 DEF Setup, Login, Authorise
<1>4. ASSUME NEW p, NEW k, PairByPassword(k, p)
      PROVE  sessions' \subseteq sessions /\ UNCHANGED opened
  BY <1>4 DEF PairByPassword, CreatePairing, AliveSessions
<1>5. ASSUME NEW r, Handle(r)
      PROVE  sessions' \subseteq sessions /\ UNCHANGED opened
  BY <1>5 DEF Handle, CreatePairing, AliveSessions, RevokeAll
<1>6. ASSUME NEW r, NEW old, NEW new, ChangePassword(r, old, new)
      PROVE  sessions' \subseteq sessions /\ UNCHANGED opened
  BY <1>6 DEF ChangePassword, RevokeAll
<1>7. ASSUME NEW code, Exchange(code)
      PROVE  Opens(code)
  BY <1>7 DEF Exchange, Opens
<1>8. ASSUME NEW s, LeaderRequest(s)
      PROVE  Uses /\ UNCHANGED opened
  BY <1>8 DEF LeaderRequest, Uses
<1>9. ASSUME NEW s, LeaderLogout(s)
      PROVE  sessions' \subseteq sessions /\ UNCHANGED opened
  BY <1>9 DEF LeaderLogout, AliveSessions
<1> QED
  BY <1>1, <1>2, <1>3, <1>4, <1>5, <1>6, <1>7, <1>8, <1>9 DEF Next

LEMMA LeaderKept == LeaderInv /\ CodeInv /\ [Next]_vars => LeaderInv'
<1> SUFFICES ASSUME LeaderInv, CodeInv, [Next]_vars
             PROVE  LeaderInv'
  OBVIOUS
<1>1. /\ opened \in Nat /\ sessions \subseteq SessionRecords(opened)
      /\ \A s, t \in sessions : s.number = t.number => s = t
      /\ \A s \in sessions : s.left >= 0 => s.age + s.left = SessionAge
  BY DEF LeaderInv, SessionRecords
<1>2. CASE sessions' \subseteq sessions /\ UNCHANGED opened
  BY <1>1, <1>2 DEF LeaderInv, SessionRecords
<1>3. CASE Ages /\ UNCHANGED opened
  <2>1. \A s \in sessions :
          /\ TickedSession(s) \in SessionRecords(opened)
          /\ TickedSession(s).number = s.number
          /\ TickedSession(s).left >= 0
               => TickedSession(s).age + TickedSession(s).left = SessionAge
    BY <1>1, TickedFacts
  <2> QED
    BY <1>1, <1>3, <2>1 DEF LeaderInv, Ages, SessionRecords
<1>4. CASE Uses /\ UNCHANGED opened
  <2>1. PICK u \in AliveSessions :
          sessions' = (AliveSessions \ {u}) \cup {[u EXCEPT !.idle = 0]}
    BY <1>4 DEF Uses
  <2> DEFINE used == [u EXCEPT !.idle = 0]
  <2>2. u \in sessions /\ AliveSessions \subseteq sessions
    BY <2>1 DEF AliveSessions
  <2>3. /\ used \in SessionRecords(opened) /\ used.number = u.number
        /\ used.age = u.age /\ used.left = u.left
    BY <1>1, <2>2, AccessAssumption DEF SessionRecords
  <2> HIDE DEF used
  <2>4. sessions' \subseteq sessions \cup {used}
    BY <2>1, <2>2 DEF used
  <2>5. \A s, t \in sessions' : s.number = t.number => s = t
    <3>1. \A s \in sessions' : (s \in sessions /\ s # u) \/ s = used
      BY <2>1, <2>2 DEF used
    <3>2. \A s \in sessions : s.number = u.number => s = u
      BY <1>1, <2>2
    <3> QED
      BY <1>1, <2>3, <3>1, <3>2
  <2> QED
    BY <1>1, <1>4, <2>2, <2>3, <2>4, <2>5 DEF LeaderInv, SessionRecords
<1>5. ASSUME NEW code \in 1 .. issued, Opens(code)
      PROVE  LeaderInv'
  <2> DEFINE new == [number |-> opened + 1, code |-> code, age |-> 0,
                     left |-> SessionAge, idle |-> 0]
  <2>1. new \in SessionRecords(opened + 1) /\ code \in Nat
    BY <1>1, <1>5, AccessAssumption DEF SessionRecords, CodeInv
  <2>2. new.number = opened + 1 /\ new.age + new.left = SessionAge
    BY AccessAssumption
  <2> HIDE DEF new
  <2>3. sessions' \subseteq sessions \cup {new} /\ opened' = opened + 1
    BY <1>5 DEF Opens, AliveSessions, new
  <2>4. SessionRecords(opened) \subseteq SessionRecords(opened + 1)
        /\ \A s \in SessionRecords(opened) : s.number # opened + 1
    BY <1>1 DEF SessionRecords
  <2>5. \A s \in sessions' : s \in SessionRecords(opened + 1)
    BY <1>1, <2>1, <2>3, <2>4
  <2>6. \A s, t \in sessions' : s.number = t.number => s = t
    BY <1>1, <2>2, <2>3, <2>4
  <2>7. \A s \in sessions' : s.left >= 0 => s.age + s.left = SessionAge
    BY <1>1, <2>2, <2>3
  <2> QED
    BY <1>1, <2>3, <2>5, <2>6, <2>7 DEF LeaderInv, SessionRecords
<1> QED
  BY <1>2, <1>3, <1>4, <1>5, SessionSteps

(* What a step does to the codes: some are forgotten, all are ended, a new *)
(* one replaces them, one is taken, or all become a unit older.            *)
Forgets == pairings' \subseteq pairings /\ UNCHANGED <<issued, closed>>
EndsAll ==
    pairings' = {} /\ UNCHANGED issued /\ closed' \subseteq closed \cup 1 .. issued

LEMMA CodeSteps ==
    ASSUME [Next]_vars
    PROVE  \/ Forgets \/ EndsAll \/ CreatePairing \/ Tick
           \/ \E code \in 1 .. issued : Exchange(code)
<1> USE DEF leader
<1>1. CASE Start \/ WriteBackup \/ ResetBackup \/ ResetPrimary
           \/ ResetFails \/ UNCHANGED vars
           \/ \E left \in {Missing, Corrupt} : Lose(left)
  BY <1>1 DEF Start, WriteBackup, ResetBackup, ResetPrimary, ResetFails,
     Lose, vars, Forgets
<1>2. CASE Stop
  BY <1>2 DEF Stop, EndsAll
<1>3. CASE \/ \E p \in Passwords : Setup(p)
           \/ \E p \in Passwords, k \in LoginKeys : Login(k, p)
           \/ \E request \in {"pairing", "cancel", "revoke", "password"},
                 s \in cookies : Authorise(request, s)
  BY <1>3 DEF Setup, Login, Authorise, Forgets
<1>4. ASSUME NEW p, NEW k, PairByPassword(k, p)
      PROVE  Forgets \/ CreatePairing
  BY <1>4 DEF PairByPassword, Forgets
<1>5. ASSUME NEW r, Handle(r)
      PROVE  EndsAll \/ CreatePairing
  BY <1>5 DEF Handle, EndsAll, RevokeAll, Close
<1>6. ASSUME NEW r, NEW old, NEW new, ChangePassword(r, old, new)
      PROVE  Forgets \/ EndsAll
  BY <1>6 DEF ChangePassword, RevokeAll, Close, Forgets, EndsAll
<1>7. ASSUME NEW s, LeaderRequest(s) \/ LeaderLogout(s)
      PROVE  Forgets
  BY <1>7 DEF LeaderRequest, LeaderLogout, Forgets, AlivePairings
<1> QED
  BY <1>1, <1>2, <1>3, <1>4, <1>5, <1>6, <1>7 DEF Next

LEMMA CodeKept == CodeInv /\ [Next]_vars => CodeInv'
<1> SUFFICES ASSUME CodeInv, [Next]_vars
             PROVE  CodeInv'
  OBVIOUS
<1>1. /\ issued \in Nat /\ closed \subseteq 1 .. issued
      /\ pairings \subseteq [code : 1 .. issued, left : Int]
      /\ \A p, q \in pairings : p = q
      /\ \A p \in pairings : p.left >= 0 => p.code \notin closed
  BY DEF CodeInv
<1>2. CASE Forgets
  BY <1>1, <1>2 DEF CodeInv, Forgets
<1>3. CASE EndsAll
  BY <1>1, <1>3 DEF CodeInv, EndsAll
<1>4. CASE CreatePairing
  <2> DEFINE new == [code |-> issued + 1, left |-> PairingTTL]
  <2>1. /\ issued' = issued + 1 /\ pairings' = {new}
        /\ closed' = closed \cup 1 .. issued
    BY <1>4 DEF CreatePairing, Close
  <2>2. new \in [code : 1 .. issued + 1, left : Int] /\ new.code = issued + 1
    BY <1>1, AccessAssumption
  <2> HIDE DEF new
  <2>3. closed' \subseteq 1 .. issued' /\ issued + 1 \notin closed'
    BY <1>1, <2>1
  <2> QED
    BY <1>1, <2>1, <2>2, <2>3 DEF CodeInv
<1>5. CASE Tick
  <2>1. /\ issued' = issued
        /\ pairings' = {TickedPairing(p) : p \in pairings}
        /\ closed' = closed
             \cup {p.code : p \in {q \in pairings : q.left <= 0}}
    BY <1>5 DEF Tick, Close, TickedPairing
  <2>2. ASSUME NEW p \in pairings
        PROVE  /\ TickedPairing(p) \in [code : 1 .. issued, left : Int]
               /\ TickedPairing(p).code = p.code
               /\ TickedPairing(p).left >= 0 => p.left > 0
    <3>1. p \in [code : 1 .. issued, left : Int]
      BY <1>1
    <3>2. Max({-1, p.left - 1}) = IF -1 >= p.left - 1 THEN -1 ELSE p.left - 1
      BY <3>1, Larger
    <3> QED
      BY <3>1, <3>2 DEF TickedPairing
  <2>3. closed' \subseteq 1 .. issued
    BY <1>1, <2>1
  <2>4. ASSUME NEW p \in pairings, TickedPairing(p).left >= 0
        PROVE  TickedPairing(p).code \notin closed'
    <3>1. p.left > 0 /\ p.left \in Int /\ p.code \notin closed
      BY <1>1, <2>2, <2>4
    <3>2. \A q \in pairings : q = p
      BY <1>1
    <3>3. ~(p.left <= 0)
      BY <3>1
    <3> QED
      BY <2>1, <2>2, <3>1, <3>2, <3>3
  <2>5. \A p, q \in pairings' : p = q
    BY <1>1, <2>1
  <2> QED
    BY <1>1, <2>1, <2>2, <2>3, <2>4, <2>5 DEF CodeInv
<1>6. ASSUME NEW code \in 1 .. issued, Exchange(code)
      PROVE  CodeInv'
  <2>1. PICK p \in AlivePairings :
          p.code = code /\ pairings' = AlivePairings \ {p}
    BY <1>6 DEF Exchange
  <2>2. pairings' = {}
    BY <1>1, <2>1 DEF AlivePairings
  <2>3. issued' = issued /\ closed' = closed \cup {code}
    BY <1>6 DEF Exchange, Close
  <2> QED
    BY <1>1, <2>2, <2>3 DEF CodeInv
<1> QED
  BY <1>2, <1>3, <1>4, <1>5, <1>6, CodeSteps

LEMMA AccessAlways == Spec => [](CodeInv /\ LeaderInv)
<1>1. Init => CodeInv /\ LeaderInv
  BY DEF Init, CodeInv, LeaderInv
<1>2. CodeInv /\ LeaderInv /\ [Next]_vars => (CodeInv /\ LeaderInv)'
  BY CodeKept, LeaderKept
<1> QED
  BY <1>1, <1>2, PTL DEF Spec

(* exchange_pairing opens a session only for a code that is shown and that *)
(* nothing - use, replacement, cancellation, time - has ended before.      *)
THEOREM CodeOpensOneSession == Spec => CodesOpenOnce
<1> DEFINE Fresh == \A s \in sessions' :
             (\A t \in sessions : t.number # s.number) => s.code \notin closed
<1>1. CodeInv /\ LeaderInv /\ [Next]_vars => [Fresh]_vars
  <2> SUFFICES ASSUME CodeInv, LeaderInv, [Next]_vars, NEW s \in sessions',
                      \A t \in sessions : t.number # s.number
               PROVE  s.code \notin closed
    OBVIOUS
  <2>1. ~(sessions' \subseteq sessions)
    OBVIOUS
  <2>2. ~Ages
    BY TickedFacts DEF Ages, LeaderInv, SessionRecords
  <2>3. ~Uses
    BY DEF Uses, AliveSessions, LeaderInv
  <2>4. PICK code \in 1 .. issued : Exchange(code) /\ Opens(code)
    BY <2>1, <2>2, <2>3, SessionSteps
  <2>5. s.code = code
    BY <2>4 DEF Opens, AliveSessions
  <2>6. PICK p \in AlivePairings : p.code = code
    BY <2>4 DEF Exchange
  <2> QED
    BY <2>5, <2>6 DEF CodeInv, AlivePairings
<1> QED
  BY <1>1, AccessAlways, PTL DEF Spec, CodesOpenOnce

(* verify_session honours no request beyond SESSION_MAX_AGE_SECONDS of the *)
(* session or SESSION_IDLE_TIMEOUT_SECONDS without a request.              *)
THEOREM SessionsEndInTime == Spec => SessionsEnd
<1> DEFINE Ended == \A s \in sessions, t \in sessions' :
             (s.number = t.number /\ t.idle < s.idle)
                => s.age <= SessionAge /\ s.idle <= IdleTimeout
<1>1. CodeInv /\ LeaderInv /\ [Next]_vars => [Ended]_vars
  <2> SUFFICES ASSUME CodeInv, LeaderInv, [Next]_vars,
                      NEW s \in sessions, NEW t \in sessions',
                      s.number = t.number, t.idle < s.idle
               PROVE  s.age <= SessionAge /\ s.idle <= IdleTimeout
    OBVIOUS
  <2>1. /\ opened \in Nat /\ sessions \subseteq SessionRecords(opened)
        /\ \A u, v \in sessions : u.number = v.number => u = v
        /\ \A u \in sessions : u.left >= 0 => u.age + u.left = SessionAge
    BY DEF LeaderInv, SessionRecords
  <2>2. s \in SessionRecords(opened) /\ s.idle \in Nat /\ s.number <= opened
    BY <2>1, AccessAssumption DEF SessionRecords
  <2>3. t \notin sessions
    BY <2>1, <2>2
  <2>4. ~Ages
    <3>1. SUFFICES ASSUME NEW u \in sessions, t = TickedSession(u)
                   PROVE  FALSE
      BY DEF Ages
    <3>2. u = s
      BY <2>1, <3>1, TickedFacts
    <3>3. TickedSession(s) \in SessionRecords(opened) /\ t.idle >= s.idle
      BY <2>2, <3>1, <3>2, TickedFacts
    <3>4. t.idle \in Nat
      BY <3>1, <3>2, <3>3, AccessAssumption DEF SessionRecords
    <3> QED
      BY <2>2, <3>3, <3>4
  <2>5. ~(\E code : Opens(code))
    BY <2>1, <2>2, <2>3 DEF Opens, AliveSessions
  <2>6. PICK u \in AliveSessions :
          sessions' = (AliveSessions \ {u}) \cup {[u EXCEPT !.idle = 0]}
    BY <2>3, <2>4, <2>5, SessionSteps DEF Uses
  <2>7. t = [u EXCEPT !.idle = 0] /\ u \in sessions
    BY <2>3, <2>6 DEF AliveSessions
  <2>8. u = s
    <3>1. t.number = u.number
      BY <2>1, <2>7 DEF SessionRecords
    <3> QED
      BY <2>1, <2>7, <3>1
  <2> QED
    BY <2>1, <2>2, <2>6, <2>8, AccessAssumption
       DEF AliveSessions, SessionRecords
<1> QED
  BY <1>1, AccessAlways, PTL DEF Spec, SessionsEnd

-----------------------------------------------------------------------------
(* The pauses remembered.                                                  *)
LEMMA ThrottleSteps ==
    ASSUME [Next]_vars
    PROVE  \/ DOMAIN throttle' \subseteq DOMAIN throttle
           \/ \E k \in LoginKeys \cup PairingKeys : RecordFailure(k)
<1>1. CASE Start \/ WriteBackup \/ ResetBackup \/ ResetPrimary
           \/ ResetFails \/ UNCHANGED vars
           \/ \E left \in {Missing, Corrupt} : Lose(left)
  BY <1>1 DEF Start, WriteBackup, ResetBackup, ResetPrimary, ResetFails,
     Lose, vars
<1>2. CASE Tick
  BY <1>2 DEF Tick
<1>3. CASE Stop
  <2>1. throttle' = << >>
    BY <1>3 DEF Stop
  <2>2. DOMAIN << >> = {}
    OBVIOUS
  <2> QED
    BY <2>1, <2>2
<1>4. CASE \/ \E p \in Passwords : Setup(p)
           \/ \E request \in {"pairing", "cancel", "revoke", "password"},
                 s \in cookies : Authorise(request, s)
           \/ \E s \in sessions : LeaderRequest(s) \/ LeaderLogout(s)
           \/ \E code \in 1 .. issued : Exchange(code)
           \/ \E r \in inflight :
                \/ Handle(r)
                \/ \E old, new \in Passwords : ChangePassword(r, old, new)
  BY <1>4 DEF Setup, Authorise, LeaderRequest, LeaderLogout, Exchange, Handle,
     ChangePassword
<1>5. ASSUME NEW k, ResetEntry(k)
      PROVE  DOMAIN throttle' \subseteq DOMAIN throttle
  BY <1>5 DEF ResetEntry, Restrict, Younger
<1>6. ASSUME NEW p, NEW k, Login(k, p) \/ PairByPassword(k, p)
      PROVE  ResetEntry(k) \/ RecordFailure(k)
  BY <1>6 DEF Login, PairByPassword
<1> QED
  BY <1>1, <1>2, <1>3, <1>4, <1>5, <1>6 DEF Next

(* AuthenticationThrottle remembers max_entries addresses and no more,     *)
(* however many wrong passwords come, from wherever.                       *)
THEOREM ThrottleBounded == Spec => []ThrottleInv
<1>1. Init => ThrottleInv
  BY FS_EmptySet, AccessAssumption DEF Init, ThrottleInv
<1>2. ThrottleInv /\ [Next]_vars => ThrottleInv'
  <2> SUFFICES ASSUME ThrottleInv, [Next]_vars
               PROVE  ThrottleInv'
    OBVIOUS
  <2>1. IsFiniteSet(DOMAIN throttle) /\ MaxEntries \in Nat \ {0}
        /\ Cardinality(DOMAIN throttle) <= MaxEntries
    BY AccessAssumption DEF ThrottleInv
  <2>2. ASSUME NEW S \in SUBSET DOMAIN throttle
        PROVE  /\ IsFiniteSet(S) /\ Cardinality(S) \in Nat
               /\ Cardinality(S) <= MaxEntries
    BY <2>1, FS_Subset, FS_CardinalityType
  <2>3. CASE DOMAIN throttle' \subseteq DOMAIN throttle
    BY <2>2, <2>3 DEF ThrottleInv
  <2>4. ASSUME NEW k, RecordFailure(k)
        PROVE  ThrottleInv'
    <3> DEFINE young == DOMAIN Younger(throttle)
               full == k \notin young /\ Cardinality(young) >= MaxEntries
    <3>1. young \subseteq DOMAIN throttle
      BY DEF Younger
    <3>2. /\ IsFiniteSet(young) /\ Cardinality(young) \in Nat
          /\ Cardinality(young) <= MaxEntries
      BY <2>2, <3>1
    <3>3. \E gone : /\ DOMAIN throttle' = (young \ gone) \cup {k}
                    /\ full => \E j \in young : gone = {j}
                    /\ ~full => gone = {}
      BY <2>4 DEF RecordFailure
    <3> HIDE DEF young
    <3>4. PICK gone : /\ DOMAIN throttle' = (young \ gone) \cup {k}
                      /\ full => \E j \in young : gone = {j}
                      /\ ~full => gone = {}
      BY <3>3
    <3>5. CASE full
      <4>1. PICK j \in young : gone = {j}
        BY <3>4, <3>5
      <4> DEFINE rest == young \ {j}
      <4>2. IsFiniteSet(rest) /\ Cardinality(rest) = Cardinality(young) - 1
        BY <3>2, FS_RemoveElement
      <4>3. DOMAIN throttle' = rest \cup {k}
        BY <3>4, <4>1
      <4> HIDE DEF rest
      <4>4. /\ IsFiniteSet(rest \cup {k})
            /\ Cardinality(rest \cup {k})
                 = IF k \in rest THEN Cardinality(rest)
                   ELSE Cardinality(rest) + 1
        BY <4>2, FS_AddElement
      <4> QED
        BY <2>1, <3>2, <4>2, <4>3, <4>4 DEF ThrottleInv
    <3>6. CASE ~full
      <4>1. DOMAIN throttle' = young \cup {k}
        BY <3>4, <3>6
      <4>2. /\ IsFiniteSet(young \cup {k})
            /\ Cardinality(young \cup {k})
                 = IF k \in young THEN Cardinality(young)
                   ELSE Cardinality(young) + 1
        BY <3>2, FS_AddElement
      <4> QED
        BY <2>1, <3>2, <3>6, <4>1, <4>2 DEF ThrottleInv
    <3> QED
      BY <3>5, <3>6
  <2> QED
    BY <2>3, <2>4, ThrottleSteps
<1> QED
  BY <1>1, <1>2, PTL DEF Spec

=============================================================================
