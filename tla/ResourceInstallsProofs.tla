----------------------- MODULE ResourceInstallsProofs -----------------------
(***************************************************************************)
(* Proofs about ResourceInstalls, for any packages, scopes and bounds.     *)
(***************************************************************************)
EXTENDS ResourceInstalls, SequenceTheorems, TLAPS

ChildRecords ==
    [kind : Kinds, era : Nat, wanted : SUBSET Packages,
     todo : SUBSET Packages, fetched : SUBSET Packages,
     listed : SUBSET Packages, aside : BOOLEAN, code : {0, 1},
     stage : {"running", "placing", "listing", "swapping", "ended"}]

RemovalRecords ==
    [stage : Removing \cup {"none"}, todo : SUBSET Packages,
     listed : SUBSET Packages, moved : SUBSET Packages]

Statuses == {"idle", "starting", "installing", "complete", "error"}

(* What the other parts are stated about.                                  *)
ServerInv ==
    /\ status \in [Kinds -> Statuses]
    /\ removals \in [Slots -> RemovalRecords]
    /\ manifest \subseteq Packages /\ prepared \subseteq SUBSET Packages
    /\ runtime \in BOOLEAN
    /\ restarts \in Nat

ChildrenInv ==
    /\ children \in Seq(ChildRecords)
    /\ \A i \in 1 .. Len(children) :
         /\ children[i].stage = "swapping" => children[i].kind = "cuda"
         /\ children[i].stage \in {"placing", "listing"} => children[i].kind = "tts"
    /\ tracked \in [Kinds -> Nat]
    /\ tracked["tts"] # 0 => /\ tracked["tts"] <= Len(children)
                             /\ children[tracked["tts"]].kind = "tts"

(* A runtime that is gone has been set aside by a child that is swapping.  *)
RuntimeInv ==
    had /\ ~torn =>
        \/ runtime
        \/ \E i \in 1 .. Len(children) :
             children[i].stage = "swapping" /\ children[i].aside

(* Unless requests overlapped, one thread or child changes the voices.     *)
SoleInv ==
    ~overlapped =>
        /\ \A s, t \in Busy : s = t
        /\ \A i, j \in Alive("tts") : i = j
        /\ Busy = {} \/ Alive("tts") = {}
        /\ status["tts"] = "installing" =>
             /\ Busy = {}
             /\ tracked["tts"] # 0 =>
                  \A i \in Alive("tts") : i = tracked["tts"]

(* What an installer has placed stays in place until it is reported. What  *)
(* it has fetched is not there yet, so that it deletes nothing that works. *)
PlacedInv ==
    ~overlapped =>
        /\ \A i \in Alive("tts") :
             /\ children[i].wanted \ children[i].todo \subseteq folders
             /\ children[i].stage = "listing"
                  => children[i].wanted \subseteq folders
             /\ children[i].fetched \cap folders = {}
        /\ LET i == tracked["tts"] IN
           status["tts"] = "installing" /\ i # 0 /\ Ended(i)
             /\ children[i].code = 0
                => children[i].wanted \subseteq Offered

(* A removal, up to the point where its manifest takes effect, can put     *)
(* back what it has set aside; what it leaves listed has its folder.       *)
Undoable(r) ==
    /\ manifest \subseteq folders \cup (r.moved \cap staged)
    /\ r.listed \subseteq folders

RemovalInv ==
    ~overlapped /\ restarts = 0 =>
        /\ Busy = {} => manifest \subseteq folders
        /\ \A s \in Busy :
             LET r == removals[s] IN
             /\ r.stage \in {"checked", "clearing", "reloading"}
                  => manifest \subseteq folders
             /\ r.stage = "staging" => Undoable(r) /\ r.todo \cap r.listed = {}
             /\ r.stage = "replacing" => Undoable(r) /\ prepared = {r.listed}
        /\ \A i \in Alive("tts") :
             children[i].stage = "listing"
               => children[i].listed \subseteq folders

InstallsInv ==
    /\ ServerInv /\ ChildrenInv /\ RuntimeInv
    /\ SoleInv /\ PlacedInv /\ RemovalInv

-----------------------------------------------------------------------------
(* What a step does to the children.                                       *)

(* Child i goes on: the others stay as they are.                           *)
ChildMoves(i) ==
    /\ children' \in Seq(ChildRecords)
    /\ Len(children') = Len(children)
    /\ \A j \in 1 .. Len(children) : j # i => children'[j] = children[j]
    /\ children'[i].kind = children[i].kind
    /\ children'[i].wanted = children[i].wanted

LEMMA ChildFields ==
    ASSUME NEW c \in ChildRecords
    PROVE  /\ c.kind \in Kinds /\ c.era \in Nat
           /\ c.wanted \in SUBSET Packages /\ c.todo \in SUBSET Packages
           /\ c.fetched \in SUBSET Packages /\ c.listed \in SUBSET Packages
           /\ c.aside \in BOOLEAN /\ c.code \in {0, 1}
           /\ c.stage \in
                {"running", "placing", "listing", "swapping", "ended"}
  BY DEF ChildRecords

LEMMA ChildReplaced ==
    ASSUME children \in Seq(ChildRecords),
           NEW i \in 1 .. Len(children), NEW c \in ChildRecords,
           children' = [children EXCEPT ![i] = c],
           c.kind = children[i].kind, c.wanted = children[i].wanted
    PROVE  ChildMoves(i) /\ children'[i] = c
<1>1. children' \in Seq(ChildRecords) /\ Len(children') = Len(children)
  BY ExceptSeq
<1>2. children'[i] = c
  BY ElementOfSeq, LenProperties
<1>3. ASSUME NEW j \in 1 .. Len(children), j # i
      PROVE  children'[j] = children[j]
  BY <1>3, LenProperties
<1> QED
  BY <1>1, <1>2, <1>3 DEF ChildMoves

LEMMA ChildEnds ==
    ASSUME ChildrenInv, NEW i \in 1 .. Len(children), NEW code \in {0, 1},
           children' = End(i, code)
    PROVE  ChildMoves(i) /\ children'[i].stage = "ended"
           /\ children'[i].code = code
<1> DEFINE c == [children[i] EXCEPT !.stage = "ended", !.code = code]
<1>1. children \in Seq(ChildRecords)
  BY DEF ChildrenInv
<1>2. children[i] \in ChildRecords
  BY <1>1, ElementOfSeq
<1>3. c \in ChildRecords
  BY <1>2 DEF ChildRecords
<1>4. /\ c.kind = children[i].kind /\ c.wanted = children[i].wanted
      /\ c.stage = "ended" /\ c.code = code
  BY <1>2 DEF ChildRecords
<1>5. children' = [children EXCEPT ![i] = c]
  BY <1>1, <1>2 DEF End, ChildRecords
<1> HIDE DEF c
<1> QED
  BY <1>1, <1>3, <1>4, <1>5, ChildReplaced

(* An installer of voices gets to another package, or to a stage of one.   *)
GetsTo(i, stage, todo, fetched) ==
    children' = [children EXCEPT ![i].stage = stage, ![i].todo = todo,
                                 ![i].fetched = fetched]

LEMMA ChildPlaces ==
    ASSUME ChildrenInv, NEW i \in 1 .. Len(children),
           NEW stage \in {"running", "placing"},
           NEW todo \in SUBSET Packages, NEW fetched \in SUBSET Packages,
           GetsTo(i, stage, todo, fetched)
    PROVE  ChildMoves(i) /\ children'[i].stage = stage
           /\ children'[i].todo = todo /\ children'[i].fetched = fetched
<1> DEFINE c == [children[i] EXCEPT !.stage = stage, !.todo = todo,
                                    !.fetched = fetched]
<1>1. children \in Seq(ChildRecords)
  BY DEF ChildrenInv
<1>2. children[i] \in ChildRecords
  BY <1>1, ElementOfSeq
<1>3. c \in ChildRecords
  BY <1>2 DEF ChildRecords
<1>4. /\ c.kind = children[i].kind /\ c.wanted = children[i].wanted
      /\ c.stage = stage /\ c.todo = todo /\ c.fetched = fetched
  BY <1>2 DEF ChildRecords
<1>5. children' = [children EXCEPT ![i] = c]
  BY <1>1, <1>2 DEF GetsTo, ChildRecords
<1> HIDE DEF c
<1> QED
  BY <1>1, <1>3, <1>4, <1>5, ChildReplaced

LEMMA ChildLists ==
    ASSUME ChildrenInv, manifest \subseteq Packages,
           NEW i \in 1 .. Len(children),
           children' = [children EXCEPT ![i].stage = "listing",
                                        ![i].listed = manifest]
    PROVE  ChildMoves(i) /\ children'[i].stage = "listing"
           /\ children'[i].listed = manifest
           /\ children'[i].todo = children[i].todo
           /\ children'[i].fetched = children[i].fetched
<1> DEFINE c == [children[i] EXCEPT !.stage = "listing", !.listed = manifest]
<1>1. children \in Seq(ChildRecords)
  BY DEF ChildrenInv
<1>2. children[i] \in ChildRecords
  BY <1>1, ElementOfSeq
<1>3. c \in ChildRecords
  BY <1>2 DEF ChildRecords
<1>4. /\ c.kind = children[i].kind /\ c.wanted = children[i].wanted
      /\ c.stage = "listing" /\ c.todo = children[i].todo
      /\ c.fetched = children[i].fetched
      /\ c.listed = manifest
  BY <1>2 DEF ChildRecords
<1>5. children' = [children EXCEPT ![i] = c]
  BY <1>1, <1>2 DEF ChildRecords
<1> HIDE DEF c
<1> QED
  BY <1>1, <1>3, <1>4, <1>5, ChildReplaced

LEMMA ChildSetsAside ==
    ASSUME ChildrenInv, runtime \in BOOLEAN, NEW i \in 1 .. Len(children),
           children' = [children EXCEPT ![i].stage = "swapping",
                                        ![i].aside = runtime]
    PROVE  ChildMoves(i) /\ children'[i].stage = "swapping"
           /\ children'[i].aside = runtime
<1> DEFINE c == [children[i] EXCEPT !.stage = "swapping", !.aside = runtime]
<1>1. children \in Seq(ChildRecords)
  BY DEF ChildrenInv
<1>2. children[i] \in ChildRecords
  BY <1>1, ElementOfSeq
<1>3. c \in ChildRecords
  BY <1>2 DEF ChildRecords
<1>4. /\ c.kind = children[i].kind /\ c.wanted = children[i].wanted
      /\ c.stage = "swapping" /\ c.aside = runtime
  BY <1>2 DEF ChildRecords
<1>5. children' = [children EXCEPT ![i] = c]
  BY <1>1, <1>2 DEF ChildRecords
<1> HIDE DEF c
<1> QED
  BY <1>1, <1>3, <1>4, <1>5, ChildReplaced

(* A child is started: it comes last, and the server keeps it.             *)
ChildStarts(kind, wanted) ==
    /\ children' \in Seq(ChildRecords)
    /\ Len(children') = Len(children) + 1
    /\ \A j \in 1 .. Len(children) : children'[j] = children[j]
    /\ children'[Len(children) + 1] = Child(kind, wanted)
    /\ tracked' = [tracked EXCEPT ![kind] = Len(children) + 1]

LEMMA ChildStarted ==
    ASSUME ChildrenInv, restarts \in Nat,
           NEW kind \in Kinds, NEW wanted \in SUBSET Packages,
           StartChild(kind, wanted)
    PROVE  ChildStarts(kind, wanted)
<1> DEFINE c == Child(kind, wanted)
<1>1. children \in Seq(ChildRecords) /\ Len(children) \in Nat
  BY LenProperties DEF ChildrenInv
<1>2. c \in ChildRecords
  BY DEF Child, ChildRecords
<1>3. children' = Append(children, c)
      /\ tracked' = [tracked EXCEPT ![kind] = Len(children) + 1]
  BY DEF StartChild
<1>4. c = Child(kind, wanted)
  OBVIOUS
<1> HIDE DEF c
<1>5. /\ children' \in Seq(ChildRecords)
      /\ Len(children') = Len(children) + 1
      /\ \A j \in 1 .. Len(children) : children'[j] = children[j]
      /\ children'[Len(children) + 1] = c
  BY <1>1, <1>2, <1>3, AppendProperties
<1> QED
  BY <1>3, <1>4, <1>5 DEF ChildStarts

-----------------------------------------------------------------------------
(* The steps, by what the invariant sees of them.                          *)

(* Only statuses change, and none of the voices turns to "installing".     *)
Quiet ==
    /\ status' \in [Kinds -> Statuses]
    /\ status'["tts"] = "installing" => status["tts"] = "installing"
    /\ overlapped => overlapped'
    /\ UNCHANGED <<tracked, children, voiceVars, removals, cudaVars, restarts>>

Starts ==
    \E kind \in Kinds, wanted \in SUBSET Packages :
       /\ StartChild(kind, wanted)
       /\ status' = [status EXCEPT ![kind] = "installing"]
       /\ (overlapped \/ Overlaps(kind)) => overlapped'
       /\ UNCHANGED <<voiceVars, removals, cudaVars, restarts>>

(* What a look at the status of a kind can give.                           *)
LEMMA PolledCases ==
    ASSUME ServerInv, NEW kind \in Kinds
    PROVE  \/ Polled(kind) = status[kind]
           \/ /\ Underway(kind) /\ tracked[kind] # 0 /\ Ended(tracked[kind])
              /\ \/ /\ Polled(kind) = "complete"
                    /\ children[tracked[kind]].code = 0
                    /\ Ready(kind, tracked[kind])
                 \/ /\ Polled(kind) = "error"
                    /\ ~(children[tracked[kind]].code = 0
                         /\ Ready(kind, tracked[kind]))
  BY DEF Polled

LEMMA PolledStatus ==
    ASSUME ServerInv, NEW kind \in Kinds, PollEffects(kind)
    PROVE  /\ status' \in [Kinds -> Statuses]
           /\ status'["tts"] = "installing" => status["tts"] = "installing"
<1>1. status \in [Kinds -> Statuses] /\ status[kind] \in Statuses
  BY DEF ServerInv
<1>2. Polled(kind) \in {status[kind], "complete", "error"}
  BY PolledCases
<1>3. status' = [status EXCEPT ![kind] = Polled(kind)]
  BY DEF PollEffects
<1> QED
  BY <1>1, <1>2, <1>3 DEF Statuses

LEMMA QuietSteps ==
    ASSUME ServerInv,
           \/ InstallTranslationFails \/ MarkUpdate
           \/ \E kind \in Kinds :
                Poll(kind) \/ Check(kind) \/ GiveUp(kind) \/ LaunchFails(kind)
    PROVE  Quiet
<1>1. status \in [Kinds -> Statuses]
  BY DEF ServerInv
<1>2. CASE InstallTranslationFails
  BY <1>1, <1>2 DEF InstallTranslationFails, Quiet, Kinds, Statuses, bounds
<1>3. CASE MarkUpdate
  BY <1>1, <1>3 DEF MarkUpdate, Quiet, Kinds, Statuses, bounds
<1>4. ASSUME NEW kind \in Kinds, Poll(kind) PROVE Quiet
  <2>1. PollEffects(kind)
    BY <1>4 DEF Poll
  <2> QED
    BY <1>4, <2>1, PolledStatus DEF Poll, Quiet, bounds
<1>5. ASSUME NEW kind \in Kinds, Check(kind) PROVE Quiet
  <2>1. PollEffects(kind)
    BY <1>5 DEF Check
  <2> QED
    BY <1>5, <2>1, PolledStatus DEF Check, Quiet, bounds
<1>6. ASSUME NEW kind \in Kinds, GiveUp(kind) PROVE Quiet
  BY <1>1, <1>6 DEF GiveUp, Quiet, bounds
<1>7. ASSUME NEW kind \in Kinds, LaunchFails(kind) PROVE Quiet
  <2>1. status' = [status EXCEPT ![kind] = "error"]
    BY <1>7 DEF LaunchFails
  <2>2. status' \in [Kinds -> Statuses]
        /\ (status'["tts"] = "installing" => status["tts"] = "installing")
    BY <1>1, <2>1 DEF Statuses
  <2>3. overlapped => overlapped'
    BY <1>7, Zenon DEF LaunchFails
  <2> QED
    BY <1>7, <2>2, <2>3, Zenon DEF LaunchFails, Quiet, bounds
<1> QED
  BY <1>2, <1>3, <1>4, <1>5, <1>6, <1>7

LEMMA LaunchStarts ==
    ASSUME NEW kind \in Kinds, NEW wanted \in SUBSET Packages,
           Launch(kind, wanted)
    PROVE  Starts
  BY DEF Launch, Starts, bounds

LEMMA InstallStarts ==
    ASSUME InstallTranslation
    PROVE  Starts
<1>1. "translation" \in Kinds /\ {} \in SUBSET Packages
  BY DEF Kinds
<1>2. /\ StartChild("translation", {})
      /\ status' = [status EXCEPT !["translation"] = "installing"]
      /\ (overlapped \/ Overlaps("translation")) => overlapped'
      /\ UNCHANGED <<voiceVars, removals, cudaVars, restarts>>
  BY DEF InstallTranslation, bounds, Overlaps
<1> QED
  BY <1>1, <1>2 DEF Starts

RemovalChecked ==
    \E s \in Slots, selected \in SUBSET Packages : CheckRemoval(s, selected)
ChildGoesOn == \E i \in 1 .. Len(children) : ChildStep(i) \/ Kill(i)
RemovalGoesOn == \E s \in Slots : RemovalStep(s)

LEMMA NextCases ==
    ASSUME ServerInv, Next
    PROVE  Quiet \/ Starts \/ RemovalChecked \/ ChildGoesOn \/ RemovalGoesOn
           \/ Restart
<1>1. {"translation", "tts", "cuda", "update"} = Kinds
  BY DEF Kinds
<1>2. CASE Request
  <2>1. CASE InstallTranslation
    BY <2>1, InstallStarts
  <2>2. CASE InstallTranslationFails
    BY <2>2, QuietSteps
  <2>3. CASE InstallTranslatedAudio \/ InstallCudaRuntime \/ StartUpdate
    BY <1>1, <2>3, QuietSteps
      DEF InstallTranslatedAudio, InstallCudaRuntime, StartUpdate
  <2>4. CASE \E wanted \in SUBSET Packages \ {{}}, s \in Slots :
               CheckRemoval(s, wanted)
    BY <2>4 DEF RemovalChecked
  <2> QED
    BY <1>2, <2>1, <2>2, <2>3, <2>4 DEF Request
<1>3. CASE Step
  <2>1. CASE MarkUpdate
    BY <2>1, QuietSteps
  <2>2. CASE Restart
    BY <2>2
  <2>3. CASE TranslationInstallState \/ TtsInstallState
             \/ CudaRuntimeCapabilityState \/ UpdateCapabilityState
    BY <1>1, <2>3, QuietSteps
      DEF TranslationInstallState, TtsInstallState,
          CudaRuntimeCapabilityState, UpdateCapabilityState
  <2>4. CASE \E kind \in Kinds \ {"translation"} :
               GiveUp(kind) \/ LaunchFails(kind)
    BY <2>4, QuietSteps
  <2>5. CASE LaunchCudaRuntimeInstall \/ LaunchUpdateProcess
    BY <1>1, <2>5, LaunchStarts
      DEF LaunchCudaRuntimeInstall, LaunchUpdateProcess
  <2>6. CASE \E wanted \in SUBSET Packages \ {{}} : LaunchVoices(wanted)
    BY <1>1, <2>6, LaunchStarts DEF LaunchVoices
  <2>7. CASE ChildGoesOn
    BY <2>7
  <2>8. CASE RemovalGoesOn
    BY <2>8
  <2> QED
    BY <1>3, <2>1, <2>2, <2>3, <2>4, <2>5, <2>6, <2>7, <2>8
      DEF Step, ChildGoesOn, RemovalGoesOn
<1> QED
  BY <1>2, <1>3 DEF Next

-----------------------------------------------------------------------------
(* The steps of a child, by what becomes of it.                            *)

Common ==
    UNCHANGED <<status, tracked, removals, restarts, overlapped, staged,
                prepared>>

PutsInPlace(i) ==
    LET from == children[i]
        to == children'[i]
    IN  /\ from.kind = "tts" /\ from.stage \in {"running", "placing"}
        /\ to.stage \in {"running", "placing"}
        /\ \/ /\ folders' = folders /\ to.fetched = from.fetched
              /\ \E p \in folders : to.todo = from.todo \ {p}
           \/ /\ folders' = folders /\ to.fetched \cap folders = {}
              /\ to.todo = from.todo
           \/ /\ folders' = folders \ from.fetched
              /\ to.todo = from.todo /\ to.fetched = from.fetched
           \/ /\ folders' = folders \cup from.fetched
              /\ to.todo = from.todo \ from.fetched /\ to.fetched = {}
        /\ UNCHANGED <<manifest, cudaVars>>

Lists(i) ==
    /\ children[i].kind = "tts" /\ children[i].stage = "running"
    /\ children[i].todo = {}
    /\ children'[i].stage = "listing" /\ children'[i].listed = manifest
    /\ children'[i].todo = {} /\ children'[i].fetched = children[i].fetched
    /\ UNCHANGED <<folders, manifest, cudaVars>>

PutsAside(i) ==
    /\ children[i].kind = "cuda" /\ children[i].stage = "running"
    /\ children'[i].stage = "swapping" /\ children'[i].aside = runtime
    /\ runtime' = FALSE
    /\ UNCHANGED <<folders, manifest, had, torn>>

(* It ends: after it wrote the list, with the runtime in place, or not.    *)
Ends(i) ==
    /\ children[i].stage # "ended" /\ children'[i].stage = "ended"
    /\ folders' = folders
    /\ \/ /\ children[i].stage = "listing"
          /\ manifest' = children[i].listed \cup children[i].wanted
          /\ UNCHANGED cudaVars
       \/ /\ manifest' = manifest
          /\ children'[i].code = 0 => children[i].kind # "tts"
          /\ \/ children[i].stage = "swapping" /\ runtime' = TRUE
             \/ /\ children[i].stage = "swapping"
                /\ runtime' = (runtime \/ children[i].aside)
                /\ UNCHANGED <<had, torn>>
             \/ children[i].stage = "swapping" /\ torn' = TRUE
                /\ runtime' = runtime
             \/ children[i].stage # "swapping" /\ runtime' = runtime
                /\ UNCHANGED had /\ (torn => torn')

LEMMA ChildCases ==
    ASSUME ServerInv, ChildrenInv, NEW i \in 1 .. Len(children),
           ChildStep(i) \/ Kill(i)
    PROVE  /\ ChildMoves(i) /\ Common
           /\ PutsInPlace(i) \/ Lists(i) \/ PutsAside(i) \/ Ends(i)
<1>1. /\ children[i].stage = "swapping" => children[i].kind = "cuda"
      /\ children[i].stage \in {"placing", "listing"}
           => children[i].kind = "tts"
      /\ children \in Seq(ChildRecords)
  BY DEF ChildrenInv
<1>2. CASE FetchVoice(i) \/ ClearPlace(i) \/ PlaceVoice(i)
  <2> DEFINE from == children[i]
  <2>1. from \in ChildRecords
    BY <1>1, ElementOfSeq
  <2>2. from.todo \in SUBSET Packages /\ from.fetched \in SUBSET Packages
    BY <2>1, ChildFields
  <2>3. CASE FetchVoice(i)
    <3>1. PICK p \in from.todo :
            children' = IF p \in folders
                        THEN [children EXCEPT ![i].todo = @ \ {p}]
                        ELSE [children EXCEPT ![i].fetched = {p}]
      BY <2>3 DEF FetchVoice
    <3>2. /\ from.kind = "tts" /\ from.stage = "running" /\ Common
          /\ folders' = folders /\ UNCHANGED <<manifest, cudaVars>>
      BY <2>3 DEF FetchVoice, Common, jobVars, voiceVars, cudaVars, bounds
    <3>3. CASE p \in folders
      <4>1. GetsTo(i, "running", from.todo \ {p}, from.fetched)
        BY <1>1, <2>1, <3>1, <3>2, <3>3 DEF GetsTo, ChildRecords
      <4>2. /\ ChildMoves(i) /\ children'[i].stage = "running"
            /\ children'[i].todo = from.todo \ {p}
            /\ children'[i].fetched = from.fetched
        BY <2>2, <4>1, ChildPlaces
      <4> QED
        BY <3>2, <3>3, <4>2 DEF PutsInPlace
    <3>4. CASE p \notin folders
      <4>1. GetsTo(i, "running", from.todo, {p})
        BY <1>1, <2>1, <3>1, <3>2, <3>4 DEF GetsTo, ChildRecords
      <4>2. /\ ChildMoves(i) /\ children'[i].stage = "running"
            /\ children'[i].todo = from.todo /\ children'[i].fetched = {p}
        BY <2>2, <4>1, ChildPlaces
      <4> QED
        BY <3>2, <3>4, <4>2 DEF PutsInPlace
    <3> QED
      BY <3>3, <3>4
  <2>4. CASE ClearPlace(i)
    <3>1. GetsTo(i, "placing", from.todo, from.fetched)
      BY <1>1, <2>1, <2>4 DEF ClearPlace, GetsTo, ChildRecords
    <3>2. /\ ChildMoves(i) /\ children'[i].stage = "placing"
          /\ children'[i].todo = from.todo
          /\ children'[i].fetched = from.fetched
      BY <2>2, <3>1, ChildPlaces
    <3> QED
      BY <2>4, <3>2
        DEF ClearPlace, PutsInPlace, Common, jobVars, cudaVars, bounds
  <2>5. CASE PlaceVoice(i)
    <3>1. GetsTo(i, "running", from.todo \ from.fetched, {})
      BY <1>1, <2>1, <2>5 DEF PlaceVoice, GetsTo, ChildRecords
    <3>2. /\ ChildMoves(i) /\ children'[i].stage = "running"
          /\ children'[i].todo = from.todo \ from.fetched
          /\ children'[i].fetched = {}
      BY <2>2, <3>1, ChildPlaces
    <3> QED
      BY <1>1, <2>5, <3>2
        DEF PlaceVoice, PutsInPlace, Common, jobVars, cudaVars, bounds
  <2> QED
    BY <1>2, <2>3, <2>4, <2>5
<1>3. CASE ReadList(i)
  <2>1. ChildMoves(i) /\ children'[i].stage = "listing"
        /\ children'[i].listed = manifest
        /\ children'[i].todo = children[i].todo
        /\ children'[i].fetched = children[i].fetched
    BY <1>3, ChildLists DEF ReadList, ServerInv
  <2> QED
    BY <1>3, <2>1
      DEF ReadList, Lists, Common, jobVars, voiceVars, cudaVars, bounds
<1>4. CASE SetAside(i)
  <2>1. ChildMoves(i) /\ children'[i].stage = "swapping"
        /\ children'[i].aside = runtime
    BY <1>4, ChildSetsAside DEF SetAside, ServerInv
  <2> QED
    BY <1>4, <2>1
      DEF SetAside, PutsAside, Common, jobVars, voiceVars, bounds
<1>5. CASE WriteList(i)
  <2>1. PICK code \in {0, 1} : children' = End(i, code)
    BY <1>5 DEF WriteList
  <2>2. ChildMoves(i) /\ children'[i].stage = "ended"
    BY <2>1, ChildEnds
  <2> QED
    BY <1>5, <2>2 DEF WriteList, Ends, Common, jobVars, cudaVars, bounds
<1>6. CASE SwapIn(i)
  <2>1. ChildMoves(i) /\ children'[i].stage = "ended"
    BY <1>6, ChildEnds DEF SwapIn
  <2> QED
    BY <1>1, <1>6, <2>1 DEF SwapIn, Ends, Common, jobVars, voiceVars, bounds
<1>7. CASE SwapFails(i)
  <2>1. ChildMoves(i) /\ children'[i].stage = "ended"
    BY <1>7, ChildEnds DEF SwapFails
  <2> QED
    BY <1>1, <1>7, <2>1 DEF SwapFails, Ends, Common, jobVars, voiceVars, bounds
<1>8. CASE Succeed(i)
  <2>1. ChildMoves(i) /\ children'[i].stage = "ended"
    BY <1>8, ChildEnds DEF Succeed
  <2> QED
    BY <1>1, <1>8, <2>1
      DEF Succeed, Ended, Ends, Common, jobVars, voiceVars, cudaVars, bounds
<1>9. CASE VoicesFail(i) \/ RuntimeFails(i) \/ TranslationFails(i)
           \/ UpdateFails(i)
  <2>1. Fail(i) /\ children[i].stage \notin {"ended", "swapping"}
    BY <1>1, <1>9
      DEF VoicesFail, RuntimeFails, TranslationFails, UpdateFails, Ended
  <2>2. ChildMoves(i) /\ children'[i].stage = "ended"
        /\ children'[i].code = 1
    BY <2>1, ChildEnds DEF Fail
  <2> QED
    BY <2>1, <2>2
      DEF Fail, Ends, Common, jobVars, voiceVars, cudaVars, bounds
<1>10. CASE Kill(i)
  <2>1. ChildMoves(i) /\ children'[i].stage = "ended"
        /\ children'[i].code = 1
    BY <1>10, ChildEnds DEF Kill
  <2>2. /\ children[i].stage # "ended" /\ folders' = folders
        /\ manifest' = manifest /\ runtime' = runtime /\ UNCHANGED had
        /\ Common
    BY <1>10 DEF Kill, Ended, Common, jobVars, voiceVars
  <2>3. torn' = (torn \/ children[i].stage = "swapping")
    BY <1>10 DEF Kill
  <2>4. /\ torn => torn'
        /\ children[i].stage = "swapping" => torn' = TRUE
    BY <2>3, Zenon
  <2>5. children'[i].code # 0
    BY <2>1
  <2> QED
    BY <2>1, <2>2, <2>4, <2>5, Zenon DEF Ends
<1> QED
  BY <1>2, <1>3, <1>4, <1>5, <1>6, <1>7, <1>8, <1>9, <1>10 DEF ChildStep

-----------------------------------------------------------------------------
(* The server's records and the children's records.                        *)

LEMMA RemovalSet ==
    ASSUME removals \in [Slots -> RemovalRecords], NEW s \in Slots,
           NEW r \in RemovalRecords, SetRemoval(s, r)
    PROVE  /\ removals' \in [Slots -> RemovalRecords]
           /\ removals'[s] = r
           /\ \A t \in Slots : t # s => removals'[t] = removals[t]
  BY DEF SetRemoval

LEMMA RemovalFields ==
    ASSUME NEW r \in RemovalRecords
    PROVE  /\ r.stage \in Removing \cup {"none"}
           /\ r.todo \in SUBSET Packages /\ r.listed \in SUBSET Packages
           /\ r.moved \in SUBSET Packages
  BY DEF RemovalRecords

LEMMA NoRemovalFacts ==
    /\ NoRemoval \in RemovalRecords /\ NoRemoval.stage = "none"
    /\ [NoRemoval EXCEPT !.stage = "reloading"] \in RemovalRecords
    /\ [NoRemoval EXCEPT !.stage = "reloading"].stage = "reloading"
  BY DEF NoRemoval, RemovalRecords, Removing

(* The removal of slot s goes on; what becomes of its record is r.         *)
RemovalTo(s, r) ==
    /\ r \in RemovalRecords /\ SetRemoval(s, r)

LEMMA UndoFacts ==
    ASSUME ServerInv, NEW s \in Slots, Undo(s)
    PROVE  /\ RemovalTo(s, NoRemoval)
           /\ prepared' = {} /\ manifest' = manifest
           /\ folders \cup (removals[s].moved \cap staged) = folders'
  BY NoRemovalFacts DEF Undo, RemovalTo

-----------------------------------------------------------------------------
(* The steps of a removal, by what becomes of it.                          *)

RemovalCommon ==
    UNCHANGED <<tracked, children, cudaVars, restarts, overlapped>>

(* It is given up, with everything it had set aside in its place.          *)
GivenUp(s) ==
    /\ removals'[s].stage = "none" /\ UNCHANGED <<status, manifest>>
    /\ \/ removals[s].stage = "checked" /\ UNCHANGED <<folders, staged, prepared>>
       \/ /\ removals[s].stage \in {"staging", "replacing"}
          /\ folders \cup (removals[s].moved \cap staged) = folders'
          /\ prepared' = {}

Read(s) ==
    /\ removals[s].stage = "checked" /\ removals'[s].stage = "staging"
    /\ removals'[s].listed = manifest \ removals[s].todo
    /\ removals'[s].todo = removals[s].todo \cap manifest
    /\ UNCHANGED <<status, voiceVars>>

Staged(s) ==
    /\ removals[s].stage = "staging" /\ removals'[s].stage = "staging"
    /\ \E p \in removals[s].todo :
         /\ p \notin folders \/ p \notin staged
         /\ removals'[s].listed = removals[s].listed
         /\ removals'[s].todo = removals[s].todo \ {p}
         /\ removals'[s].moved = IF p \in folders THEN removals[s].moved \cup {p}
                                 ELSE removals[s].moved
         /\ folders' = folders \ {p}
         /\ staged' = IF p \in folders THEN staged \cup {p} ELSE staged
    /\ UNCHANGED <<status, manifest, prepared>>

Prepared(s) ==
    /\ removals[s].stage = "staging" /\ removals'[s].stage = "replacing"
    /\ removals'[s].listed = removals[s].listed
    /\ removals'[s].moved = removals[s].moved
    /\ prepared' = {removals[s].listed}
    /\ UNCHANGED <<status, folders, staged, manifest>>

Replaced(s) ==
    /\ removals[s].stage = "replacing" /\ removals'[s].stage = "clearing"
    /\ manifest' = UNION prepared /\ prepared' = {}
    /\ UNCHANGED <<status, folders, staged>>

Cleared(s) ==
    /\ removals[s].stage \in {"clearing", "reloading"}
    /\ removals'[s].stage \in {"none", "reloading"}
    /\ status' \in [Kinds -> Statuses] /\ UNCHANGED <<folders, manifest, prepared>>
    /\ status'["tts"] = "installing" => status["tts"] = "installing"

RemovalMoves(s) ==
    /\ removals' \in [Slots -> RemovalRecords]
    /\ \A t \in Slots : t # s => removals'[t] = removals[t]
    /\ removals[s].stage # "none"

LEMMA RemovalCases ==
    ASSUME ServerInv, NEW s \in Slots, RemovalStep(s)
    PROVE  /\ RemovalMoves(s) /\ RemovalCommon
           /\ \/ GivenUp(s) \/ Read(s) \/ Staged(s) \/ Prepared(s)
              \/ Replaced(s) \/ Cleared(s)
<1> DEFINE r == removals[s]
<1>1. removals \in [Slots -> RemovalRecords] /\ r \in RemovalRecords
  BY DEF ServerInv
<1>2. status \in [Kinds -> Statuses] /\ manifest \in SUBSET Packages
  BY DEF ServerInv
<1>3. ASSUME NEW q, q \in RemovalRecords, SetRemoval(s, q), r.stage # "none"
      PROVE  RemovalMoves(s) /\ removals'[s] = q
  BY <1>1, <1>3, RemovalSet DEF RemovalMoves
<1>4. ASSUME Undo(s), r.stage \in {"staging", "replacing"},
             UNCHANGED <<jobVars, children, packs, cudaVars, bounds, overlapped>>
      PROVE  RemovalMoves(s) /\ RemovalCommon /\ GivenUp(s)
  <2>1. RemovalMoves(s) /\ removals'[s] = NoRemoval
    BY <1>3, <1>4, UndoFacts DEF RemovalTo
  <2> QED
    BY <1>4, <2>1, UndoFacts, NoRemovalFacts
      DEF RemovalCommon, GivenUp, jobVars, bounds
<1>5. CASE ReadManifest(s)
  <2> DEFINE q == [r EXCEPT !.stage = "staging", !.todo = @ \cap manifest,
                            !.listed = manifest \ r.todo]
  <2>1. /\ q \in RemovalRecords /\ q.stage = "staging"
        /\ q.todo = r.todo \cap manifest /\ q.listed = manifest \ r.todo
    BY <1>1, <1>2 DEF RemovalRecords, Removing
  <2>2. /\ r.stage = "checked" /\ UNCHANGED <<status, voiceVars>>
        /\ RemovalCommon
    BY <1>5 DEF ReadManifest, RemovalCommon, jobVars, bounds
  <2>3. SetRemoval(s, NoRemoval) \/ SetRemoval(s, q)
    BY <1>5 DEF ReadManifest
  <2> HIDE DEF q
  <2>4. CASE SetRemoval(s, NoRemoval)
    BY <1>3, <2>2, <2>4, NoRemovalFacts DEF GivenUp, voiceVars
  <2>5. CASE SetRemoval(s, q)
    BY <1>3, <2>1, <2>2, <2>5 DEF Read
  <2> QED
    BY <2>3, <2>4, <2>5
<1>6. CASE StageVoice(s)
  <2>1. PICK p \in r.todo :
          IF p \in folders /\ p \in staged THEN Undo(s)
          ELSE /\ SetRemoval(s, [r EXCEPT !.todo = @ \ {p},
                                          !.moved = IF p \in folders
                                                    THEN @ \cup {p} ELSE @])
               /\ folders' = folders \ {p}
               /\ staged' = IF p \in folders THEN staged \cup {p} ELSE staged
               /\ UNCHANGED <<manifest, prepared>>
    BY <1>6 DEF StageVoice
  <2>2. /\ r.stage = "staging"
        /\ UNCHANGED <<jobVars, children, packs, cudaVars, bounds, overlapped>>
    BY <1>6 DEF StageVoice
  <2>3. CASE p \in folders /\ p \in staged
    BY <1>4, <2>1, <2>2, <2>3
  <2>4. CASE ~(p \in folders /\ p \in staged)
    <3> DEFINE m == IF p \in folders THEN r.moved \cup {p} ELSE r.moved
               q == [r EXCEPT !.todo = r.todo \ {p}, !.moved = m]
    <3>1. m \in SUBSET Packages
      BY <1>1, RemovalFields
    <3>2. SetRemoval(s, q)
      BY <1>1, <2>1, <2>4
    <3>3. q \in RemovalRecords /\ q.stage = "staging"
          /\ q.todo = r.todo \ {p} /\ q.listed = r.listed /\ q.moved = m
      <4> HIDE DEF m
      <4> QED
        BY <1>1, <2>2, <3>1 DEF RemovalRecords
    <3> HIDE DEF q
    <3>4. RemovalMoves(s) /\ removals'[s] = q
      BY <1>3, <2>2, <3>2, <3>3
    <3> QED
      BY <2>1, <2>2, <2>4, <3>3, <3>4
        DEF RemovalCommon, Staged, jobVars, bounds
  <2> QED
    BY <2>3, <2>4
<1>7. CASE PrepareManifest(s)
  <2> DEFINE q == [r EXCEPT !.stage = "replacing"]
  <2>1. q \in RemovalRecords /\ q.stage = "replacing"
        /\ q.listed = r.listed /\ q.moved = r.moved
    BY <1>1 DEF RemovalRecords, Removing
  <2>2. SetRemoval(s, q) /\ r.stage = "staging"
    BY <1>7 DEF PrepareManifest
  <2> HIDE DEF q
  <2> QED
    BY <1>3, <1>7, <2>1, <2>2
      DEF PrepareManifest, RemovalCommon, Prepared, jobVars, bounds
<1>8. CASE ReplaceManifest(s)
  <2> DEFINE q == [r EXCEPT !.stage = "clearing"]
  <2>1. q \in RemovalRecords /\ q.stage = "clearing"
    BY <1>1 DEF RemovalRecords, Removing
  <2>2. /\ r.stage = "replacing"
        /\ UNCHANGED <<jobVars, children, packs, cudaVars, bounds, overlapped>>
    BY <1>8 DEF ReplaceManifest
  <2>3. Undo(s)
        \/ /\ manifest' = UNION prepared /\ prepared' = {}
           /\ SetRemoval(s, q) /\ UNCHANGED <<folders, staged>>
    BY <1>8 DEF ReplaceManifest
  <2> HIDE DEF q
  <2>4. CASE Undo(s)
    BY <1>4, <2>2, <2>4
  <2>5. CASE /\ manifest' = UNION prepared /\ prepared' = {}
             /\ SetRemoval(s, q) /\ UNCHANGED <<folders, staged>>
    BY <1>3, <2>1, <2>2, <2>5 DEF RemovalCommon, Replaced, jobVars, bounds
  <2> QED
    BY <2>3, <2>4, <2>5
<1>9. CASE RemovalFails(s)
  BY <1>4, <1>9 DEF RemovalFails
<1>10. CASE ClearStaged(s)
  <2> DEFINE q == [NoRemoval EXCEPT !.stage = "reloading"]
  <2>1. q \in RemovalRecords /\ q.stage = "reloading"
    BY NoRemovalFacts
  <2>2. r.stage = "clearing" /\ (SetRemoval(s, q) \/ SetRemoval(s, NoRemoval))
    BY <1>10 DEF ClearStaged
  <2>3. RemovalCommon /\ UNCHANGED <<status, folders, manifest, prepared>>
    BY <1>10 DEF ClearStaged, RemovalCommon, jobVars, bounds
  <2> HIDE DEF q
  <2> QED
    BY <1>2, <1>3, <2>1, <2>2, <2>3, NoRemovalFacts DEF Cleared
<1>11. CASE FinishRemoval(s)
  <2>1. RemovalMoves(s) /\ removals'[s] = NoRemoval
    BY <1>3, <1>11, NoRemovalFacts DEF FinishRemoval
  <2>2. status' = [status EXCEPT !["tts"] = "idle"]
    BY <1>11 DEF FinishRemoval
  <2>3. status' \in [Kinds -> Statuses]
        /\ (status'["tts"] = "installing" => status["tts"] = "installing")
    BY <1>2, <2>2 DEF Statuses, Kinds
  <2> QED
    BY <1>11, <2>1, <2>3, NoRemovalFacts
      DEF FinishRemoval, RemovalCommon, Cleared, voiceVars, bounds
<1> QED
  BY <1>5, <1>6, <1>7, <1>8, <1>9, <1>10, <1>11 DEF RemovalStep

-----------------------------------------------------------------------------
(* The other steps, as facts about what they leave.                        *)

LEMMA StartCases ==
    ASSUME ServerInv, ChildrenInv, Starts
    PROVE  \E kind \in Kinds, wanted \in SUBSET Packages :
             /\ ChildStarts(kind, wanted)
             /\ status' = [status EXCEPT ![kind] = "installing"]
             /\ (overlapped \/ Overlaps(kind)) => overlapped'
             /\ UNCHANGED <<voiceVars, removals, cudaVars, restarts>>
<1>1. PICK kind \in Kinds, wanted \in SUBSET Packages :
             /\ StartChild(kind, wanted)
             /\ status' = [status EXCEPT ![kind] = "installing"]
             /\ (overlapped \/ Overlaps(kind)) => overlapped'
             /\ UNCHANGED <<voiceVars, removals, cudaVars, restarts>>
  BY DEF Starts
<1>2. ChildStarts(kind, wanted)
  BY <1>1, ChildStarted DEF ServerInv
<1> QED
  BY <1>1, <1>2

(* A removal is taken: in a free slot, and noted if it overlaps.           *)
Taken(s) ==
    /\ s \notin Busy
    /\ removals' \in [Slots -> RemovalRecords]
    /\ removals'[s].stage = "checked"
    /\ \A t \in Slots : t # s => removals'[t] = removals[t]
    /\ status' \in [Kinds -> Statuses] /\ status'["tts"] # "installing"
    /\ (overlapped \/ Busy # {} \/ Alive("tts") # {}) => overlapped'
    /\ UNCHANGED <<tracked, children, voiceVars, cudaVars, restarts>>

LEMMA TakenCases ==
    ASSUME ServerInv, RemovalChecked
    PROVE  \E s \in Slots : Taken(s)
<1>1. PICK s \in Slots, selected \in SUBSET Packages :
        CheckRemoval(s, selected)
  BY DEF RemovalChecked
<1> DEFINE q == [NoRemoval EXCEPT !.stage = "checked", !.todo = selected]
<1>2. q \in RemovalRecords /\ q.stage = "checked"
  BY DEF NoRemoval, RemovalRecords, Removing
<1>3. SetRemoval(s, q) /\ PollEffects("tts") /\ "tts" \in Kinds
  BY <1>1 DEF CheckRemoval, Kinds
<1>4. status' \in [Kinds -> Statuses]
  BY <1>3, PolledStatus
<1>5. (overlapped \/ Busy # {} \/ Alive("tts") # {}) => overlapped'
  BY <1>1, Zenon DEF CheckRemoval
<1>6. removals \in [Slots -> RemovalRecords]
  BY DEF ServerInv
<1> HIDE DEF q
<1>7. /\ removals' \in [Slots -> RemovalRecords]
      /\ removals'[s].stage = "checked"
      /\ \A t \in Slots : t # s => removals'[t] = removals[t]
  BY <1>2, <1>3, <1>6, RemovalSet
<1>8. Taken(s)
  BY <1>1, <1>4, <1>5, <1>7 DEF CheckRemoval, Taken, bounds
<1> QED
  BY <1>8

LEMMA RestartFacts ==
    ASSUME Restart
    PROVE  /\ restarts' = restarts + 1
           /\ status' = [k \in Kinds |-> "idle"]
           /\ tracked' = [k \in Kinds |-> 0]
           /\ removals' = [s \in Slots |-> NoRemoval]
           /\ UNCHANGED <<children, voiceVars, cudaVars, overlapped>>
  BY DEF Restart

LEMMA ServerStep ==
    ASSUME ServerInv, ChildrenInv, Next
    PROVE  ServerInv'
<1>1. /\ status \in [Kinds -> Statuses]
      /\ removals \in [Slots -> RemovalRecords]
      /\ manifest \subseteq Packages /\ prepared \subseteq SUBSET Packages
      /\ runtime \in BOOLEAN /\ restarts \in Nat
  BY DEF ServerInv
<1>2. CASE Quiet
  BY <1>1, <1>2 DEF Quiet, ServerInv, voiceVars, cudaVars
<1>3. CASE Starts
  <2>1. PICK kind \in Kinds :
             /\ status' = [status EXCEPT ![kind] = "installing"]
             /\ UNCHANGED <<voiceVars, removals, cudaVars, restarts>>
    BY <1>3 DEF Starts
  <2> QED
    BY <1>1, <2>1 DEF ServerInv, voiceVars, cudaVars, Statuses
<1>4. CASE RemovalChecked
  <2>1. PICK s \in Slots : Taken(s)
    BY <1>4, TakenCases
  <2> QED
    BY <1>1, <2>1 DEF Taken, ServerInv, voiceVars, cudaVars
<1>5. CASE ChildGoesOn
  <2>1. PICK i \in 1 .. Len(children) : ChildStep(i) \/ Kill(i)
    BY <1>5 DEF ChildGoesOn
  <2>2. children[i] \in ChildRecords
    BY ElementOfSeq DEF ChildrenInv
  <2>3. /\ children[i].aside \in BOOLEAN
        /\ children[i].listed \in SUBSET Packages
        /\ children[i].wanted \in SUBSET Packages
    BY <2>2, ChildFields
  <2>4. /\ ChildMoves(i) /\ Common
        /\ PutsInPlace(i) \/ Lists(i) \/ PutsAside(i) \/ Ends(i)
    BY <2>1, ChildCases
  <2>5. manifest' \subseteq Packages
    BY <1>1, <2>3, <2>4 DEF PutsInPlace, Lists, PutsAside, Ends
  <2>6. runtime' \in BOOLEAN
    BY <1>1, <2>3, <2>4 DEF PutsInPlace, Lists, PutsAside, Ends, cudaVars
  <2> QED
    BY <1>1, <2>4, <2>5, <2>6 DEF Common, ServerInv
<1>6. CASE RemovalGoesOn
  <2>1. PICK s \in Slots : RemovalStep(s)
    BY <1>6 DEF RemovalGoesOn
  <2>2. /\ RemovalMoves(s) /\ RemovalCommon
        /\ \/ GivenUp(s) \/ Read(s) \/ Staged(s) \/ Prepared(s)
           \/ Replaced(s) \/ Cleared(s)
    BY <2>1, RemovalCases
  <2>3. removals[s].listed \in SUBSET Packages
    BY <1>1, RemovalFields
  <2>4. status' \in [Kinds -> Statuses]
    BY <1>1, <2>2 DEF GivenUp, Read, Staged, Prepared, Replaced, Cleared
  <2>5. manifest' \subseteq Packages /\ prepared' \subseteq SUBSET Packages
    BY <1>1, <2>2, <2>3
      DEF GivenUp, Read, Staged, Prepared, Replaced, Cleared, voiceVars
  <2> QED
    BY <1>1, <2>2, <2>4, <2>5
      DEF ServerInv, RemovalMoves, RemovalCommon, cudaVars
<1>7. CASE Restart
  BY <1>1, <1>7, RestartFacts, NoRemovalFacts
    DEF ServerInv, voiceVars, cudaVars, Statuses
<1> QED
  BY <1>2, <1>3, <1>4, <1>5, <1>6, <1>7, NextCases

LEMMA ChildrenStep ==
    ASSUME ServerInv, ChildrenInv, Next
    PROVE  ChildrenInv'
<1>1. /\ children \in Seq(ChildRecords) /\ Len(children) \in Nat
      /\ tracked \in [Kinds -> Nat] /\ "tts" \in Kinds
  BY LenProperties DEF ChildrenInv, Kinds
<1>2. CASE UNCHANGED <<tracked, children>>
  BY <1>2 DEF ChildrenInv
<1>3. CASE Starts
  <2>1. PICK kind \in Kinds, wanted \in SUBSET Packages :
          ChildStarts(kind, wanted)
    BY <1>3, StartCases
  <2>2. /\ children' \in Seq(ChildRecords)
        /\ Len(children') = Len(children) + 1
        /\ \A j \in 1 .. Len(children) : children'[j] = children[j]
        /\ tracked' = [tracked EXCEPT ![kind] = Len(children) + 1]
        /\ children'[Len(children) + 1].kind = kind
        /\ children'[Len(children) + 1].stage = "running"
    BY <2>1 DEF ChildStarts, Child
  <2>3. ASSUME NEW i \in 1 .. Len(children')
        PROVE  /\ children'[i].stage = "swapping" => children'[i].kind = "cuda"
               /\ children'[i].stage = "listing" => children'[i].kind = "tts"
    <3>1. i \in 1 .. Len(children) \/ i = Len(children) + 1
      BY <1>1, <2>2
    <3> QED
      BY <2>2, <3>1 DEF ChildrenInv
  <2>4. tracked' \in [Kinds -> Nat]
    BY <1>1, <2>2
  <2>5. ASSUME tracked'["tts"] # 0
        PROVE  tracked'["tts"] <= Len(children')
               /\ children'[tracked'["tts"]].kind = "tts"
    <3>1. CASE kind = "tts"
      BY <1>1, <2>2, <3>1
    <3>2. CASE kind # "tts"
      <4>1. tracked'["tts"] = tracked["tts"] /\ tracked["tts"] \in Nat
        BY <1>1, <2>2, <3>2
      <4>2. tracked["tts"] \in 1 .. Len(children)
            /\ children[tracked["tts"]].kind = "tts"
        BY <1>1, <2>5, <4>1 DEF ChildrenInv
      <4> QED
        BY <1>1, <2>2, <4>1, <4>2
    <3> QED
      BY <3>1, <3>2
  <2> QED
    BY <2>2, <2>3, <2>4, <2>5 DEF ChildrenInv
<1>4. CASE ChildGoesOn
  <2>1. PICK i \in 1 .. Len(children) : ChildStep(i) \/ Kill(i)
    BY <1>4 DEF ChildGoesOn
  <2>2. /\ ChildMoves(i) /\ Common
        /\ PutsInPlace(i) \/ Lists(i) \/ PutsAside(i) \/ Ends(i)
    BY <2>1, ChildCases
  <2>3. /\ children'[i].stage = "swapping" => children'[i].kind = "cuda"
        /\ children'[i].stage \in {"placing", "listing"}
             => children'[i].kind = "tts"
    BY <2>2 DEF PutsInPlace, Lists, PutsAside, Ends, ChildMoves
  <2>4. \A j \in 1 .. Len(children) : children'[j].kind = children[j].kind
    BY <2>2 DEF ChildMoves
  <2>5. tracked["tts"] \in Nat
    BY <1>1
  <2> QED
    BY <1>1, <2>2, <2>3, <2>4, <2>5 DEF ChildMoves, Common, ChildrenInv
<1>5. CASE Restart
  BY <1>1, <1>5, RestartFacts DEF ChildrenInv
<1> QED
  <2>1. CASE Quiet
    BY <1>2, <2>1 DEF Quiet
  <2>2. CASE RemovalChecked
    BY <1>2, <2>2, TakenCases DEF Taken
  <2>3. CASE RemovalGoesOn
    BY <1>2, <2>3, RemovalCases DEF RemovalGoesOn, RemovalCommon
  <2> QED
    BY <1>3, <1>4, <1>5, <2>1, <2>2, <2>3, NextCases

-----------------------------------------------------------------------------
(* The CUDA runtime.                                                       *)

LEMMA RuntimeStep ==
    ASSUME ServerInv, ChildrenInv, RuntimeInv, Next
    PROVE  RuntimeInv'
<1>1. children \in Seq(ChildRecords) /\ Len(children) \in Nat
      /\ runtime \in BOOLEAN
  BY LenProperties DEF ChildrenInv, ServerInv
<1>2. CASE UNCHANGED <<children, cudaVars>>
  BY <1>2 DEF RuntimeInv, cudaVars
<1>3. CASE Starts
  <2>1. PICK kind \in Kinds, wanted \in SUBSET Packages :
          ChildStarts(kind, wanted) /\ UNCHANGED cudaVars
    BY <1>3, StartCases
  <2> QED
    BY <1>1, <2>1 DEF ChildStarts, RuntimeInv, cudaVars
<1>4. CASE ChildGoesOn
  <2>1. PICK i \in 1 .. Len(children) : ChildStep(i) \/ Kill(i)
    BY <1>4 DEF ChildGoesOn
  <2>2. /\ ChildMoves(i)
        /\ PutsInPlace(i) \/ Lists(i) \/ PutsAside(i) \/ Ends(i)
    BY <2>1, ChildCases
  <2>3. \A j \in 1 .. Len(children) : j # i => children'[j] = children[j]
    BY <2>2 DEF ChildMoves
  <2>4. 1 .. Len(children') = 1 .. Len(children)
    BY <2>2 DEF ChildMoves
  (* A child that swaps, other than i, keeps doing so.                     *)
  <2>5. ASSUME children[i].stage # "swapping" \/ ~children[i].aside,
               had' = had, torn => torn', runtime' = runtime
        PROVE  RuntimeInv'
    <3>1. (had' => had) /\ (torn => torn') /\ (runtime => runtime')
      BY <2>5, Zenon
    <3>2. ASSUME NEW j \in 1 .. Len(children),
                 children[j].stage = "swapping", children[j].aside
          PROVE  children'[j].stage = "swapping" /\ children'[j].aside
      BY <2>3, <2>5, <3>2
    <3> QED
      BY <2>4, <3>1, <3>2, Zenon DEF RuntimeInv
  <2>6. CASE PutsInPlace(i) \/ Lists(i)
    <3>1. had' = had /\ torn' = torn /\ runtime' = runtime
      BY <2>6 DEF PutsInPlace, Lists, cudaVars
    <3>2. children[i].stage # "swapping" /\ (torn => torn')
      BY <2>6, <3>1, Zenon DEF PutsInPlace, Lists
    <3> QED
      BY <2>5, <3>1, <3>2, Zenon
  <2>7. CASE PutsAside(i)
    <3>1. CASE runtime
      BY <2>4, <2>7, <3>1 DEF PutsAside, RuntimeInv
    <3>2. CASE ~runtime
      BY <2>3, <2>4, <2>7, <3>2 DEF PutsAside, RuntimeInv
    <3> QED
      BY <3>1, <3>2
  <2>8. CASE Ends(i)
    <3>1. children[i].kind = "tts" => children[i].stage # "swapping"
      BY DEF ChildrenInv
    <3>2. CASE children[i].stage = "listing" /\ UNCHANGED cudaVars
      <4>1. had' = had /\ torn' = torn /\ runtime' = runtime
        BY <3>2 DEF cudaVars
      <4>2. children[i].stage # "swapping" /\ (torn => torn')
        BY <3>2, <4>1, Zenon
      <4> QED
        BY <2>5, <4>1, <4>2, Zenon
    <3>3. CASE children[i].stage = "swapping" /\ runtime' = TRUE
      BY <3>3 DEF RuntimeInv
    <3>4. CASE children[i].stage = "swapping"
               /\ runtime' = (runtime \/ children[i].aside)
               /\ UNCHANGED <<had, torn>>
      <4>1. runtime => runtime'
        BY <3>4, Zenon
      <4>2. children[i].aside => runtime'
        BY <3>4, Zenon
      <4> QED
        BY <2>3, <2>4, <3>4, <4>1, <4>2 DEF RuntimeInv
    <3>5. CASE torn' = TRUE
      BY <3>5 DEF RuntimeInv
    <3>6. CASE children[i].stage # "swapping" /\ runtime' = runtime
               /\ UNCHANGED had /\ (torn => torn')
      BY <2>5, <3>6
    <3> QED
      BY <2>8, <3>2, <3>3, <3>4, <3>5, <3>6, Zenon DEF Ends
  <2> QED
    BY <2>2, <2>6, <2>7, <2>8
<1> QED
  <2>1. CASE Quiet
    BY <1>2, <2>1 DEF Quiet
  <2>2. CASE RemovalChecked
    BY <1>2, <2>2, TakenCases DEF Taken
  <2>3. CASE RemovalGoesOn
    BY <1>2, <2>3, RemovalCases DEF RemovalGoesOn, RemovalCommon
  <2>4. CASE Restart
    BY <1>2, <2>4, RestartFacts
  <2> QED
    BY <1>3, <1>4, <2>1, <2>2, <2>3, <2>4, NextCases

-----------------------------------------------------------------------------
(* Who changes the voices.                                                 *)

LEMMA BusySame ==
    ASSUME removals' = removals
    PROVE  Busy' = Busy
  BY DEF Busy

LEMMA AliveSame ==
    ASSUME children' = children
    PROVE  Alive("tts")' = Alive("tts")
  BY DEF Alive, Ended

LEMMA AliveMoves ==
    ASSUME NEW i \in 1 .. Len(children), ChildMoves(i),
           children[i].stage # "ended" \/ children'[i].stage = "ended"
    PROVE  Alive("tts")' \subseteq Alive("tts")
  BY DEF Alive, Ended, ChildMoves

LEMMA BusyMoves ==
    ASSUME NEW s \in Slots, RemovalMoves(s)
    PROVE  Busy' \subseteq Busy /\ s \in Busy
  BY DEF Busy, RemovalMoves

(* A voice installer is started where none was and nothing was removed.    *)
LEMMA StartsAlone ==
    ASSUME ServerInv, ChildrenInv, Starts
    PROVE  /\ Busy' = Busy /\ UNCHANGED <<voiceVars, restarts>>
           /\ overlapped => overlapped'
           /\ \/ /\ Alive("tts")' = Alive("tts")
                 /\ \A i \in Alive("tts") : children'[i] = children[i]
                 /\ status'["tts"] = status["tts"]
                 /\ tracked'["tts"] = tracked["tts"]
                 /\ tracked["tts"] # 0 =>
                      children'[tracked["tts"]] = children[tracked["tts"]]
              \/ /\ (Busy # {} \/ Alive("tts") # {}
                     \/ status["tts"] = "installing") => overlapped'
                 /\ Alive("tts")' = Alive("tts") \cup {Len(children) + 1}
                 /\ tracked'["tts"] = Len(children) + 1
                 /\ children'[Len(children) + 1].todo
                      = children'[Len(children) + 1].wanted
                 /\ children'[Len(children) + 1].stage = "running"
                 /\ children'[Len(children) + 1].fetched = {}
<1>1. PICK kind \in Kinds, wanted \in SUBSET Packages :
             /\ ChildStarts(kind, wanted)
             /\ status' = [status EXCEPT ![kind] = "installing"]
             /\ (overlapped \/ Overlaps(kind)) => overlapped'
             /\ UNCHANGED <<voiceVars, removals, cudaVars, restarts>>
  BY StartCases
<1>2. /\ children \in Seq(ChildRecords) /\ Len(children) \in Nat
      /\ tracked \in [Kinds -> Nat] /\ "tts" \in Kinds
      /\ tracked["tts"] \in Nat /\ status \in [Kinds -> Statuses]
  BY LenProperties DEF ChildrenInv, Kinds, ServerInv
<1>3. /\ Len(children') = Len(children) + 1
      /\ \A j \in 1 .. Len(children) : children'[j] = children[j]
      /\ tracked' = [tracked EXCEPT ![kind] = Len(children) + 1]
      /\ children'[Len(children) + 1].kind = kind
      /\ children'[Len(children) + 1].stage = "running"
      /\ children'[Len(children) + 1].fetched = {}
      /\ children'[Len(children) + 1].todo
           = children'[Len(children) + 1].wanted
  BY <1>1 DEF ChildStarts, Child
<1>4. Busy' = Busy
  BY <1>1, BusySame
<1>5. CASE kind # "tts"
  <2>1. Alive("tts")' = Alive("tts")
    BY <1>2, <1>3, <1>5 DEF Alive, Ended
  <2>2. tracked["tts"] # 0 => tracked["tts"] \in 1 .. Len(children)
    BY <1>2 DEF ChildrenInv
  <2>3. \A i \in Alive("tts") : children'[i] = children[i]
    BY <1>3 DEF Alive
  <2> QED
    BY <1>1, <1>2, <1>3, <1>4, <1>5, <2>1, <2>2, <2>3
<1>6. CASE kind = "tts"
  <2>1. Alive("tts")' = Alive("tts") \cup {Len(children) + 1}
    BY <1>2, <1>3, <1>6 DEF Alive, Ended
  <2> QED
    BY <1>1, <1>2, <1>3, <1>4, <1>6, <2>1 DEF Overlaps
<1> QED
  BY <1>5, <1>6

LEMMA SoleStep ==
    ASSUME ServerInv, ChildrenInv, SoleInv, Next
    PROVE  SoleInv'
<1> SUFFICES ASSUME ~overlapped'
             PROVE  SoleInv'
  BY DEF SoleInv
<1>1. CASE Quiet
  BY <1>1, BusySame, AliveSame DEF Quiet, SoleInv
<1>2. CASE Starts
  BY <1>2, StartsAlone DEF SoleInv
<1>3. CASE RemovalChecked
  <2>1. PICK s \in Slots : Taken(s)
    BY <1>3, TakenCases
  <2>2. Busy = {} /\ Alive("tts") = {} /\ Alive("tts")' = {}
    BY <2>1, AliveSame DEF Taken
  <2>3. Busy' \subseteq {s}
    BY <2>1, <2>2 DEF Taken, Busy
  <2> QED
    BY <2>1, <2>2, <2>3 DEF Taken, SoleInv
<1>4. CASE ChildGoesOn
  <2>1. PICK i \in 1 .. Len(children) : ChildStep(i) \/ Kill(i)
    BY <1>4 DEF ChildGoesOn
  <2>2. /\ ChildMoves(i) /\ Common
        /\ PutsInPlace(i) \/ Lists(i) \/ PutsAside(i) \/ Ends(i)
    BY <2>1, ChildCases
  <2>3. Alive("tts")' \subseteq Alive("tts")
    BY <2>2, AliveMoves DEF PutsInPlace, Lists, PutsAside, Ends
  <2> QED
    BY <2>2, <2>3, BusySame DEF Common, SoleInv
<1>5. CASE RemovalGoesOn
  <2>1. PICK s \in Slots : RemovalStep(s)
    BY <1>5 DEF RemovalGoesOn
  <2>2. /\ RemovalMoves(s) /\ RemovalCommon
        /\ \/ GivenUp(s) \/ Read(s) \/ Staged(s) \/ Prepared(s)
           \/ Replaced(s) \/ Cleared(s)
    BY <2>1, RemovalCases
  <2>3. Busy' \subseteq Busy /\ s \in Busy /\ Alive("tts")' = Alive("tts")
    BY <2>2, BusyMoves, AliveSame DEF RemovalCommon
  <2>4. status'["tts"] = "installing" => status["tts"] = "installing"
    BY <2>2 DEF GivenUp, Read, Staged, Prepared, Replaced, Cleared
  <2> QED
    BY <2>2, <2>3, <2>4 DEF RemovalCommon, SoleInv
<1>6. CASE Restart
  <2>1. Busy' = {}
    BY <1>6, RestartFacts, NoRemovalFacts DEF Busy
  <2>2. status'["tts"] = "idle"
    BY <1>6, RestartFacts DEF Kinds
  <2> QED
    BY <1>6, <2>1, <2>2, RestartFacts, AliveSame DEF SoleInv
<1> QED
  BY <1>1, <1>2, <1>3, <1>4, <1>5, <1>6, NextCases

-----------------------------------------------------------------------------
(* What an installer has placed.                                           *)

(* A child takes no voice away, and only an installer of voices brings one.*)
LEMMA OnlyPlaces ==
    ASSUME PlacedInv, ~overlapped, NEW i \in 1 .. Len(children),
           PutsInPlace(i) \/ Lists(i) \/ PutsAside(i) \/ Ends(i)
    PROVE  /\ folders \subseteq folders'
           /\ i \notin Alive("tts") => folders' = folders
<1>1. CASE PutsInPlace(i)
  <2>1. i \in Alive("tts")
    BY <1>1 DEF PutsInPlace, Alive, Ended
  <2>2. children[i].fetched \cap folders = {}
    BY <2>1 DEF PlacedInv
  <2> QED
    BY <1>1, <2>1, <2>2 DEF PutsInPlace
<1>2. CASE Lists(i) \/ PutsAside(i) \/ Ends(i)
  BY <1>2 DEF Lists, PutsAside, Ends
<1> QED
  BY <1>1, <1>2

LEMMA PlacedStep ==
    ASSUME ServerInv, ChildrenInv, SoleInv, PlacedInv, Next
    PROVE  PlacedInv'
<1> SUFFICES ASSUME ~overlapped'
             PROVE  PlacedInv'
  BY DEF PlacedInv
<1>0. tracked["tts"] # 0 => /\ tracked["tts"] \in 1 .. Len(children)
                            /\ children[tracked["tts"]].kind = "tts"
  BY LenProperties DEF ChildrenInv, Kinds
<1>1. CASE Quiet
  BY <1>1, AliveSame DEF Quiet, PlacedInv, Ended, Offered, voiceVars
<1>2. CASE Starts
  <2>1. CASE /\ Alive("tts")' = Alive("tts")
             /\ \A i \in Alive("tts") : children'[i] = children[i]
             /\ status'["tts"] = status["tts"]
             /\ tracked'["tts"] = tracked["tts"]
             /\ tracked["tts"] # 0 =>
                  children'[tracked["tts"]] = children[tracked["tts"]]
    BY <1>2, <2>1, StartsAlone DEF PlacedInv, Ended, Offered, voiceVars
  <2>2. CASE /\ (Busy # {} \/ Alive("tts") # {}
                \/ status["tts"] = "installing") => overlapped'
             /\ Alive("tts")' = Alive("tts") \cup {Len(children) + 1}
             /\ tracked'["tts"] = Len(children) + 1
             /\ children'[Len(children) + 1].todo
                  = children'[Len(children) + 1].wanted
             /\ children'[Len(children) + 1].stage = "running"
             /\ children'[Len(children) + 1].fetched = {}
    BY <2>2 DEF PlacedInv, Ended
  <2> QED
    BY <1>2, <2>1, <2>2, StartsAlone
<1>3. CASE RemovalChecked
  <2>1. PICK s \in Slots : Taken(s)
    BY <1>3, TakenCases
  <2> QED
    BY <2>1, AliveSame DEF Taken, PlacedInv
<1>4. CASE ChildGoesOn
  <2>1. PICK i \in 1 .. Len(children) : ChildStep(i) \/ Kill(i)
    BY <1>4 DEF ChildGoesOn
  <2>2. /\ ChildMoves(i) /\ Common
        /\ PutsInPlace(i) \/ Lists(i) \/ PutsAside(i) \/ Ends(i)
    BY <2>1, ChildCases
  <2>3. Alive("tts")' \subseteq Alive("tts") /\ ~overlapped
    BY <2>2, AliveMoves DEF PutsInPlace, Lists, PutsAside, Ends, Common
  <2>4. folders \subseteq folders'
    BY <2>2, <2>3, OnlyPlaces
  <2>5. ASSUME NEW j \in Alive("tts")'
        PROVE  /\ children'[j].wanted \ children'[j].todo \subseteq folders'
               /\ children'[j].stage = "listing"
                    => children'[j].wanted \subseteq folders'
               /\ children'[j].fetched \cap folders' = {}
    <3>1. /\ j \in Alive("tts")
          /\ children[j].wanted \ children[j].todo \subseteq folders
          /\ children[j].stage = "listing"
               => children[j].wanted \subseteq folders
          /\ children[j].fetched \cap folders = {}
      BY <2>3 DEF PlacedInv
    <3>2. CASE j # i
      <4>1. children'[j] = children[j]
        BY <2>2, <3>1, <3>2 DEF ChildMoves, Alive
      <4>2. i \notin Alive("tts")
        BY <2>3, <3>1, <3>2 DEF SoleInv
      <4>3. folders' = folders
        BY <2>2, <2>3, <4>2, OnlyPlaces
      <4> QED
        BY <3>1, <4>1, <4>3
    <3>3. CASE j = i
      <4>1. children'[i].wanted = children[i].wanted
            /\ children[i].kind = "tts" /\ children'[i].stage # "ended"
        BY <2>2, <3>1, <3>3 DEF ChildMoves, Alive, Ended
      <4>2. PutsInPlace(i) \/ Lists(i)
        BY <2>2, <4>1 DEF PutsAside, Ends
      <4>3. CASE PutsInPlace(i)
        <5>1. children'[i].stage # "listing"
          BY <4>3 DEF PutsInPlace
        <5> QED
          BY <3>1, <3>3, <4>1, <4>3, <5>1 DEF PutsInPlace
      <4>4. CASE Lists(i)
        BY <3>1, <3>3, <4>1, <4>4 DEF Lists
      <4> QED
        BY <4>2, <4>3, <4>4
    <3> QED
      BY <3>2, <3>3
  <2>6. ASSUME status'["tts"] = "installing", tracked'["tts"] # 0,
               children'[tracked'["tts"]].stage = "ended",
               children'[tracked'["tts"]].code = 0
        PROVE  children'[tracked'["tts"]].wanted \subseteq manifest' \cap folders'
    <3> DEFINE t == tracked["tts"]
    <3>1. /\ status["tts"] = "installing" /\ t \in 1 .. Len(children)
          /\ tracked'["tts"] = t /\ children[t].kind = "tts"
          /\ children'[t].stage = "ended" /\ children'[t].code = 0
      BY <1>0, <2>2, <2>6 DEF Common
    <3>2. CASE i # t
      <4>1. children'[t] = children[t]
        BY <2>2, <3>1, <3>2 DEF ChildMoves
      <4>2. children[t].wanted \subseteq manifest \cap folders
        BY <2>3, <3>1, <4>1 DEF PlacedInv, Ended, Offered
      <4>3. ~(children[i].stage = "listing")
        <5>1. SUFFICES ASSUME children[i].stage = "listing"
                       PROVE  FALSE
          OBVIOUS
        <5>2. i \in Alive("tts")
          BY <5>1 DEF Alive, Ended, ChildrenInv
        <5>3. i = t
          BY <2>3, <3>1, <5>2 DEF SoleInv
        <5> QED
          BY <3>2, <5>3
      <4>4. manifest' = manifest
        BY <2>2, <4>3 DEF PutsInPlace, Lists, PutsAside, Ends
      <4> QED
        BY <2>4, <3>1, <4>1, <4>2, <4>4
    <3>3. CASE i = t
      <4>1. Ends(i)
        BY <2>2, <3>1, <3>3 DEF PutsInPlace, Lists, PutsAside
      <4>2. children[i].stage = "listing"
            /\ manifest' = children[i].listed \cup children[i].wanted
            /\ folders' = folders
        BY <3>1, <3>3, <4>1 DEF Ends
      <4>3. i \in Alive("tts")
        BY <3>1, <3>3, <4>2 DEF Alive, Ended
      <4>4. children[i].wanted \subseteq folders
        BY <2>3, <4>2, <4>3 DEF PlacedInv
      <4>5. children'[i].wanted = children[i].wanted
        BY <2>2 DEF ChildMoves
      <4> QED
        BY <3>1, <3>3, <4>2, <4>4, <4>5
    <3> QED
      BY <3>2, <3>3
  <2> QED
    BY <2>5, <2>6 DEF PlacedInv, Ended, Offered
<1>5. CASE RemovalGoesOn
  <2>1. PICK s \in Slots : RemovalStep(s)
    BY <1>5 DEF RemovalGoesOn
  <2>2. /\ RemovalMoves(s) /\ RemovalCommon
        /\ \/ GivenUp(s) \/ Read(s) \/ Staged(s) \/ Prepared(s)
           \/ Replaced(s) \/ Cleared(s)
    BY <2>1, RemovalCases
  <2>3. s \in Busy /\ Alive("tts")' = Alive("tts") /\ ~overlapped
    BY <2>2, BusyMoves, AliveSame DEF RemovalCommon
  <2>4. Alive("tts") = {} /\ status["tts"] # "installing"
    BY <2>3 DEF SoleInv
  <2>5. status'["tts"] # "installing"
    BY <2>2, <2>4 DEF GivenUp, Read, Staged, Prepared, Replaced, Cleared
  <2> QED
    BY <2>3, <2>4, <2>5 DEF PlacedInv
<1>6. CASE Restart
  <2>1. status'["tts"] = "idle"
    BY <1>6, RestartFacts DEF Kinds
  <2> QED
    BY <1>6, <2>1, RestartFacts, AliveSame DEF PlacedInv, voiceVars
<1> QED
  BY <1>1, <1>2, <1>3, <1>4, <1>5, <1>6, NextCases

-----------------------------------------------------------------------------
(* What a removal can put back.                                            *)

LEMMA RemovalInvSame ==
    ASSUME RemovalInv, Busy' = Busy, UNCHANGED <<voiceVars, removals, restarts>>,
           overlapped => overlapped',
           \A i \in Alive("tts")' :
              children'[i].stage = "listing" =>
                 i \in Alive("tts") /\ children'[i] = children[i]
    PROVE  RemovalInv'
  BY DEF RemovalInv, Undoable, voiceVars

LEMMA RemovalInvStep ==
    ASSUME ServerInv, ChildrenInv, SoleInv, PlacedInv, RemovalInv, Next
    PROVE  RemovalInv'
<1> SUFFICES ASSUME ~overlapped', restarts' = 0
             PROVE  RemovalInv'
  BY DEF RemovalInv
<1>1. CASE Quiet
  <2>1. Busy' = Busy /\ Alive("tts")' = Alive("tts")
    BY <1>1, BusySame, AliveSame DEF Quiet
  <2> QED
    BY <1>1, <2>1, RemovalInvSame DEF Quiet
<1>2. CASE Starts
  <2>1. removals' = removals
    BY <1>2 DEF Starts
  <2> QED
    BY <1>2, <2>1, StartsAlone, RemovalInvSame
<1>3. CASE RemovalChecked
  <2>1. PICK s \in Slots : Taken(s)
    BY <1>3, TakenCases
  <2>2. Busy = {} /\ Alive("tts") = {} /\ Alive("tts")' = {}
    BY <2>1, AliveSame DEF Taken
  <2>3. Busy' = {s}
    BY <2>1, <2>2 DEF Taken, Busy
  <2>4. manifest' \subseteq folders'
    BY <2>1, <2>2 DEF Taken, RemovalInv, voiceVars
  <2> QED
    BY <2>1, <2>2, <2>3, <2>4 DEF Taken, RemovalInv
<1>4. CASE ChildGoesOn
  <2>1. PICK i \in 1 .. Len(children) : ChildStep(i) \/ Kill(i)
    BY <1>4 DEF ChildGoesOn
  <2>2. /\ ChildMoves(i) /\ Common
        /\ PutsInPlace(i) \/ Lists(i) \/ PutsAside(i) \/ Ends(i)
    BY <2>1, ChildCases
  <2>3. Alive("tts")' \subseteq Alive("tts") /\ ~overlapped
    BY <2>2, AliveMoves DEF PutsInPlace, Lists, PutsAside, Ends, Common
  <2>4. Busy' = Busy /\ restarts = 0 /\ removals' = removals
        /\ staged' = staged /\ prepared' = prepared
    BY <2>2, BusySame DEF Common
  <2>5. \A j \in Alive("tts")' : j # i => children'[j] = children[j]
    BY <2>2, <2>3 DEF ChildMoves, Alive
  (* It touched the voices: no removal is under way.                       *)
  <2>6. CASE children[i].kind = "tts" /\ children[i].stage # "ended"
    <3>1. i \in Alive("tts") /\ Busy = {}
      BY <2>3, <2>6 DEF Alive, Ended, SoleInv
    <3>2. manifest \subseteq folders
      BY <2>3, <2>4, <3>1 DEF RemovalInv
    <3>3. folders \subseteq folders'
      BY <2>2, <2>3, OnlyPlaces
    <3>4. manifest' \subseteq folders'
      <4>1. children[i].stage = "listing" =>
              children[i].wanted \cup children[i].listed \subseteq folders
        BY <2>3, <2>4, <3>1 DEF RemovalInv, PlacedInv
      <4> QED
        BY <2>2, <3>2, <3>3, <4>1 DEF PutsInPlace, Lists, PutsAside, Ends
    <3>5. ASSUME NEW j \in Alive("tts")', children'[j].stage = "listing"
          PROVE  children'[j].listed \subseteq folders'
      <4>1. CASE j # i
        BY <2>3, <2>4, <2>5, <3>3, <3>5, <4>1 DEF RemovalInv
      <4>2. CASE j = i
        BY <2>2, <3>2, <3>3, <3>5, <4>2 DEF PutsInPlace, Lists, PutsAside, Ends
      <4> QED
        BY <4>1, <4>2
    <3> QED
      BY <2>4, <3>1, <3>4, <3>5 DEF RemovalInv
  <2>7. CASE ~(children[i].kind = "tts" /\ children[i].stage # "ended")
    <3>1. i \notin Alive("tts")'
      BY <2>3, <2>7 DEF Alive, Ended
    <3>2. children[i].stage = "listing" => children[i].kind = "tts"
      BY DEF ChildrenInv
    <3>3. folders' = folders /\ manifest' = manifest
      BY <2>2, <2>7, <3>2 DEF PutsInPlace, Lists, PutsAside, Ends
    <3> QED
      BY <2>2, <2>3, <2>4, <2>5, <3>1, <3>3, RemovalInvSame
        DEF Common, voiceVars
  <2> QED
    BY <2>6, <2>7
<1>5. CASE RemovalGoesOn
  <2>1. PICK s \in Slots : RemovalStep(s)
    BY <1>5 DEF RemovalGoesOn
  <2>2. /\ RemovalMoves(s) /\ RemovalCommon
        /\ \/ GivenUp(s) \/ Read(s) \/ Staged(s) \/ Prepared(s)
           \/ Replaced(s) \/ Cleared(s)
    BY <2>1, RemovalCases
  <2>3. s \in Busy /\ Alive("tts")' = Alive("tts") /\ ~overlapped
        /\ restarts = 0
    BY <2>2, BusyMoves, AliveSame DEF RemovalCommon
  <2>4. Alive("tts")' = {} /\ Busy = {s} /\ Busy' \subseteq {s}
    BY <2>2, <2>3, BusyMoves DEF SoleInv
  <2>5. /\ removals[s].stage \in {"checked", "clearing", "reloading"}
             => manifest \subseteq folders
        /\ removals[s].stage = "staging" =>
             Undoable(removals[s]) /\ removals[s].todo \cap removals[s].listed = {}
        /\ removals[s].stage = "replacing" =>
             Undoable(removals[s]) /\ prepared = {removals[s].listed}
    BY <2>3 DEF RemovalInv
  <2>6. ASSUME manifest' \subseteq folders',
               removals'[s].stage \in {"none", "clearing", "reloading"}
        PROVE  RemovalInv'
    BY <2>4, <2>6 DEF RemovalInv
  <2>7. ASSUME removals'[s].stage = "staging", Undoable(removals[s])',
               removals'[s].todo \cap removals'[s].listed = {}
        PROVE  RemovalInv'
    <3>1. Busy' = {s}
      BY <2>4, <2>7 DEF Busy
    <3> QED
      BY <2>4, <2>7, <3>1 DEF RemovalInv
  <2>8. CASE GivenUp(s)
    BY <2>5, <2>6, <2>8 DEF GivenUp, Undoable
  <2>9. CASE Read(s)
    <3>1. Undoable(removals[s])'
      BY <2>5, <2>9 DEF Read, Undoable, voiceVars
    <3> QED
      BY <2>7, <2>9, <3>1 DEF Read
  <2>10. CASE Staged(s)
    <3>1. PICK p \in removals[s].todo :
         /\ p \notin folders \/ p \notin staged
         /\ removals'[s].listed = removals[s].listed
         /\ removals'[s].todo = removals[s].todo \ {p}
         /\ removals'[s].moved = IF p \in folders
                                 THEN removals[s].moved \cup {p}
                                 ELSE removals[s].moved
         /\ folders' = folders \ {p}
         /\ staged' = IF p \in folders THEN staged \cup {p} ELSE staged
      BY <2>10 DEF Staged
    <3>2. /\ removals'[s].stage = "staging" /\ manifest' = manifest
          /\ Undoable(removals[s])
          /\ removals[s].todo \cap removals[s].listed = {}
      BY <2>5, <2>10 DEF Staged
    <3>3. Undoable(removals[s])'
      BY <3>1, <3>2 DEF Undoable
    <3> QED
      BY <2>7, <3>1, <3>2, <3>3
  <2>11. CASE Prepared(s)
    <3>1. Busy' = {s}
      BY <2>4, <2>11 DEF Busy, Prepared
    <3>2. Undoable(removals[s])' /\ prepared' = {removals'[s].listed}
      BY <2>5, <2>11 DEF Prepared, Undoable
    <3> QED
      BY <2>4, <2>11, <3>1, <3>2 DEF Prepared, RemovalInv
  <2>12. CASE Replaced(s)
    <3>1. manifest' \subseteq folders'
      BY <2>5, <2>12 DEF Replaced, Undoable
    <3> QED
      BY <2>6, <2>12, <3>1 DEF Replaced
  <2>13. CASE Cleared(s)
    BY <2>5, <2>6, <2>13 DEF Cleared
  <2> QED
    BY <2>2, <2>8, <2>9, <2>10, <2>11, <2>12, <2>13
<1>6. CASE Restart
  BY <1>6, RestartFacts DEF ServerInv
<1> QED
  BY <1>1, <1>2, <1>3, <1>4, <1>5, <1>6, NextCases

-----------------------------------------------------------------------------
(* The theorems.                                                           *)

LEMMA InstallsInit == Init => InstallsInv
<1> SUFFICES ASSUME Init
             PROVE  InstallsInv
  OBVIOUS
<1>1. removals = [s \in Slots |-> NoRemoval] /\ Busy = {}
  BY NoRemovalFacts DEF Init, Busy
<1>2. children = <<>> /\ Len(children) = 0 /\ Alive("tts") = {}
  BY DEF Init, Alive
<1>3. ServerInv
  BY <1>1, NoRemovalFacts DEF Init, ServerInv, Statuses
<1>4. ChildrenInv
  BY <1>2 DEF Init, ChildrenInv, Kinds
<1>5. RuntimeInv
  BY DEF Init, RuntimeInv
<1>6. status["tts"] = "idle"
  BY DEF Init, Kinds
<1>7. SoleInv /\ PlacedInv /\ RemovalInv
  BY <1>1, <1>2, <1>6 DEF Init, SoleInv, PlacedInv, RemovalInv
<1> QED
  BY <1>3, <1>4, <1>5, <1>7 DEF InstallsInv

LEMMA InstallsNext == InstallsInv /\ [Next]_vars => InstallsInv'
<1> SUFFICES ASSUME InstallsInv, [Next]_vars
             PROVE  InstallsInv'
  OBVIOUS
<1>1. CASE Next
  BY <1>1, ServerStep, ChildrenStep, RuntimeStep, SoleStep, PlacedStep,
     RemovalInvStep DEF InstallsInv
<1>2. CASE UNCHANGED vars
  <2>1. UNCHANGED <<status, tracked, children, voiceVars, removals, cudaVars,
                    restarts, overlapped>>
    BY <1>2 DEF vars, jobVars, bounds
  <2>2. /\ ServerInv' /\ ChildrenInv' /\ RuntimeInv'
        /\ SoleInv' /\ PlacedInv' /\ RemovalInv'
    BY <2>1 DEF InstallsInv, ServerInv, ChildrenInv, RuntimeInv, SoleInv,
                PlacedInv, RemovalInv, Undoable, Busy, Alive, Ended, Offered,
                voiceVars, cudaVars
  <2> QED
    BY <2>2 DEF InstallsInv
<1> QED
  BY <1>1, <1>2

LEMMA InstallsCorrect == Spec => []InstallsInv
  BY InstallsInit, InstallsNext, PTL DEF Spec

(* Installations of the CUDA runtime that fail, in any number and any      *)
(* order, leave the runtime that was there: move_into_place puts back what *)
(* it set aside, unless it is killed in between.                           *)
THEOREM RuntimeStays == Spec => []RuntimeKept
<1>1. InstallsInv => RuntimeKept
  BY DEF InstallsInv, RuntimeInv, RuntimeKept
<1> QED
  BY <1>1, InstallsCorrect, PTL

(* However a removal of voices ends, and whatever was installed before it, *)
(* every voice that voices.json lists has its folder.                      *)
THEOREM RemovalLeavesNoGap == Spec => []VoicesBacked
<1>1. InstallsInv => VoicesBacked
  BY DEF InstallsInv, RemovalInv, VoicesBacked
<1> QED
  BY <1>1, InstallsCorrect, PTL

(* Of the steps that end an installation, a look at the child reports it.  *)
LEMMA ReportCases ==
    ASSUME InstallsInv, Next, NEW kind \in Kinds,
           status[kind] = "installing", status'[kind] \in {"complete", "error"}
    PROVE  \/ PollEffects(kind) /\ (overlapped => overlapped')
           \/ status'[kind] = "error" /\ (kind = "tts" => overlapped')
<1>1. status \in [Kinds -> Statuses] /\ {"tts", "update", "translation"} \subseteq Kinds
  BY DEF InstallsInv, ServerInv, Kinds
<1>2. ASSUME NEW k \in Kinds, PollEffects(k)
      PROVE  k = kind
  BY <1>1, <1>2 DEF PollEffects
<1>3. CASE \E k \in Kinds : (Poll(k) \/ Check(k)) /\ overlapped' = overlapped
  <2>1. PICK k \in Kinds : PollEffects(k) /\ overlapped' = overlapped
    BY <1>3 DEF Poll, Check
  <2> QED
    BY <1>2, <2>1
<1>4. CASE RemovalChecked
  <2>1. PollEffects("tts") /\ (overlapped => overlapped')
    BY <1>4, Zenon DEF RemovalChecked, CheckRemoval
  <2> QED
    BY <1>1, <1>2, <2>1
<1>5. ASSUME NEW k \in Kinds, LaunchFails(k)
      PROVE  status'[kind] = "error" /\ (kind = "tts" => overlapped')
  <2>1. status' = [status EXCEPT ![k] = "error"]
    BY <1>5 DEF LaunchFails
  <2>2. k = kind /\ status'[kind] = "error"
    BY <1>1, <2>1
  <2>3. kind = "tts" => Overlaps(k)
    BY <2>2 DEF Overlaps
  <2>4. Overlaps(k) => overlapped'
    BY <1>5, Zenon DEF LaunchFails
  <2> QED
    BY <2>2, <2>3, <2>4
<1>6. CASE InstallTranslationFails
  <2>1. status' = [status EXCEPT !["translation"] = "error"]
    BY <1>6 DEF InstallTranslationFails
  <2> QED
    BY <1>1, <2>1
<1>7. CASE status' = status \/ \E k \in Kinds, v \in {"installing", "starting", "idle"} :
             status' = [status EXCEPT ![k] = v]
  BY <1>1, <1>7
<1>8. CASE ChildGoesOn
  BY <1>7, <1>8, ChildCases DEF ChildGoesOn, Common, InstallsInv
<1>9. CASE RemovalGoesOn
  <2>1. PICK s \in Slots : RemovalStep(s)
    BY <1>9 DEF RemovalGoesOn
  <2>2. CASE FinishRemoval(s)
    BY <1>1, <1>7, <2>2 DEF FinishRemoval
  <2>3. CASE ~FinishRemoval(s)
    BY <1>7, <2>1, <2>3
      DEF RemovalStep, ReadManifest, StageVoice, PrepareManifest,
          ReplaceManifest, RemovalFails, ClearStaged, jobVars
  <2> QED
    BY <2>2, <2>3
<1>10. CASE Restart
  BY <1>10, RestartFacts
<1>11. CASE Starts
  BY <1>7, <1>11 DEF Starts
<1>12. CASE MarkUpdate
  BY <1>1, <1>7, <1>12 DEF MarkUpdate
<1>13. ASSUME NEW k \in Kinds, GiveUp(k)
       PROVE  FALSE
  BY <1>1, <1>13 DEF GiveUp
<1>14. ASSUME NEW k \in Kinds, Poll(k) \/ Check(k)
       PROVE  (Poll(k) \/ Check(k)) /\ overlapped' = overlapped
  BY <1>14 DEF Poll, Check
<1>15. CASE Request
  BY <1>1, <1>3, <1>4, <1>6, <1>11, <1>14, <1>15, InstallStarts
    DEF Request, InstallTranslatedAudio, InstallCudaRuntime, StartUpdate,
        RemovalChecked, Kinds
<1>16. CASE Step
  <2>1. CASE LaunchCudaRuntimeInstall \/ LaunchUpdateProcess
             \/ \E wanted \in SUBSET Packages \ {{}} : LaunchVoices(wanted)
    <3>1. Starts
      BY <2>1, LaunchStarts
        DEF LaunchCudaRuntimeInstall, LaunchUpdateProcess, LaunchVoices, Kinds
    <3> QED
      BY <1>11, <3>1
  <2>2. CASE TranslationInstallState \/ TtsInstallState
             \/ CudaRuntimeCapabilityState \/ UpdateCapabilityState
    BY <1>3, <1>14, <2>2
      DEF TranslationInstallState, TtsInstallState,
          CudaRuntimeCapabilityState, UpdateCapabilityState, Kinds
  <2> QED
    BY <1>5, <1>8, <1>9, <1>10, <1>12, <1>13, <1>16, <2>1, <2>2
      DEF Step, ChildGoesOn, RemovalGoesOn
<1> QED
  BY <1>15, <1>16 DEF Next

(* An installation is called complete only with what it was to bring in    *)
(* place, and one of voices that met no other change is called what its    *)
(* installer's exit code says (_tts_install_state and                      *)
(* _cuda_runtime_capability_state).                                        *)
THEOREM InstallsReportedTruly == Spec => InstallReported
<1> DEFINE ReportedTruly ==
             \A kind \in Kinds :
               (status[kind] = "installing"
                /\ status'[kind] \in {"complete", "error"} /\ tracked[kind] # 0)
               => /\ (kind = "tts" /\ status'[kind] = "complete")
                        => children[tracked[kind]].wanted \subseteq packs'
                  /\ (kind = "cuda" /\ status'[kind] = "complete") => runtime
                  /\ (kind = "tts" /\ ~overlapped'
                      /\ children[tracked[kind]].code = 0)
                        => status'[kind] = "complete"
<1>1. ASSUME InstallsInv, Next, NEW kind \in Kinds, status[kind] = "installing",
             status'[kind] \in {"complete", "error"}, tracked[kind] # 0
      PROVE  /\ (kind = "tts" /\ status'[kind] = "complete")
                  => children[tracked[kind]].wanted \subseteq packs'
             /\ (kind = "cuda" /\ status'[kind] = "complete") => runtime
             /\ (kind = "tts" /\ ~overlapped'
                 /\ children[tracked[kind]].code = 0)
                   => status'[kind] = "complete"
  <2>1. CASE PollEffects(kind) /\ (overlapped => overlapped')
    <3>0. ServerInv /\ PlacedInv
      BY <1>1 DEF InstallsInv
    <3>1. status \in [Kinds -> Statuses] /\ ServerInv /\ PlacedInv
      BY <3>0 DEF ServerInv
    <3>2. status'[kind] = Polled(kind)
      BY <2>1, <3>1 DEF PollEffects
    <3>3. /\ Polled(kind) # status[kind] /\ Ended(tracked[kind])
          /\ \/ /\ Polled(kind) = "complete"
                /\ Ready(kind, tracked[kind])
             \/ /\ Polled(kind) = "error"
                /\ ~(children[tracked[kind]].code = 0
                     /\ Ready(kind, tracked[kind]))
      BY <1>1, <3>1, <3>2, PolledCases
    <3>4. CASE kind = "tts"
      <4>1. packs' = Offered
        BY <2>1, <3>3, <3>4 DEF PollEffects
      <4>2. Ready(kind, tracked[kind])
              <=> children[tracked[kind]].wanted \subseteq Offered
        BY <3>4 DEF Ready
      <4>3. (~overlapped' /\ children[tracked[kind]].code = 0)
               => children[tracked[kind]].wanted \subseteq Offered
        BY <1>1, <2>1, <3>1, <3>3, <3>4 DEF PlacedInv
      <4> QED
        BY <3>2, <3>3, <3>4, <4>1, <4>2, <4>3
    <3>5. CASE kind = "cuda"
      <4>1. Ready(kind, tracked[kind]) = runtime
        BY <3>5 DEF Ready
      <4> QED
        BY <3>2, <3>3, <3>5, <4>1
    <3>6. CASE kind \notin {"tts", "cuda"}
      BY <3>6
    <3> QED
      BY <3>4, <3>5, <3>6
  <2>2. CASE status'[kind] = "error" /\ (kind = "tts" => overlapped')
    BY <2>2
  <2> QED
    BY <1>1, <2>1, <2>2, ReportCases
<1>2. InstallsInv /\ [Next]_vars => [ReportedTruly]_vars
  BY <1>1
<1> QED
  BY <1>2, InstallsCorrect, PTL DEF Spec, InstallReported

=============================================================================
