--------------------------- MODULE ResourceInstalls ---------------------------
(***************************************************************************)
(* The optional resources of the program and the child processes that      *)
(* install them: translation packages, voices (tts), the CUDA runtime, and *)
(* the program's own update; and the removal of installed voices           *)
(* (uninstall_reviewed_voice_packages of app/tts.py).                      *)
(*                                                                         *)
(* The server keeps of every kind a status and the last child it started.  *)
(* A handler looks at the status and then, but for translation packages,   *)
(* awaits something before it starts the child, so that two requests may   *)
(* both pass.  Children outlive a restart of the server.  The voices are   *)
(* files that an installer and a removal thread change step by step: one   *)
(* folder of a package, the manifest voices.json that lists the packages,  *)
(* a folder set aside for removal, and the manifest a removal prepares.    *)
(***************************************************************************)
EXTENDS Integers, Sequences, FiniteSets, SequencesExt, Functions

CONSTANTS
    Packages,                      \* reviewed voice packages
    Scopes,                        \* sets of kinds one behaviour is about
    MaxChildren, MaxRequests,      \* bounds of the model
    MaxAtOnce, MaxRestarts, MaxKills

Kinds == {"translation", "tts", "cuda", "update"}

ASSUME InstallsAssumption ==
    /\ IsFiniteSet(Packages)
    /\ Scopes \subseteq SUBSET Kinds
    /\ {MaxChildren, MaxRequests, MaxAtOnce, MaxRestarts, MaxKills}
         \subseteq Nat

VARIABLES
    scope,       \* the kinds that are asked for in this behaviour
    status,      \* of each kind: _..._install_state["status"]
    tracked,     \* of each kind: the last child started, 0 for none
    checked,     \* requests past the check of a kind, their child not started
    children,    \* the children started, in their order
    folders,     \* packages whose folder is in place
    staged,      \* packages whose folder is set aside, .<folder>.removing
    manifest,    \* packages that voices.json lists
    prepared,    \* the manifest a removal has prepared: {} or {packages}
    packs,       \* packages the speech manager offers
    removals,    \* of each request slot: a removal
    runtime,     \* the CUDA runtime is in place
    asked, restarts, kills,   \* counted within the bounds
    had,         \* history: there was a CUDA runtime
    torn,        \* history: a child was killed while it swapped the runtime
    overlapped   \* history: two requests changed the voices at once

jobVars == <<status, tracked, checked>>
voiceVars == <<folders, staged, manifest, prepared>>
cudaVars == <<runtime, had, torn>>
bounds == <<restarts, kills>>
vars == <<jobVars, children, voiceVars, packs, removals, cudaVars, bounds,
          asked, overlapped, scope>>

Slots == 1 .. MaxAtOnce

(* Where a request can be between its check and its child; start_update    *)
(* has a second such place, after it has marked the update.                *)
Places == {"tts", "cuda", "update", "marked"}

NoRemoval == [stage |-> "none", todo |-> {}, listed |-> {}, moved |-> {}]
Removing == {"checked", "staging", "preparing", "replacing", "clearing",
             "reloading"}

InstallsTypeOK ==
    /\ status \in
         [Kinds -> {"idle", "starting", "installing", "complete", "error"}]
    /\ tracked \in [Kinds -> 0 .. MaxChildren]
    /\ checked \in [Places -> 0 .. MaxAtOnce]
    /\ Len(children) <= MaxChildren
    /\ \A i \in 1 .. Len(children) :
         children[i] \in
           [kind : Kinds, era : 0 .. MaxRestarts, wanted : SUBSET Packages,
            todo : SUBSET Packages, fetched : SUBSET Packages,
            listed : SUBSET Packages, aside : BOOLEAN, code : {0, 1},
            stage : {"running", "placing", "listing", "swapping", "ended"}]
    /\ {folders, staged, manifest, packs} \subseteq SUBSET Packages
    /\ prepared \subseteq SUBSET Packages /\ Cardinality(prepared) <= 1
    /\ removals \in
         [Slots -> [stage : Removing \cup {"none"}, todo : SUBSET Packages,
                    listed : SUBSET Packages, moved : SUBSET Packages]]
    /\ {runtime, had, torn, overlapped} \subseteq BOOLEAN
    /\ restarts \in 0 .. MaxRestarts /\ kills \in 0 .. MaxKills
    /\ asked \in 0 .. MaxRequests /\ scope \in Scopes

Ended(i) == children[i].stage = "ended"
Alive(kind) == {i \in 1 .. Len(children) :
                  children[i].kind = kind /\ ~Ended(i)}
Busy == {s \in Slots : removals[s].stage # "none"}

(* A further request is taken within the bounds of the model.              *)
Room ==
    /\ asked < MaxRequests /\ asked' = asked + 1
    /\ MaxAtOnce > Cardinality(Busy) + FoldFunction(+, 0, checked)

(* reload_manifest: a listed voice whose files are gone is not offered.    *)
Offered == manifest \cap folders

-----------------------------------------------------------------------------
(* The status of the four kinds.                                           *)

(* Mutant of Ready: an exit code of zero is taken for success.             *)
ReadyAtOnce(kind, i) == TRUE

(* What must be there, besides an exit code of zero. The speech runtime is *)
(* not asked for: a child that ends with zero has installed it.            *)
Ready(kind, i) ==
    CASE kind = "tts" -> children[i].wanted \subseteq Offered
      [] kind = "cuda" -> runtime
      [] OTHER -> TRUE

Underway(kind) ==
    \/ status[kind] = "installing"
    \/ kind = "update" /\ status[kind] = "starting"

(* The four functions that read a status look at the child first.          *)
Polled(kind) ==
    LET i == tracked[kind] IN
    IF Underway(kind) /\ i # 0 /\ Ended(i)
    THEN IF children[i].code = 0 /\ Ready(kind, i) THEN "complete" ELSE "error"
    ELSE status[kind]

PollEffects(kind) ==
    /\ status' = [status EXCEPT ![kind] = Polled(kind)]
    /\ packs' = IF kind = "tts" /\ Polled(kind) # status[kind] THEN Offered
                ELSE packs

Poll(kind) ==
    /\ Polled(kind) # status[kind]
    /\ PollEffects(kind)
    /\ UNCHANGED <<tracked, checked, children, voiceVars, removals, cudaVars,
                   bounds, overlapped>>

(* The functions that read the four statuses.                              *)
TranslationInstallState == Poll("translation")
TtsInstallState == Poll("tts")
CudaRuntimeCapabilityState == Poll("cuda")
UpdateCapabilityState == Poll("update")

-----------------------------------------------------------------------------
(* Installation requests.                                                  *)

Child(kind, wanted) ==
    [kind |-> kind, era |-> restarts, wanted |-> wanted, todo |-> wanted,
     fetched |-> {}, listed |-> {}, aside |-> FALSE, code |-> 1,
     stage |-> "running"]

(* Mutant of StartChild: the server does not keep the child it started.    *)
StartUntracked(kind, wanted) ==
    /\ Len(children) < MaxChildren
    /\ children' = Append(children, Child(kind, wanted))
    /\ UNCHANGED tracked

(* The child is started, or cannot be.                                     *)
StartChild(kind, wanted) ==
    /\ Len(children) < MaxChildren
    /\ children' = Append(children, Child(kind, wanted))
    /\ tracked' = [tracked EXCEPT ![kind] = Len(children) + 1]

(* The body is awaited first: the check and the start are one step.        *)
InstallTranslation ==
    /\ "translation" \in scope /\ Room
    /\ Polled("translation") # "installing"
    /\ StartChild("translation", {})
    /\ status' = [status EXCEPT !["translation"] = "installing"]
    /\ UNCHANGED <<checked, voiceVars, packs, removals, cudaVars, bounds,
                   overlapped>>

(* The check, before the body, a thread or the remote version is awaited.  *)
Check(kind) ==
    /\ Room /\ kind \in scope
    /\ PollEffects(kind)
    /\ status'[kind] # "installing"
    /\ kind = "update" => status'[kind] # "starting"
    /\ checked' = [checked EXCEPT ![kind] = @ + 1]
    /\ UNCHANGED <<tracked, children, voiceVars, removals, cudaVars, bounds,
                   overlapped>>

(* The installer's script is not there, or cannot be run.                  *)
InstallTranslationFails ==
    /\ "translation" \in scope /\ Room
    /\ Polled("translation") # "installing"
    /\ status' = [status EXCEPT !["translation"] = "error"]
    /\ UNCHANGED <<tracked, checked, children, voiceVars, packs, removals,
                   cudaVars, bounds, overlapped>>

(* A request that was checked comes to nothing: a wrong body, a version    *)
(* that is not newer, a network that does not answer.                      *)
GiveUp(kind) ==
    /\ checked[kind] > 0
    /\ checked' = [checked EXCEPT ![kind] = @ - 1]
    /\ UNCHANGED <<status, tracked, children, voiceVars, packs, removals,
                   cudaVars, bounds, overlapped>>

(* start_update marks the update before a thread starts it.                *)
MarkUpdate ==
    /\ checked["update"] > 0
    /\ checked' = [checked EXCEPT !["update"] = @ - 1, !["marked"] = @ + 1]
    /\ status' = [status EXCEPT !["update"] = "starting"]
    /\ UNCHANGED <<tracked, children, voiceVars, packs, removals, cudaVars,
                   bounds, overlapped>>

(* The handlers up to the point where they wait.                           *)
InstallTranslatedAudio == Check("tts")
InstallCudaRuntime == Check("cuda")
StartUpdate == Check("update")

PlaceOf(kind) == IF kind = "update" THEN "marked" ELSE kind

(* A second request for voices is answered while something changes them.   *)
Overlaps(kind) ==
    kind = "tts"
    /\ (Busy # {} \/ Alive("tts") # {} \/ status["tts"] = "installing")

Launch(kind, wanted) ==
    /\ checked[PlaceOf(kind)] > 0
    /\ checked' = [checked EXCEPT ![PlaceOf(kind)] = @ - 1]
    /\ StartChild(kind, wanted)
    /\ status' = [status EXCEPT ![kind] = "installing"]
    /\ overlapped' = (overlapped \/ Overlaps(kind))
    /\ UNCHANGED <<voiceVars, packs, removals, cudaVars, bounds>>

LaunchVoices(wanted) == Launch("tts", wanted)
LaunchCudaRuntimeInstall == Launch("cuda", {})
LaunchUpdateProcess == Launch("update", {})

LaunchFails(kind) ==
    /\ checked[PlaceOf(kind)] > 0
    /\ checked' = [checked EXCEPT ![PlaceOf(kind)] = @ - 1]
    /\ status' = [status EXCEPT ![kind] = "error"]
    /\ overlapped' = (overlapped \/ Overlaps(kind))
    /\ UNCHANGED <<tracked, children, voiceVars, packs, removals, cudaVars,
                   bounds>>

-----------------------------------------------------------------------------
(* The children.                                                           *)

End(i, code) == [children EXCEPT ![i].stage = "ended", ![i].code = code]

(* install_package: a package that is there is kept, one that is not is    *)
(* downloaded and verified.                                                *)
FetchVoice(i) ==
    /\ children[i].kind = "tts" /\ children[i].stage = "running"
    /\ children[i].fetched = {}
    /\ \E p \in children[i].todo :
         children' = IF p \in folders
                     THEN [children EXCEPT ![i].todo = @ \ {p}]
                     ELSE [children EXCEPT ![i].fetched = {p}]
    /\ UNCHANGED <<jobVars, voiceVars, packs, removals, cudaVars, bounds,
                   overlapped>>

(* A folder that is found in its place now, whole or not, is deleted.      *)
ClearPlace(i) ==
    /\ children[i].kind = "tts" /\ children[i].stage = "running"
    /\ children[i].fetched # {}
    /\ folders' = folders \ children[i].fetched
    /\ children' = [children EXCEPT ![i].stage = "placing"]
    /\ UNCHANGED <<jobVars, staged, manifest, prepared, packs, removals,
                   cudaVars, bounds, overlapped>>

PlaceVoice(i) ==
    /\ children[i].stage = "placing"
    /\ folders' = folders \cup children[i].fetched
    /\ children' = [children EXCEPT ![i].stage = "running",
                                    ![i].todo = @ \ children[i].fetched,
                                    ![i].fetched = {}]
    /\ UNCHANGED <<jobVars, staged, manifest, prepared, packs, removals,
                   cudaVars, bounds, overlapped>>

(* write_manifest of the installer: it is read, then replaced; the notices *)
(* beside it may fail.                                                     *)
ReadList(i) ==
    /\ children[i].kind = "tts" /\ children[i].stage = "running"
    /\ children[i].todo = {}
    /\ children' = [children EXCEPT ![i].stage = "listing",
                                    ![i].listed = manifest]
    /\ UNCHANGED <<jobVars, voiceVars, packs, removals, cudaVars, bounds,
                   overlapped>>

WriteList(i) ==
    /\ children[i].stage = "listing"
    /\ manifest' = children[i].listed \cup children[i].wanted
    /\ \E code \in {0, 1} : children' = End(i, code)
    /\ UNCHANGED <<jobVars, folders, staged, prepared, packs, removals,
                   cudaVars, bounds, overlapped>>

(* install_windows_cuda_runtime, once the files are verified: the runtime  *)
(* that is there is set aside, the new one takes its place.                *)
SetAside(i) ==
    /\ children[i].kind = "cuda" /\ children[i].stage = "running"
    /\ children' = [children EXCEPT ![i].stage = "swapping",
                                    ![i].aside = runtime]
    /\ runtime' = FALSE
    /\ UNCHANGED <<jobVars, voiceVars, packs, removals, had, torn, bounds,
                   overlapped>>

SwapIn(i) ==
    /\ children[i].stage = "swapping" /\ ~runtime
    /\ runtime' = TRUE /\ had' = TRUE
    /\ children' = End(i, 0)
    /\ UNCHANGED <<jobVars, voiceVars, packs, removals, torn, bounds,
                   overlapped>>

(* Mutant of SwapFails: the runtime that was set aside is not put back.    *)
SwapAbandoned(i) ==
    /\ children[i].stage = "swapping"
    /\ children' = End(i, 1)
    /\ UNCHANGED <<jobVars, voiceVars, packs, removals, cudaVars, bounds,
                   overlapped>>

(* The new one cannot be moved, or another is there: the old comes back.   *)
SwapFails(i) ==
    /\ children[i].stage = "swapping"
    /\ runtime' = (runtime \/ children[i].aside)
    /\ children' = End(i, 1)
    /\ UNCHANGED <<jobVars, voiceVars, packs, removals, had, torn, bounds,
                   overlapped>>

(* Translation packages and the update leave nothing the server reads.     *)
Succeed(i) ==
    /\ children[i].kind \in {"translation", "update"} /\ ~Ended(i)
    /\ children' = End(i, 0)
    /\ UNCHANGED <<jobVars, voiceVars, packs, removals, cudaVars, bounds,
                   overlapped>>

(* A download, a check of what was downloaded or a file operation fails.   *)
Fail(i) ==
    /\ children' = End(i, 1)
    /\ UNCHANGED <<jobVars, voiceVars, packs, removals, cudaVars, bounds,
                   overlapped>>

VoicesFail(i) ==
    /\ children[i].kind = "tts"
    /\ children[i].stage \in {"running", "placing", "listing"}
    /\ Fail(i)
RuntimeFails(i) ==
    children[i].kind = "cuda" /\ children[i].stage = "running" /\ Fail(i)
TranslationFails(i) ==
    children[i].kind = "translation" /\ ~Ended(i) /\ Fail(i)
UpdateFails(i) ==
    children[i].kind = "update" /\ ~Ended(i) /\ Fail(i)

(* The child is killed: nothing is put back.                               *)
Kill(i) ==
    /\ kills < MaxKills /\ ~Ended(i)
    /\ kills' = kills + 1
    /\ torn' = (torn \/ children[i].stage = "swapping")
    /\ children' = End(i, 1)
    /\ UNCHANGED <<jobVars, voiceVars, packs, removals, runtime, had, restarts,
                   overlapped>>

ChildStep(i) ==
    \/ FetchVoice(i) \/ ClearPlace(i) \/ PlaceVoice(i)
    \/ ReadList(i) \/ WriteList(i)
    \/ SetAside(i) \/ SwapIn(i) \/ SwapFails(i)
    \/ Succeed(i)
    \/ VoicesFail(i) \/ RuntimeFails(i) \/ TranslationFails(i) \/ UpdateFails(i)

-----------------------------------------------------------------------------
(* The removal of voices: a request slot s.                                *)

SetRemoval(s, r) == removals' = [removals EXCEPT ![s] = r]

CheckRemoval(s, selected) ==
    /\ Room /\ "tts" \in scope
    /\ s \notin Busy /\ \A t \in Slots \ Busy : s <= t
    /\ PollEffects("tts")
    /\ status'["tts"] # "installing"
    /\ SetRemoval(s, [NoRemoval EXCEPT !.stage = "checked", !.todo = selected])
    /\ overlapped' = (overlapped \/ Busy # {} \/ Alive("tts") # {})
    /\ UNCHANGED <<tracked, checked, children, voiceVars, cudaVars, bounds>>

(* The thread reads the manifest; it refuses if none of the packages is    *)
(* listed, or if an earlier removal left its manifest behind.              *)
ReadManifest(s) ==
    LET r == removals[s] IN
    /\ r.stage = "checked"
    /\ IF r.todo \cap manifest = {} \/ prepared # {}
       THEN SetRemoval(s, NoRemoval)
       ELSE SetRemoval(s, [r EXCEPT !.stage = "staging",
                                    !.todo = @ \cap manifest,
                                    !.listed = manifest \ r.todo])
    /\ UNCHANGED <<jobVars, children, voiceVars, packs, cudaVars, bounds,
                   overlapped>>

(* Mutant of Undo: the folders set aside stay where they are.              *)
UndoNothing(s) ==
    /\ prepared' = {}
    /\ SetRemoval(s, NoRemoval)
    /\ UNCHANGED <<folders, staged, manifest>>

(* What the except clause does: folders set aside go back.                 *)
Undo(s) ==
    LET back == (removals[s].moved \cap staged) \ folders IN
    /\ prepared' = {}
    /\ folders' = folders \cup back
    /\ staged' = staged \ back
    /\ SetRemoval(s, NoRemoval)
    /\ UNCHANGED manifest

(* A folder is set aside; one that is not there is passed over; one that   *)
(* an earlier removal left aside is an error.                              *)
StageVoice(s) ==
    LET r == removals[s] IN
    /\ r.stage = "staging"
    /\ \E p \in r.todo :
         IF p \in folders /\ p \in staged THEN Undo(s)
         ELSE /\ SetRemoval(s, [r EXCEPT !.todo = @ \ {p},
                                         !.moved = IF p \in folders
                                                   THEN @ \cup {p} ELSE @])
              /\ folders' = folders \ {p}
              /\ staged' = IF p \in folders THEN staged \cup {p} ELSE staged
              /\ UNCHANGED <<manifest, prepared>>
    /\ UNCHANGED <<jobVars, children, packs, cudaVars, bounds, overlapped>>

PrepareManifest(s) ==
    LET r == removals[s] IN
    /\ r.stage = "staging" /\ r.todo = {}
    /\ prepared' = {r.listed}
    /\ SetRemoval(s, [r EXCEPT !.stage = "replacing"])
    /\ UNCHANGED <<jobVars, children, folders, staged, manifest, packs,
                   cudaVars, bounds, overlapped>>

(* The prepared file, whoever wrote it last, becomes the manifest.         *)
ReplaceManifest(s) ==
    LET r == removals[s] IN
    /\ r.stage = "replacing"
    /\ IF prepared = {} THEN Undo(s)
       ELSE /\ manifest' = UNION prepared
            /\ prepared' = {}
            /\ SetRemoval(s, [r EXCEPT !.stage = "clearing"])
            /\ UNCHANGED <<folders, staged>>
    /\ UNCHANGED <<jobVars, children, packs, cudaVars, bounds, overlapped>>

(* A file operation fails before the manifest is replaced.                 *)
RemovalFails(s) ==
    /\ removals[s].stage \in {"staging", "replacing"}
    /\ Undo(s)
    /\ UNCHANGED <<jobVars, children, packs, cudaVars, bounds, overlapped>>

(* The folders set aside are deleted, or one cannot be: then the handler   *)
(* answers with an error and reads nothing again.                          *)
ClearStaged(s) ==
    /\ removals[s].stage = "clearing"
    /\ \/ /\ staged' = staged \ removals[s].moved
          /\ SetRemoval(s, [NoRemoval EXCEPT !.stage = "reloading"])
       \/ /\ removals[s].moved # {}
          /\ SetRemoval(s, NoRemoval)
          /\ UNCHANGED staged
    /\ UNCHANGED <<jobVars, children, folders, manifest, prepared, packs,
                   cudaVars, bounds, overlapped>>

FinishRemoval(s) ==
    /\ removals[s].stage = "reloading"
    /\ packs' = Offered
    /\ status' = [status EXCEPT !["tts"] = "idle"]
    /\ SetRemoval(s, NoRemoval)
    /\ UNCHANGED <<tracked, checked, children, voiceVars, cudaVars, bounds,
                   overlapped>>

RemovalStep(s) ==
    \/ ReadManifest(s) \/ StageVoice(s) \/ PrepareManifest(s)
    \/ ReplaceManifest(s) \/ RemovalFails(s) \/ ClearStaged(s)
    \/ FinishRemoval(s)

-----------------------------------------------------------------------------
(* The server dies and starts again; its children go on.                   *)
Restart ==
    /\ restarts < MaxRestarts
    /\ restarts' = restarts + 1
    /\ status' = [k \in Kinds |-> "idle"]
    /\ tracked' = [k \in Kinds |-> 0]
    /\ checked' = [k \in Places |-> 0]
    /\ removals' = [s \in Slots |-> NoRemoval]
    /\ packs' = Offered
    /\ UNCHANGED <<children, voiceVars, cudaVars, kills, overlapped>>

Init ==
    /\ scope \in Scopes
    /\ status = [k \in Kinds |-> "idle"]
    /\ tracked = [k \in Kinds |-> 0]
    /\ checked = [k \in Places |-> 0]
    /\ children = <<>>
    /\ folders \in SUBSET Packages
    /\ manifest = folders /\ packs = folders
    /\ staged = {} /\ prepared = {}
    /\ removals = [s \in Slots |-> NoRemoval]
    /\ runtime \in BOOLEAN /\ had = runtime /\ torn = FALSE
    /\ restarts = 0 /\ kills = 0 /\ asked = 0 /\ overlapped = FALSE

Request ==
    \/ InstallTranslation \/ InstallTranslationFails
    \/ InstallTranslatedAudio \/ InstallCudaRuntime \/ StartUpdate
    \/ \E wanted \in SUBSET Packages \ {{}}, s \in Slots :
         CheckRemoval(s, wanted)

Step ==
    \/ MarkUpdate \/ Restart
    \/ TranslationInstallState \/ TtsInstallState
    \/ CudaRuntimeCapabilityState \/ UpdateCapabilityState
    \/ \E kind \in Kinds \ {"translation"} :
         GiveUp(kind) \/ LaunchFails(kind)
    \/ LaunchCudaRuntimeInstall \/ LaunchUpdateProcess
    \/ \E wanted \in SUBSET Packages \ {{}} : LaunchVoices(wanted)
    \/ \E i \in 1 .. Len(children) : ChildStep(i) \/ Kill(i)
    \/ \E s \in Slots : RemovalStep(s)

Next ==
    \/ Request /\ UNCHANGED scope
    \/ Step /\ UNCHANGED <<asked, scope>>

Spec == Init /\ [][Next]_vars

(* Installers end, and the operator's page asks for the status.            *)
FairSpec ==
    /\ Spec
    /\ \A i \in 1 .. MaxChildren : WF_vars(i <= Len(children) /\ ChildStep(i)
                                          /\ UNCHANGED <<asked, scope>>)
    /\ \A kind \in Kinds : WF_vars(Poll(kind) /\ UNCHANGED <<asked, scope>>)

-----------------------------------------------------------------------------
(* A removal that fails, at any of its steps, leaves no working voice half *)
(* removed: every listed voice has its folder, unless requests overlapped  *)
(* or the server died during a removal.                                    *)
VoicesBacked ==
    (~overlapped /\ restarts = 0 /\ Busy = {}) => manifest \subseteq folders

(* An install is called complete only if the voices it was to bring are    *)
(* offered, or the CUDA runtime is there; and an installation of voices    *)
(* that met no other change of them is called what its exit code says.     *)
InstallReported ==
    [][\A kind \in Kinds :
         (status[kind] = "installing"
          /\ status'[kind] \in {"complete", "error"} /\ tracked[kind] # 0)
         => /\ (kind = "tts" /\ status'[kind] = "complete")
                  => children[tracked[kind]].wanted \subseteq packs'
            /\ (kind = "cuda" /\ status'[kind] = "complete") => runtime
            /\ (kind = "tts" /\ ~overlapped'
                /\ children[tracked[kind]].code = 0)
                  => status'[kind] = "complete"]_vars

(* An installation of the CUDA runtime that fails, alone or beside another *)
(* one, does not take away the runtime that was there.                     *)
RuntimeKept ==
    (had /\ ~torn /\ \A i \in 1 .. Len(children) :
                        children[i].stage # "swapping") => runtime

(* An installation does not stay under way: its end is noticed, also when  *)
(* a second one was started or voices were removed meanwhile.              *)
InstallsSettle ==
    \A kind \in Kinds : (status[kind] = "installing")
                           ~> (status[kind] # "installing")

=============================================================================
