------------------------------ MODULE Migration ------------------------------
(***************************************************************************)
(* The one-time import of the settings and secrets of older versions       *)
(* (migrateLegacy of internal/config/config.go, internal/secrets).  It     *)
(* runs inside LoadStored whenever there is no vepeen.bin: at the start of *)
(* the window, and again in every auto-save goroutine until a store        *)
(* exists.  It reads the two config.json files and the Credential Manager, *)
(* saves what it found, and only then purges the sources.  The process may *)
(* die between any two steps and be started again.                         *)
(*                                                                         *)
(* A save replaces the store as a whole or fails (AtomicStore); what the   *)
(* window's handlers do to the settings is the subject of Settings.        *)
(***************************************************************************)
CONSTANTS
  Names,        \* connection names
  DefaultName,  \* config.DefaultConnectionName
  AutoSaves,    \* auto-save goroutines that may be pending at once
  ReadsFail,    \* a secret that is there may be unreadable for a while
  SavesFail     \* SaveStored may fail

ASSUME NamesAssumption ==
  DefaultName \in Names /\ Names \intersect {"none", "malformed"} = {}
ASSUME WindowAssumption == "window" \notin AutoSaves
ASSUME FaultsAssumption == ReadsFail \in BOOLEAN /\ SavesFail \in BOOLEAN

Places == {"beside", "roaming"}   \* config.json next to vepeen.exe, in %AppData%
Loaders == {"window"} \union AutoSaves

(* A secret (user name or password) is named after its connection: both    *)
(* kinds are read, saved and purged in the same way, each by itself.       *)
(* Settings are told apart by where they come from.                        *)
Stored == [s : Places \union {"default", "edited"}, secrets : SUBSET Names]
DefaultStored == [s |-> "default", secrets |-> {}]
NothingToPurge == [files |-> {}, secrets |-> {}]

VARIABLES
  files,       \* the profile each config.json selects, if it is there and parses
  vault,       \* the entries of the Credential Manager
  exists, bin, \* vepeen.bin
  pc,          \* by loader: where it is in LoadStored
  cur,         \* by loader: the copy it holds; the window keeps its own (c.stored)
  names,       \* by loader: profileNames, those whose secrets it looks for
  found,       \* by loader: a legacy file was read
  todo,        \* by loader: the sources it has yet to purge
  blank,       \* by loader: it saw no store, and has written none
  \* history:
  chosen, owned,  \* the settings and secrets an import has to find
  touched,        \* connections whose secrets the user has stored or deleted
  unread,         \* secrets that were there when an import failed to read them
  unsaved,        \* the save of an import failed
  overwritten     \* a store was replaced by a loader that never saw it

osVars == <<files, vault, exists, bin>>
loadVars == <<pc, cur, names, found, todo, blank>>
histVars == <<chosen, owned, touched, unread, unsaved, overwritten>>
vars == <<osVars, loadVars, histVars>>

(* Every copy is a whole store, and a loader purges only what it looked at *)
(* and only in the end.                                                    *)
TypeOK ==
  /\ files \in [Places -> Names \union {"none", "malformed"}]
  /\ vault \in SUBSET Names
  /\ exists \in BOOLEAN
  /\ bin \in Stored
  /\ pc \in [Loaders -> {"idle", "bin", "files", "secrets", "save", "purge", "loaded"}]
  /\ cur \in [Loaders -> Stored]
  /\ names \in [Loaders -> SUBSET Names]
  /\ found \in [Loaders -> BOOLEAN]
  /\ todo \in [Loaders -> [files : SUBSET Places, secrets : SUBSET Names]]
  /\ blank \in [Loaders -> BOOLEAN]
  /\ chosen \in Places \union {"default"}
  /\ owned \in SUBSET Names
  /\ touched \in SUBSET Names
  /\ unread \in SUBSET Names
  /\ unsaved \in BOOLEAN /\ overwritten \in BOOLEAN
  /\ \A l \in Loaders : todo[l].secrets \subseteq names[l]
  /\ \A l \in Loaders : pc[l] # "purge" => todo[l] = NothingToPurge

-----------------------------------------------------------------------------
Present == {f \in Places : files[f] # "none"}

(* The loop over the files has no break: the per-user one overrides the    *)
(* other, even when it does not parse, which reads as the defaults.        *)
Last(seen) == IF "roaming" \in seen THEN "roaming" ELSE "beside"

SettingsOf(seen) ==
  IF seen = {} \/ files[Last(seen)] = "malformed" THEN "default" ELSE Last(seen)

(* The Credential Manager cannot be listed; these names are looked up.     *)
NamesOf(seen) ==
  {DefaultName} \union
    (IF SettingsOf(seen) = "default" THEN {} ELSE {files[Last(seen)]})

FreshLoads ==
  /\ pc = [l \in Loaders |-> IF l = "window" THEN "bin" ELSE "idle"]
  /\ cur = [l \in Loaders |-> DefaultStored]
  /\ names = [l \in Loaders |-> {}]
  /\ found = [l \in Loaders |-> FALSE]
  /\ todo = [l \in Loaders |-> NothingToPurge]
  /\ blank = [l \in Loaders |-> FALSE]

(* The first start of a version that has vepeen.bin.                       *)
Init ==
  /\ files \in [Places -> Names \union {"none", "malformed"}]
  /\ vault \in SUBSET Names
  /\ exists = FALSE
  /\ bin = DefaultStored
  /\ FreshLoads
  /\ chosen = SettingsOf(Present)
  /\ owned = vault \intersect NamesOf(Present)
  /\ touched = {}
  /\ unread = {}
  /\ unsaved = FALSE /\ overwritten = FALSE

-----------------------------------------------------------------------------
(* LoadStored *)

(* It returns the copy st; its locals are gone.                            *)
LoadReturns(l, st) ==
  /\ pc' = [pc EXCEPT ![l] = "loaded"]
  /\ cur' = [cur EXCEPT ![l] = st]
  /\ names' = [names EXCEPT ![l] = {}]
  /\ found' = [found EXCEPT ![l] = FALSE]

FindStoreUnlessLegacy(l) ==   \* slip: a legacy file that is left is imported again
  /\ pc[l] = "bin"
  /\ cur' = [cur EXCEPT ![l] = IF exists /\ Present = {} THEN bin ELSE DefaultStored]
  /\ blank' = [blank EXCEPT ![l] = ~exists]
  /\ pc' = [pc EXCEPT ![l] = IF exists /\ Present = {} THEN "loaded" ELSE "files"]
  /\ UNCHANGED <<osVars, names, found, todo, histVars>>

(* A store that exists is loaded; only a missing one leads to an import.   *)
FindStore(l) ==
  /\ pc[l] = "bin"
  /\ blank' = [blank EXCEPT ![l] = ~exists]
  /\ IF exists
     THEN LoadReturns(l, bin)
     ELSE pc' = [pc EXCEPT ![l] = "files"] /\ UNCHANGED <<cur, names, found>>
  /\ UNCHANGED <<osVars, todo, histVars>>

(* Bound: a file that is there can be read (the code skips it otherwise,   *)
(* and then looks for the secrets of another profile).                     *)
ReadFiles(l) ==
  /\ pc[l] = "files"
  /\ cur' = [cur EXCEPT ![l].s = SettingsOf(Present)]
  /\ names' = [names EXCEPT ![l] = NamesOf(Present)]
  /\ found' = [found EXCEPT ![l] = Present # {}]
  /\ pc' = [pc EXCEPT ![l] = "secrets"]
  /\ UNCHANGED <<osVars, todo, blank, histVars>>

(* ReadLegacy answers "not there" whatever goes wrong.                     *)
ReadSecrets(l) ==
  /\ pc[l] = "secrets"
  /\ LET there == vault \intersect names[l]
     IN \E seen \in IF ReadsFail THEN SUBSET there ELSE {there} :
          /\ unread' = unread \union (there \ seen)
          /\ IF found[l] \/ seen # {}
             THEN /\ pc' = [pc EXCEPT ![l] = "save"]
                  /\ cur' = [cur EXCEPT ![l].secrets = seen]
                  /\ UNCHANGED <<names, found>>
             ELSE LoadReturns(l, DefaultStored)
  /\ UNCHANGED <<osVars, todo, blank, chosen, owned, touched,
                 unsaved, overwritten>>

(* SaveStored(st) by loader l: the store is replaced.                      *)
Replace(l, st) ==
  /\ exists' = TRUE
  /\ bin' = st
  /\ overwritten' = (overwritten \/ (exists /\ blank[l]))
  /\ blank' = [blank EXCEPT ![l] = FALSE]

SaveImport(l) ==
  /\ pc[l] = "save"
  /\ Replace(l, cur[l])
  /\ pc' = [pc EXCEPT ![l] = "purge"]
  /\ todo' = [todo EXCEPT ![l] = [files |-> Places, secrets |-> names[l]]]
  /\ UNCHANGED <<files, vault, cur, names, found, chosen, owned, touched, unread, unsaved>>

SaveImportFailsPurging(l) ==   \* slip: the sources are purged all the same
  /\ SavesFail
  /\ pc[l] = "save"
  /\ pc' = [pc EXCEPT ![l] = "purge"]
  /\ todo' = [todo EXCEPT ![l] = [files |-> Places, secrets |-> names[l]]]
  /\ unsaved' = TRUE
  /\ UNCHANGED <<osVars, cur, names, found, blank, chosen, owned, touched,
                 unread, overwritten>>

(* The sources stay, and LoadStored returns the defaults and no error.     *)
SaveImportFails(l) ==
  /\ SavesFail
  /\ pc[l] = "save"
  /\ LoadReturns(l, DefaultStored)
  /\ unsaved' = TRUE
  /\ UNCHANGED <<osVars, todo, blank, chosen, owned, touched, unread, overwritten>>

(* Both files are removed, read or not; the error is ignored.              *)
PurgeFile(l, f) ==
  /\ pc[l] = "purge"
  /\ f \in todo[l].files
  /\ todo' = [todo EXCEPT ![l].files = @ \ {f}]
  /\ files' \in {files, [files EXCEPT ![f] = "none"]}
  /\ UNCHANGED <<vault, exists, bin, pc, cur, names, found, blank, histVars>>

(* An entry that is there now is deleted; so is one that the import could  *)
(* not read.  Reading it again and deleting it may fail.                   *)
PurgeEntry(l, n) ==
  /\ pc[l] = "purge"
  /\ todo[l].files = {}
  /\ n \in todo[l].secrets
  /\ todo' = [todo EXCEPT ![l].secrets = @ \ {n}]
  /\ vault' \in {vault, vault \ {n}}
  /\ UNCHANGED <<files, exists, bin, pc, cur, names, found, blank, histVars>>

PurgeDoneEarly(l) ==   \* slip: it returns when the files are gone
  /\ pc[l] = "purge"
  /\ todo[l].files = {}
  /\ LoadReturns(l, cur[l])
  /\ UNCHANGED <<osVars, todo, blank, histVars>>

PurgeDone(l) ==
  /\ pc[l] = "purge"
  /\ todo[l] = NothingToPurge
  /\ LoadReturns(l, cur[l])
  /\ UNCHANGED <<osVars, todo, blank, histVars>>

-----------------------------------------------------------------------------
(* The window's writes (persistCredentials, onSave): its own copy, whether *)
(* the save works or not.                                                  *)
WindowSaves(new) ==
  /\ pc["window"] = "loaded"
  /\ cur' = [cur EXCEPT !["window"] = new]
  /\ \/ Replace("window", new)
     \/ SavesFail /\ UNCHANGED <<exists, bin, overwritten, blank>>
  /\ UNCHANGED <<files, vault, pc, names, found, todo, chosen, owned, unread, unsaved>>

PersistCredentials(p) ==
  /\ \E secrets \in {{}, {p}} :
       WindowSaves([cur["window"] EXCEPT !.secrets = (@ \ {p}) \union secrets])
  /\ touched' = touched \union {p}

OnSave ==
  /\ WindowSaves([cur["window"] EXCEPT !.s = "edited"])
  /\ UNCHANGED touched

(* onConnect starts an auto-save (persistQuiet), which loads the store ... *)
AutoSave(i) ==
  /\ pc["window"] = "loaded"
  /\ pc[i] = "idle"
  /\ pc' = [pc EXCEPT ![i] = "bin"]
  /\ UNCHANGED <<osVars, cur, names, found, todo, blank, histVars>>

AutoWriteBare(i) ==   \* slip: the settings are written without the secrets loaded
  /\ pc[i] = "loaded"
  /\ \/ \E s \in {cur["window"].s, "edited"} : Replace(i, [s |-> s, secrets |-> {}])
     \/ SavesFail /\ UNCHANGED <<exists, bin, overwritten, blank>>
  /\ pc' = [pc EXCEPT ![i] = "idle"]
  /\ cur' = [cur EXCEPT ![i] = DefaultStored]
  /\ UNCHANGED <<files, vault, names, found, todo, chosen, owned, touched,
                 unread, unsaved>>

(* ... and writes what it loaded back with the form's settings.            *)
AutoWrite(i) ==
  /\ pc[i] = "loaded"
  /\ \/ \E s \in {cur["window"].s, "edited"} : Replace(i, [cur[i] EXCEPT !.s = s])
     \/ SavesFail /\ UNCHANGED <<exists, bin, overwritten, blank>>
  /\ pc' = [pc EXCEPT ![i] = "idle"]
  /\ cur' = [cur EXCEPT ![i] = DefaultStored]
  /\ UNCHANGED <<files, vault, names, found, todo, chosen, owned, touched,
                 unread, unsaved>>

(* The process dies and is started again.                                  *)
Restart ==
  /\ pc' = [l \in Loaders |-> IF l = "window" THEN "bin" ELSE "idle"]
  /\ cur' = [l \in Loaders |-> DefaultStored]
  /\ names' = [l \in Loaders |-> {}]
  /\ found' = [l \in Loaders |-> FALSE]
  /\ todo' = [l \in Loaders |-> NothingToPurge]
  /\ blank' = [l \in Loaders |-> FALSE]
  /\ UNCHANGED <<osVars, histVars>>

Import(l) ==
  \/ FindStore(l) \/ ReadFiles(l) \/ ReadSecrets(l)
  \/ SaveImport(l) \/ SaveImportFails(l)
  \/ (\E f \in Places : PurgeFile(l, f)) \/ (\E n \in Names : PurgeEntry(l, n))
  \/ PurgeDone(l)

Next ==
  \/ \E l \in Loaders : Import(l)
  \/ \E p \in Names : PersistCredentials(p)
  \/ OnSave
  \/ \E i \in AutoSaves : AutoSave(i) \/ AutoWrite(i)
  \/ Restart

Spec == Init /\ [][Next]_vars

-----------------------------------------------------------------------------
(* The secrets an import answers for: those that it could read and that    *)
(* the user has not changed since.                                         *)
Kept == owned \ (touched \union unread)

(* When the save of every import worked, the import is all or nothing at   *)
(* every moment, wherever the process died and whichever deletions failed: *)
(* before the store exists no source has been touched, and from then on    *)
(* the store has all of it.                                                *)
AllOrNothing ==
  ~unsaved =>
    IF exists
    THEN Kept \subseteq bin.secrets /\ (unread = {} => bin.s \in {chosen, "edited"})
    ELSE owned \subseteq vault /\ (chosen \in Places => files[chosen] # "none")

(* A failed save of an import costs nothing either, as long as no store    *)
(* was replaced by a goroutine or window that had looked before it existed:*)
(* every secret is then still at its source or in the store.               *)
SourceOrStore ==
  ~overwritten => Kept \subseteq vault \union (IF exists THEN bin.secrets ELSE {})

(* "Once it exists, LoadStored will never re-enter migration": what a      *)
(* crash or a failed deletion left of the sources is not imported over a   *)
(* newer store.                                                            *)
NeverOverNewer ==
  [][~unsaved /\ unread = {} =>
       \A l \in Loaders : pc[l] = "save" /\ pc'[l] = "purge" => ~exists]_vars

-----------------------------------------------------------------------------
(* What the documents say and the code does not do (see README.md).        *)

(* "On a write failure the old sources are intentionally left in place     *)
(* (safe fallback, no data loss)."  They are left, and the next import, an *)
(* auto-save's, works and purges them; but the window still holds the      *)
(* defaults that the failed one gave it, and its next write puts these in  *)
(* the place of the store: the secrets are then nowhere.                   *)
NoDataLoss == Kept \subseteq vault \union (IF exists THEN bin.secrets ELSE {})

=============================================================================
