--------------------------- MODULE MigrationProofs ---------------------------
(***************************************************************************)
(* What the import of the old settings and secrets keeps, for every set of *)
(* names and any number of auto-saves that import on their own: the types, *)
(* that a secret is always at its source or in the store, that the import  *)
(* is all or nothing, and that it does not run again over a newer store.   *)
(***************************************************************************)
EXTENDS Migration, TLAPS

LEMMA KeptShrinks ==
  ASSUME owned' = owned, touched \subseteq touched', unread \subseteq unread'
  PROVE  Kept' \subseteq Kept
BY DEF Kept

-----------------------------------------------------------------------------
(* Types *)

LEMMA NamesOfType ==
  ASSUME TypeOK, NEW seen \in SUBSET Places, seen \subseteq Present
  PROVE  SettingsOf(seen) \in Places \union {"default"} /\ NamesOf(seen) \in SUBSET Names
<1>1. SettingsOf(seen) \in Places \union {"default"}
  BY DEF SettingsOf, Last, Places
<1>2. SettingsOf(seen) # "default" => files[Last(seen)] \in Names
  <2> SUFFICES ASSUME SettingsOf(seen) # "default" PROVE files[Last(seen)] \in Names
    OBVIOUS
  <2>1. seen # {} /\ files[Last(seen)] # "malformed"
    BY DEF SettingsOf
  <2>2. Last(seen) \in seen
    BY <2>1 DEF Last, Places
  <2> QED
    BY <2>1, <2>2 DEF Present, TypeOK
<1> QED
  BY <1>1, <1>2, NamesAssumption DEF NamesOf

LEMMA InitTypeOK == Init => TypeOK
<1> SUFFICES ASSUME Init PROVE TypeOK
  OBVIOUS
<1>1. SettingsOf(Present) \in Places \union {"default"}
  BY DEF SettingsOf, Last, Places
<1>2. DefaultStored \in Stored /\ NothingToPurge \in [files : SUBSET Places, secrets : SUBSET Names]
  BY DEF DefaultStored, Stored, NothingToPurge
<1> QED
  BY <1>1, <1>2 DEF Init, FreshLoads, TypeOK, NothingToPurge

(* LoadReturns ends a load with a store as the copy.                       *)
LEMMA ReturnTypes ==
  ASSUME TypeOK, NEW l \in Loaders, NEW st \in Stored, LoadReturns(l, st)
  PROVE  /\ pc' \in [Loaders -> {"idle", "bin", "files", "secrets", "save", "purge", "loaded"}]
         /\ cur' \in [Loaders -> Stored]
         /\ names' \in [Loaders -> SUBSET Names]
         /\ found' \in [Loaders -> BOOLEAN]
         /\ names'[l] = {}
         /\ \A m \in Loaders \ {l} : names'[m] = names[m]
BY DEF LoadReturns, TypeOK

LEMMA ReplaceTypes ==
  ASSUME TypeOK, NEW l \in Loaders, NEW st \in Stored, Replace(l, st)
  PROVE  /\ exists' \in BOOLEAN /\ bin' \in Stored
         /\ blank' \in [Loaders -> BOOLEAN] /\ overwritten' \in BOOLEAN
BY DEF Replace, TypeOK

(* What a loader has yet to purge when it is not purging.                  *)
LEMMA NothingIsTyped ==
  /\ DefaultStored \in Stored
  /\ NothingToPurge \in [files : SUBSET Places, secrets : SUBSET Names]
  /\ NothingToPurge.files = {} /\ NothingToPurge.secrets = {}
BY DEF DefaultStored, Stored, NothingToPurge

(* A load that ends purges nothing any more.                               *)
LEMMA ReturnKeepsTypes ==
  ASSUME TypeOK, NEW l \in Loaders, NEW st \in Stored, LoadReturns(l, st),
         todo[l] = NothingToPurge, UNCHANGED <<files, vault, exists, bin, todo, chosen, owned>>,
         blank' \in [Loaders -> BOOLEAN], touched' \in SUBSET Names, unread' \in SUBSET Names,
         unsaved' \in BOOLEAN, overwritten' \in BOOLEAN
  PROVE  TypeOK'
<1>1. \A m \in Loaders : todo'[m].secrets \subseteq names'[m]
  BY ReturnTypes, NothingIsTyped DEF TypeOK
<1>2. \A m \in Loaders : pc'[m] # "purge" => todo'[m] = NothingToPurge
  BY DEF TypeOK, LoadReturns
<1> QED
  BY <1>1, <1>2, ReturnTypes DEF TypeOK

LEMMA ImportTypeOK ==
  ASSUME TypeOK, NEW l \in Loaders, Import(l)
  PROVE  TypeOK'
<1> DEFINE Ours == \A m \in Loaders : todo'[m].secrets \subseteq names'[m]
           AtEnd == \A m \in Loaders : pc'[m] # "purge" => todo'[m] = NothingToPurge
<1>1. CASE FindStore(l)
  <2>1. blank' \in [Loaders -> BOOLEAN]
    BY <1>1 DEF FindStore, TypeOK
  <2>2. CASE exists
    <3>1. LoadReturns(l, bin) /\ bin \in Stored /\ todo[l] = NothingToPurge
      BY <1>1, <2>2 DEF FindStore, TypeOK
    <3>2. UNCHANGED <<files, vault, exists, bin, todo, chosen, owned, touched, unread, unsaved,
                      overwritten>>
      BY <1>1 DEF FindStore, osVars, histVars
    <3> QED
      BY <2>1, <3>1, <3>2, ReturnKeepsTypes DEF TypeOK
  <2>3. CASE ~exists
    BY <1>1, <2>1, <2>3 DEF FindStore, TypeOK, osVars, histVars
  <2> QED
    BY <2>2, <2>3
<1>2. CASE ReadFiles(l)
  <2>1. SettingsOf(Present) \in Places \union {"default"} /\ NamesOf(Present) \in SUBSET Names
    BY NamesOfType DEF Present
  <2>2. cur' \in [Loaders -> Stored]
    BY <1>2, <2>1 DEF ReadFiles, TypeOK, Stored
  <2>3. names' \in [Loaders -> SUBSET Names] /\ found' \in [Loaders -> BOOLEAN]
    BY <1>2, <2>1 DEF ReadFiles, TypeOK
  <2>4. Ours /\ AtEnd
    BY <1>2, NothingIsTyped DEF ReadFiles, TypeOK
  <2> QED
    BY <1>2, <2>2, <2>3, <2>4 DEF ReadFiles, TypeOK, osVars, histVars
<1>3. CASE ReadSecrets(l)
  <2>1. PICK seen \in SUBSET (vault \intersect names[l]) :
          /\ unread' = unread \union ((vault \intersect names[l]) \ seen)
          /\ IF found[l] \/ seen # {}
             THEN /\ pc' = [pc EXCEPT ![l] = "save"]
                  /\ cur' = [cur EXCEPT ![l].secrets = seen]
                  /\ UNCHANGED <<names, found>>
             ELSE LoadReturns(l, DefaultStored)
    BY <1>3 DEF ReadSecrets
  <2>2. unread' \in SUBSET Names /\ todo[l] = NothingToPurge
    BY <1>3, <2>1 DEF ReadSecrets, TypeOK
  <2>3. CASE found[l] \/ seen # {}
    <3>0. [cur[l] EXCEPT !.secrets = seen] \in Stored /\ cur' = [cur EXCEPT ![l].secrets = seen]
      BY <2>1, <2>3 DEF TypeOK, Stored
    <3>1. cur' \in [Loaders -> Stored]
      BY <3>0 DEF TypeOK
    <3>2. Ours /\ AtEnd
      BY <1>3, <2>1, <2>3 DEF ReadSecrets, TypeOK
    <3> QED
      BY <1>3, <2>1, <2>2, <2>3, <3>1, <3>2 DEF ReadSecrets, TypeOK, osVars
  <2>4. CASE ~(found[l] \/ seen # {})
    BY <1>3, <2>1, <2>2, <2>4, ReturnKeepsTypes, NothingIsTyped DEF ReadSecrets, TypeOK, osVars
  <2> QED
    BY <2>3, <2>4
<1>4. CASE SaveImport(l)
  <2>1. Ours /\ AtEnd
    BY <1>4 DEF SaveImport, TypeOK
  <2>2. todo' \in [Loaders -> [files : SUBSET Places, secrets : SUBSET Names]]
    BY <1>4 DEF SaveImport, TypeOK
  <2> QED
    BY <1>4, <2>1, <2>2, ReplaceTypes DEF SaveImport, TypeOK
<1>5. CASE SaveImportFails(l)
  <2>1. todo[l] = NothingToPurge
    BY <1>5 DEF SaveImportFails, TypeOK
  <2> QED
    BY <1>5, <2>1, ReturnKeepsTypes, NothingIsTyped DEF SaveImportFails, TypeOK, osVars
<1>6. ASSUME NEW f \in Places, PurgeFile(l, f) PROVE TypeOK'
  <2>1. todo' \in [Loaders -> [files : SUBSET Places, secrets : SUBSET Names]] /\ Ours /\ AtEnd
    BY <1>6 DEF PurgeFile, TypeOK
  <2>2. files' \in [Places -> Names \union {"none", "malformed"}]
    BY <1>6 DEF PurgeFile, TypeOK
  <2> QED
    BY <1>6, <2>1, <2>2 DEF PurgeFile, TypeOK, histVars
<1>7. ASSUME NEW n \in Names, PurgeEntry(l, n) PROVE TypeOK'
  <2>1. todo' \in [Loaders -> [files : SUBSET Places, secrets : SUBSET Names]] /\ Ours /\ AtEnd
    BY <1>7 DEF PurgeEntry, TypeOK
  <2> QED
    BY <1>7, <2>1 DEF PurgeEntry, TypeOK, histVars
<1>8. CASE PurgeDone(l)
  <2>1. todo[l] = NothingToPurge /\ cur[l] \in Stored
    BY <1>8 DEF PurgeDone, TypeOK
  <2> QED
    BY <1>8, <2>1, ReturnKeepsTypes DEF PurgeDone, TypeOK, osVars, histVars
<1> QED
  BY <1>1, <1>2, <1>3, <1>4, <1>5, <1>6, <1>7, <1>8 DEF Import

(* The window's writes: its copy is a store, and so is the file.           *)
LEMMA WindowSavesTypes ==
  ASSUME TypeOK, NEW st \in Stored, WindowSaves(st), touched' \in SUBSET Names
  PROVE  TypeOK'
<1>1. cur' \in [Loaders -> Stored]
  BY DEF WindowSaves, TypeOK
<1>2. exists' \in BOOLEAN /\ bin' \in Stored /\ blank' \in [Loaders -> BOOLEAN]
      /\ overwritten' \in BOOLEAN
  BY ReplaceTypes DEF WindowSaves, Loaders, TypeOK
<1> QED
  BY <1>1, <1>2 DEF WindowSaves, TypeOK

(* The steps of the window, the auto-saves and the process.                *)
Around ==
  \/ \E p \in Names : PersistCredentials(p)
  \/ OnSave
  \/ \E i \in AutoSaves : AutoSave(i) \/ AutoWrite(i)
  \/ Restart

LEMMA NextIs == Next <=> (\E l \in Loaders : Import(l)) \/ Around
BY DEF Next, Around

LEMMA AroundTypeOK ==
  ASSUME TypeOK, Around
  PROVE  TypeOK'
<1>w. cur["window"] \in Stored
  BY DEF TypeOK, Loaders
<1>1. ASSUME NEW p \in Names, PersistCredentials(p) PROVE TypeOK'
  <2>1. PICK secrets \in {{}, {p}} :
          WindowSaves([cur["window"] EXCEPT !.secrets = (@ \ {p}) \union secrets])
    BY <1>1 DEF PersistCredentials
  <2>2. [cur["window"] EXCEPT !.secrets = (@ \ {p}) \union secrets] \in Stored
    BY <1>w, <2>1 DEF Stored
  <2>3. touched' \in SUBSET Names
    BY <1>1 DEF PersistCredentials, TypeOK
  <2> QED
    BY <2>1, <2>2, <2>3, WindowSavesTypes
<1>2. CASE OnSave
  <2>1. [cur["window"] EXCEPT !.s = "edited"] \in Stored
    BY <1>w DEF Stored
  <2> QED
    BY <1>2, <2>1, WindowSavesTypes DEF OnSave, TypeOK
<1>3. ASSUME NEW i \in AutoSaves, AutoSave(i) PROVE TypeOK'
  BY <1>3 DEF AutoSave, TypeOK, osVars, histVars, Loaders
<1>4. ASSUME NEW i \in AutoSaves, AutoWrite(i) PROVE TypeOK'
  <2>1. \A s \in {cur["window"].s, "edited"} : [cur[i] EXCEPT !.s = s] \in Stored
    BY <1>w DEF TypeOK, Stored, Loaders
  <2>2. exists' \in BOOLEAN /\ bin' \in Stored /\ blank' \in [Loaders -> BOOLEAN]
        /\ overwritten' \in BOOLEAN
    BY <1>4, <2>1, ReplaceTypes DEF AutoWrite, Loaders, TypeOK
  <2>3. /\ cur' \in [Loaders -> Stored]
        /\ pc' \in [Loaders -> {"idle", "bin", "files", "secrets", "save", "purge", "loaded"}]
        /\ \A l \in Loaders : pc'[l] # "purge" => todo[l] = NothingToPurge
    BY <1>4, NothingIsTyped DEF AutoWrite, Loaders, TypeOK
  <2> QED
    BY <1>4, <2>2, <2>3 DEF AutoWrite, TypeOK
<1>5. CASE Restart
  BY <1>5, NothingIsTyped DEF Restart, TypeOK, osVars, histVars
<1> QED
  BY <1>1, <1>2, <1>3, <1>4, <1>5 DEF Around

LEMMA StepTypeOK == TypeOK /\ [Next]_vars => TypeOK'
<1>1. ASSUME TypeOK, UNCHANGED vars PROVE TypeOK'
  BY <1>1 DEF vars, osVars, loadVars, histVars, TypeOK
<1> QED
  BY <1>1, NextIs, ImportTypeOK, AroundTypeOK

(* Every copy of the settings is a whole store, in every file and          *)
(* goroutine, and a loader purges only the secrets it has looked for.      *)
THEOREM MigrationTypes == Spec => []TypeOK
BY InitTypeOK, StepTypeOK, PTL DEF Spec

-----------------------------------------------------------------------------
(* All or nothing                                                          *)

(* Before there is a store the sources are as the import has to find them. *)
SourcesWhole ==
  ~exists => chosen = SettingsOf(Present) /\ owned = vault \intersect NamesOf(Present)

(* Afterwards the store has what the import answers for.                   *)
HasAll(st) == Kept \subseteq st.secrets /\ (unread = {} => st.s \in {chosen, "edited"})

(* There was nothing to import, or nothing that could be read.             *)
Moot ==
  /\ Present = {} /\ chosen = "default"
  /\ owned \subseteq unread
  /\ DefaultName \in vault => DefaultName \in unread

(* The window loads first, alone.                                          *)
WindowFirst == pc["window"] # "loaded" => \A i \in AutoSaves : pc[i] = "idle"

WindowImports ==
  /\ pc["window"] \in {"files", "secrets", "save"} => ~exists
  /\ pc["window"] \in {"secrets", "save"} =>
       /\ names["window"] = NamesOf(Present) /\ found["window"] = (Present # {})
       /\ cur["window"].s = chosen
  /\ pc["window"] \in {"save", "purge"} => HasAll(cur["window"])
  /\ pc["window"] = "loaded" => HasAll(cur["window"]) /\ (~exists => Moot)

(* An auto-save that looks for old settings does so because there were     *)
(* none; what it finds is a secret that could not be read before.          *)
AutoImports ==
  \A i \in AutoSaves :
    /\ pc[i] \in {"files", "secrets", "save", "purge"} => Moot
    /\ pc[i] = "secrets" => names[i] = {DefaultName} /\ found[i] = FALSE
    /\ pc[i] \in {"secrets", "save"} => cur[i].s = "default"
    /\ pc[i] = "save" => unread # {}
    /\ pc[i] \in {"loaded", "purge"} => Kept \subseteq cur[i].secrets

PurgeAfterSave == \A l \in Loaders : pc[l] = "purge" => exists

ImportInv ==
  /\ TypeOK /\ WindowFirst
  /\ ~unsaved => /\ SourcesWhole /\ (exists => HasAll(bin))
                 /\ WindowImports /\ AutoImports /\ PurgeAfterSave

-----------------------------------------------------------------------------
(* What has been kept stays kept while the sources and the history only    *)
(* move the way they do.                                                   *)
HistoryMoves ==
  /\ chosen' = chosen /\ owned' = owned
  /\ touched \subseteq touched' /\ unread \subseteq unread'
  /\ vault' \subseteq vault

LEMMA MootStays ==
  ASSUME Moot, HistoryMoves, Present' = {}
  PROVE  Moot'
BY DEF Moot, HistoryMoves

LEMMA MootIsKept == ASSUME Moot PROVE Kept = {}
BY DEF Moot, Kept

LEMMA NoneAreNamed == Present = {} => SettingsOf(Present) = "default" /\ NamesOf(Present) = {DefaultName}
BY DEF SettingsOf, NamesOf

LEMMA HasAllStays ==
  ASSUME NEW st, HasAll(st), HistoryMoves
  PROVE  Kept' \subseteq st.secrets /\ (unread' = {} => st.s \in {chosen', "edited"})
BY KeptShrinks DEF HasAll, HistoryMoves

LEMMA SourcesSame ==
  ASSUME UNCHANGED files
  PROVE  /\ Present' = Present
         /\ SettingsOf(Present)' = SettingsOf(Present)
         /\ NamesOf(Present)' = NamesOf(Present)
BY DEF Present, SettingsOf, NamesOf, Last

(* The facts about the import, apart from the types and who goes first.    *)
ImportFacts ==
  /\ SourcesWhole /\ (exists => HasAll(bin))
  /\ WindowImports /\ AutoImports /\ PurgeAfterSave

LEMMA WindowFirstStays == TypeOK /\ WindowFirst /\ Next => WindowFirst'
<1> SUFFICES ASSUME TypeOK, WindowFirst, Next PROVE WindowFirst'
  OBVIOUS
<1> USE WindowAssumption DEF WindowFirst, TypeOK, Loaders
<1>1. ASSUME NEW l \in Loaders, Import(l)
      PROVE  pc[l] \notin {"idle", "loaded"} /\ \E step : pc' = [pc EXCEPT ![l] = step]
  <2>1. pc[l] \notin {"idle", "loaded"}
    BY <1>1 DEF Import, FindStore, ReadFiles, ReadSecrets, SaveImport, SaveImportFails,
                PurgeFile, PurgeEntry, PurgeDone
  <2>2. pc' = [pc EXCEPT ![l] = pc'[l]]
    BY <1>1 DEF Import, FindStore, ReadFiles, ReadSecrets, SaveImport, SaveImportFails,
                PurgeFile, PurgeEntry, PurgeDone, LoadReturns
  <2> QED
    BY <2>1, <2>2
<1>2. ASSUME NEW l \in Loaders, Import(l) PROVE WindowFirst'
  BY <1>1, <1>2
<1>3. ASSUME NEW p \in Names, PersistCredentials(p) PROVE WindowFirst'
  BY <1>3 DEF PersistCredentials, WindowSaves
<1>4. CASE OnSave
  BY <1>4 DEF OnSave, WindowSaves
<1>5. ASSUME NEW i \in AutoSaves, AutoSave(i) \/ AutoWrite(i) PROVE WindowFirst'
  BY <1>5 DEF AutoSave, AutoWrite
<1>6. CASE Restart
  BY <1>6 DEF Restart
<1> QED
  BY <1>2, <1>3, <1>4, <1>5, <1>6 DEF Next

(* The steps of the window's own import, while every auto-save is idle.    *)
LEMMA WindowImportStep ==
  ASSUME TypeOK, WindowFirst, ImportFacts, Import("window"), ~unsaved'
  PROVE  ImportFacts'
<1> DEFINE w == "window"
<1>a. w \in Loaders /\ w \notin AutoSaves /\ AutoSaves \subseteq Loaders
  BY WindowAssumption DEF Loaders
<1>i. pc[w] # "loaded"
  BY DEF Import, FindStore, ReadFiles, ReadSecrets, SaveImport, SaveImportFails, PurgeFile,
         PurgeEntry, PurgeDone
<1>j. \A i \in AutoSaves : pc[i] = "idle"
  BY <1>i DEF WindowFirst
<1>k. \A i \in AutoSaves : pc'[i] = "idle"
  BY <1>a, <1>j DEF Import, FindStore, ReadFiles, ReadSecrets, SaveImport, SaveImportFails,
                   PurgeFile, PurgeEntry, PurgeDone, LoadReturns, TypeOK
<1>l. AutoImports'
  BY <1>k DEF AutoImports
<1>p. ASSUME pc'[w] = "purge" => exists' PROVE PurgeAfterSave'
  BY <1>k, <1>p DEF PurgeAfterSave, Loaders
<1> DEFINE Goal == /\ SourcesWhole' /\ (exists' => HasAll(bin)')
                   /\ WindowImports' /\ (pc'[w] = "purge" => exists')
<1> SUFFICES Goal
  BY <1>l, <1>p DEF ImportFacts
<1> USE <1>a DEF ImportFacts, TypeOK
<1>1. CASE FindStore(w)
  <2>1. UNCHANGED <<files, vault, exists, bin, chosen, owned, touched, unread>>
    BY <1>1 DEF FindStore, osVars, histVars
  <2>2. SourcesWhole' /\ (exists' => HasAll(bin)')
    BY <2>1, SourcesSame DEF SourcesWhole, HasAll, Kept
  <2>3. CASE exists
    <3>1. pc'[w] = "loaded" /\ cur'[w] = bin
      BY <1>1, <2>3 DEF FindStore, LoadReturns
    <3> QED
      BY <2>1, <2>2, <2>3, <3>1 DEF WindowImports, HasAll, Kept
  <2>4. CASE ~exists
    <3>1. pc'[w] = "files"
      BY <1>1, <2>4 DEF FindStore
    <3> QED
      BY <2>1, <2>2, <2>4, <3>1 DEF WindowImports
  <2> QED
    BY <2>3, <2>4
<1>2. CASE ReadFiles(w)
  <2>1. UNCHANGED <<files, vault, exists, bin, chosen, owned, touched, unread>>
    BY <1>2 DEF ReadFiles, osVars, histVars
  <2>2. SourcesWhole' /\ (exists' => HasAll(bin)')
    BY <2>1, SourcesSame DEF SourcesWhole, HasAll, Kept
  <2>3. /\ pc'[w] = "secrets" /\ names'[w] = NamesOf(Present) /\ found'[w] = (Present # {})
        /\ cur'[w].s = SettingsOf(Present) /\ ~exists
    BY <1>2 DEF ReadFiles, WindowImports, Stored
  <2> QED
    BY <2>1, <2>2, <2>3, SourcesSame DEF WindowImports, SourcesWhole
<1>3. CASE ReadSecrets(w)
  <2>1. ~exists /\ vault \intersect names[w] = owned /\ cur[w].s = chosen
        /\ found[w] = (Present # {}) /\ names[w] = NamesOf(Present)
    BY <1>3 DEF ReadSecrets, WindowImports, SourcesWhole
  <2>2. PICK seen \in SUBSET owned :
          /\ unread' = unread \union (owned \ seen)
          /\ IF found[w] \/ seen # {}
             THEN /\ pc' = [pc EXCEPT ![w] = "save"]
                  /\ cur' = [cur EXCEPT ![w].secrets = seen]
                  /\ UNCHANGED <<names, found>>
             ELSE LoadReturns(w, DefaultStored)
    BY <1>3, <2>1 DEF ReadSecrets
  <2>3. UNCHANGED <<files, vault, exists, bin, chosen, owned, touched>>
    BY <1>3 DEF ReadSecrets, osVars
  <2>4. SourcesWhole' /\ ~exists'
    BY <2>1, <2>3, SourcesSame DEF SourcesWhole
  <2>5. Kept' \subseteq seen
    BY <2>2, <2>3 DEF Kept
  <2>6. CASE found[w] \/ seen # {}
    <3>1. pc'[w] = "save" /\ cur'[w].secrets = seen /\ cur'[w].s = chosen
          /\ names'[w] = names[w] /\ found'[w] = found[w]
      BY <2>1, <2>2, <2>6 DEF Stored
    <3> QED
      BY <2>1, <2>3, <2>4, <2>5, <3>1, SourcesSame DEF WindowImports, HasAll
  <2>7. CASE ~(found[w] \/ seen # {})
    <3>1. pc'[w] = "loaded" /\ cur'[w] = DefaultStored
      BY <2>2, <2>7 DEF LoadReturns
    <3>2. Present = {} /\ seen = {}
      BY <2>1, <2>7
    <3>3. chosen = "default" /\ owned \subseteq unread' /\ NamesOf(Present) = {DefaultName}
      BY <2>1, <2>2, <3>2, NoneAreNamed DEF SourcesWhole
    <3>4. DefaultName \in vault => DefaultName \in unread'
      BY <2>1, <3>3
    <3>5. Moot'
      BY <2>3, <3>2, <3>3, <3>4, SourcesSame DEF Moot
    <3> QED
      BY <2>3, <2>4, <2>5, <3>1, <3>2, <3>3, <3>5 DEF WindowImports, HasAll, DefaultStored
  <2> QED
    BY <2>6, <2>7
<1>4. CASE SaveImport(w)
  <2>1. /\ exists' /\ bin' = cur[w] /\ HasAll(cur[w])
        /\ UNCHANGED <<cur, chosen, owned, touched, unread>> /\ pc'[w] = "purge"
    BY <1>4 DEF SaveImport, Replace, WindowImports
  <2> QED
    BY <2>1 DEF SourcesWhole, WindowImports, HasAll, Kept
<1>5. CASE SaveImportFails(w)
  BY <1>5 DEF SaveImportFails
<1>6. ASSUME NEW f \in Places, PurgeFile(w, f) PROVE Goal
  <2>1. exists /\ pc[w] = "purge" /\ pc' = pc
        /\ UNCHANGED <<exists, bin, cur, chosen, owned, touched, unread>>
    BY <1>6 DEF PurgeFile, histVars, PurgeAfterSave
  <2> QED
    BY <2>1 DEF SourcesWhole, WindowImports, HasAll, Kept
<1>7. ASSUME NEW n \in Names, PurgeEntry(w, n) PROVE Goal
  <2>1. exists /\ pc[w] = "purge" /\ pc' = pc
        /\ UNCHANGED <<exists, bin, cur, chosen, owned, touched, unread>>
    BY <1>7 DEF PurgeEntry, histVars, PurgeAfterSave
  <2> QED
    BY <2>1 DEF SourcesWhole, WindowImports, HasAll, Kept
<1>8. CASE PurgeDone(w)
  <2>1. /\ exists /\ pc'[w] = "loaded" /\ cur'[w] = cur[w] /\ HasAll(cur[w])
        /\ UNCHANGED <<exists, bin, chosen, owned, touched, unread>>
    BY <1>8 DEF PurgeDone, LoadReturns, osVars, histVars, PurgeAfterSave, WindowImports
  <2> QED
    BY <2>1 DEF SourcesWhole, WindowImports, HasAll, Kept
<1> QED
  BY <1>1, <1>2, <1>3, <1>4, <1>5, <1>6, <1>7, <1>8 DEF Import

(* The import of an auto-save: there is nothing to find, or only what the  *)
(* window's import could not read.                                         *)
LEMMA AutoImportStep ==
  ASSUME TypeOK, WindowFirst, ImportFacts, NEW i \in AutoSaves, Import(i), ~unsaved'
  PROVE  ImportFacts'
<1> DEFINE w == "window"
<1>a. w \in Loaders /\ w \notin AutoSaves /\ AutoSaves \subseteq Loaders /\ i # w
  BY WindowAssumption DEF Loaders
<1>b. pc[i] # "idle" /\ pc[w] = "loaded"
  BY DEF Import, FindStore, ReadFiles, ReadSecrets, SaveImport, SaveImportFails, PurgeFile,
         PurgeEntry, PurgeDone, WindowFirst
<1>c. HasAll(cur[w]) /\ (~exists => Moot)
  BY <1>b DEF ImportFacts, WindowImports
(* What other loaders hold does not change.                                *)
<1>d. /\ \A l \in Loaders \ {i} : pc'[l] = pc[l] /\ cur'[l] = cur[l] /\ names'[l] = names[l]
                                  /\ found'[l] = found[l]
      /\ chosen' = chosen /\ owned' = owned /\ touched' = touched
  BY <1>a DEF Import, FindStore, ReadFiles, ReadSecrets, SaveImport, SaveImportFails, PurgeFile,
              PurgeEntry, PurgeDone, LoadReturns, TypeOK, histVars
<1>e. HistoryMoves
  BY <1>d DEF Import, FindStore, ReadFiles, ReadSecrets, SaveImport, SaveImportFails, PurgeFile,
              PurgeEntry, PurgeDone, HistoryMoves, histVars, osVars
<1>f. exists => exists'
  BY DEF Import, FindStore, ReadFiles, ReadSecrets, SaveImport, SaveImportFails, PurgeFile,
         PurgeEntry, PurgeDone, osVars, Replace
<1>g. Present' \subseteq Present
  BY DEF Import, FindStore, ReadFiles, ReadSecrets, SaveImport, SaveImportFails, PurgeFile,
         PurgeEntry, PurgeDone, osVars, Present, TypeOK
<1>m. ASSUME Moot PROVE Moot' /\ Kept' = {}
  <2>1. Present' = {} /\ Kept = {}
    BY <1>g, <1>m, MootIsKept DEF Moot
  <2>2. Kept' \subseteq Kept
    BY <1>e, KeptShrinks DEF HistoryMoves
  <2> QED
    BY <1>e, <1>m, <2>1, <2>2, MootStays
(* So it is enough to look at this loader and at the store.                *)
<1> DEFINE Own == /\ pc'[i] \in {"files", "secrets", "save", "purge"} => Moot'
                  /\ pc'[i] = "secrets" => names'[i] = {DefaultName} /\ found'[i] = FALSE
                  /\ pc'[i] \in {"secrets", "save"} => cur'[i].s = "default"
                  /\ pc'[i] = "save" => unread' # {}
                  /\ pc'[i] \in {"loaded", "purge"} => Kept' \subseteq cur'[i].secrets
                  /\ pc'[i] = "purge" => exists'
           Store == SourcesWhole' /\ (exists' => HasAll(bin)')
<1>n. ASSUME Own, Store PROVE ImportFacts'
  <2>1. WindowImports'
    <3>1. HasAll(cur[w])'
      BY <1>a, <1>c, <1>d, <1>e, HasAllStays DEF HasAll
    <3>2. pc'[w] = "loaded"
      BY <1>a, <1>b, <1>d
    <3>3. ~exists' => Moot'
      BY <1>c, <1>f, <1>m
    <3> QED
      BY <3>1, <3>2, <3>3 DEF WindowImports
  <2>2. AutoImports'
    <3> SUFFICES ASSUME NEW j \in AutoSaves, j # i
                 PROVE  /\ pc'[j] \in {"files", "secrets", "save", "purge"} => Moot'
                        /\ pc'[j] = "secrets" => names'[j] = {DefaultName} /\ found'[j] = FALSE
                        /\ pc'[j] \in {"secrets", "save"} => cur'[j].s = "default"
                        /\ pc'[j] = "save" => unread' # {}
                        /\ pc'[j] \in {"loaded", "purge"} => Kept' \subseteq cur'[j].secrets
      BY <1>n DEF AutoImports
    <3>1. pc'[j] = pc[j] /\ cur'[j] = cur[j] /\ names'[j] = names[j] /\ found'[j] = found[j]
      BY <1>a, <1>d
    <3>2. Kept' \subseteq Kept /\ unread \subseteq unread'
      BY <1>e, KeptShrinks DEF HistoryMoves
    <3> QED
      BY <1>m, <3>1, <3>2 DEF ImportFacts, AutoImports
  <2>3. PurgeAfterSave'
    BY <1>d, <1>f, <1>n DEF ImportFacts, PurgeAfterSave
  <2> QED
    BY <1>n, <2>1, <2>2, <2>3 DEF ImportFacts
<1> USE <1>a DEF ImportFacts, TypeOK
<1>s. ASSUME UNCHANGED <<files, vault, exists, bin>> PROVE Store
  BY <1>d, <1>e, <1>s, SourcesSame, HasAllStays DEF SourcesWhole, HasAll
<1>1. CASE FindStore(i)
  <2>1. UNCHANGED <<files, vault, exists, bin, unread>>
    BY <1>1 DEF FindStore, osVars, histVars
  <2>2. CASE exists
    <3>1. pc'[i] = "loaded" /\ cur'[i] = bin /\ HasAll(bin)
      BY <1>1, <2>2 DEF FindStore, LoadReturns
    <3> QED
      BY <1>d, <1>n, <1>s, <2>1, <3>1 DEF HasAll, Kept
  <2>3. CASE ~exists
    <3>1. pc'[i] = "files"
      BY <1>1, <2>3 DEF FindStore
    <3> QED
      BY <1>c, <1>m, <1>n, <1>s, <2>1, <2>3, <3>1
  <2> QED
    BY <2>2, <2>3
<1>2. CASE ReadFiles(i)
  <2>1. UNCHANGED <<files, vault, exists, bin>> /\ Moot
    BY <1>2 DEF ReadFiles, osVars, AutoImports
  <2>2. /\ pc'[i] = "secrets" /\ names'[i] = {DefaultName} /\ found'[i] = FALSE
        /\ cur'[i].s = "default"
    BY <1>2, <2>1, NoneAreNamed DEF ReadFiles, Moot, Stored
  <2> QED
    BY <1>m, <1>n, <1>s, <2>1, <2>2
<1>3. CASE ReadSecrets(i)
  <2>1. /\ UNCHANGED <<files, vault, exists, bin>> /\ Moot
        /\ names[i] = {DefaultName} /\ found[i] = FALSE /\ cur[i].s = "default"
    BY <1>3 DEF ReadSecrets, osVars, AutoImports
  <2>2. PICK seen \in SUBSET (vault \intersect names[i]) :
          /\ IF found[i] \/ seen # {}
             THEN /\ pc' = [pc EXCEPT ![i] = "save"]
                  /\ cur' = [cur EXCEPT ![i].secrets = seen]
             ELSE LoadReturns(i, DefaultStored)
    BY <1>3 DEF ReadSecrets
  <2>3. CASE seen # {}
    <3>1. unread # {}
      BY <2>1, <2>2, <2>3 DEF Moot
    <3>2. pc'[i] = "save" /\ cur'[i].s = "default"
      BY <2>1, <2>2, <2>3 DEF Stored
    <3> QED
      BY <1>e, <1>m, <1>n, <1>s, <2>1, <3>1, <3>2 DEF HistoryMoves
  <2>4. CASE seen = {}
    <3>1. pc'[i] = "loaded"
      BY <2>1, <2>2, <2>4 DEF LoadReturns
    <3> QED
      BY <1>m, <1>n, <1>s, <2>1, <3>1
  <2> QED
    BY <2>3, <2>4
<1>4. CASE SaveImport(i)
  <2>1. /\ Moot /\ cur[i].s = "default"
        /\ exists' /\ bin' = cur[i] /\ pc'[i] = "purge" /\ cur' = cur
    BY <1>4 DEF SaveImport, Replace, AutoImports
  <2>2. Own
    BY <1>m, <2>1
  <2>3. Store
    BY <1>m, <2>1 DEF SourcesWhole, HasAll, Moot
  <2> QED
    BY <1>n, <2>2, <2>3
<1>5. CASE SaveImportFails(i)
  BY <1>5 DEF SaveImportFails
<1>6. ASSUME NEW f \in Places, PurgeFile(i, f) PROVE ImportFacts'
  <2>1. /\ Moot /\ exists /\ pc' = pc /\ pc[i] = "purge" /\ UNCHANGED <<cur, exists, bin>>
    BY <1>6 DEF PurgeFile, AutoImports, PurgeAfterSave
  <2> QED
    BY <1>e, <1>m, <1>n, <2>1, HasAllStays DEF SourcesWhole, HasAll
<1>7. ASSUME NEW n \in Names, PurgeEntry(i, n) PROVE ImportFacts'
  <2>1. /\ Moot /\ exists /\ pc' = pc /\ pc[i] = "purge" /\ UNCHANGED <<cur, exists, bin>>
    BY <1>7 DEF PurgeEntry, AutoImports, PurgeAfterSave
  <2> QED
    BY <1>e, <1>m, <1>n, <2>1, HasAllStays DEF SourcesWhole, HasAll
<1>8. CASE PurgeDone(i)
  <2>1. Moot /\ pc'[i] = "loaded" /\ UNCHANGED <<files, vault, exists, bin>>
    BY <1>8 DEF PurgeDone, LoadReturns, osVars, AutoImports
  <2> QED
    BY <1>m, <1>n, <1>s, <2>1
<1> QED
  BY <1>1, <1>2, <1>3, <1>4, <1>5, <1>6, <1>7, <1>8 DEF Import

(* The window writes its own copy, which has everything.                   *)
LEMMA WindowWriteStep ==
  ASSUME TypeOK, WindowFirst, ImportFacts, NEW st \in Stored, WindowSaves(st),
         touched \subseteq touched', Kept' \subseteq st.secrets,
         unread = {} => st.s \in {chosen, "edited"}
  PROVE  ImportFacts'
<1> DEFINE w == "window"
<1>a. w \in Loaders /\ w \notin AutoSaves /\ AutoSaves \subseteq Loaders
  BY WindowAssumption DEF Loaders
<1>b. /\ pc[w] = "loaded" /\ UNCHANGED <<files, vault, pc, names, found, chosen, owned, unread>>
      /\ cur'[w] = st /\ \A i \in AutoSaves : cur'[i] = cur[i]
  BY <1>a DEF WindowSaves, TypeOK
<1>c. HistoryMoves
  BY <1>b DEF HistoryMoves
<1>d. Kept' \subseteq Kept
  BY <1>b, KeptShrinks
<1>e. Moot => Moot'
  BY <1>b, <1>c, SourcesSame, MootStays DEF Moot
<1>f. \/ exists' /\ bin' = st
      \/ exists' = exists /\ bin' = bin
  BY DEF WindowSaves, Replace
<1>g. HasAll(st)'
  BY <1>b DEF HasAll
<1>1. SourcesWhole' /\ (exists' => HasAll(bin)')
  <2>1. CASE exists' /\ bin' = st
    BY <1>b, <2>1 DEF SourcesWhole, HasAll
  <2>2. CASE exists' = exists /\ bin' = bin
    BY <1>b, <1>d, <2>2, SourcesSame DEF ImportFacts, SourcesWhole, HasAll
  <2> QED
    BY <1>f, <2>1, <2>2
<1>2. WindowImports'
  BY <1>b, <1>e, <1>f DEF ImportFacts, WindowImports, HasAll
<1>3. AutoImports'
  BY <1>b, <1>d, <1>e DEF ImportFacts, AutoImports
<1>4. PurgeAfterSave'
  BY <1>b, <1>f DEF ImportFacts, PurgeAfterSave
<1> QED
  BY <1>1, <1>2, <1>3, <1>4 DEF ImportFacts

LEMMA AroundStep ==
  ASSUME TypeOK, WindowFirst, ImportFacts, Around
  PROVE  ImportFacts'
<1> DEFINE w == "window"
<1>a. w \in Loaders /\ w \notin AutoSaves /\ AutoSaves \subseteq Loaders /\ cur[w] \in Stored
  BY WindowAssumption DEF Loaders, TypeOK
<1>b. pc[w] = "loaded" => HasAll(cur[w]) /\ (~exists => Moot)
  BY DEF ImportFacts, WindowImports
<1>1. ASSUME NEW p \in Names, PersistCredentials(p) PROVE ImportFacts'
  <2>1. PICK secrets \in {{}, {p}} :
          WindowSaves([cur[w] EXCEPT !.secrets = (@ \ {p}) \union secrets])
    BY <1>1 DEF PersistCredentials
  <2> DEFINE st == [cur[w] EXCEPT !.secrets = (@ \ {p}) \union secrets]
  <2>2. st \in Stored /\ st.s = cur[w].s /\ cur[w].secrets \ {p} \subseteq st.secrets
    BY <1>a, <2>1 DEF Stored
  <2>3. /\ touched' = touched \union {p} /\ owned' = owned /\ unread' = unread
        /\ pc[w] = "loaded"
    BY <1>1, <2>1 DEF PersistCredentials, WindowSaves
  <2>4. Kept' \subseteq st.secrets
    BY <1>b, <2>2, <2>3 DEF HasAll, Kept
  <2>5. unread = {} => st.s \in {chosen, "edited"}
    BY <1>b, <2>2, <2>3 DEF HasAll
  <2> HIDE DEF st
  <2> QED
    BY <2>1, <2>2, <2>3, <2>4, <2>5, WindowWriteStep DEF st
<1>2. CASE OnSave
  <2> DEFINE st == [cur[w] EXCEPT !.s = "edited"]
  <2>1. st \in Stored /\ st.s = "edited" /\ st.secrets = cur[w].secrets
    BY <1>a DEF Stored
  <2>2. WindowSaves(st) /\ touched' = touched /\ pc[w] = "loaded" /\ UNCHANGED <<owned, unread>>
    BY <1>2 DEF OnSave, WindowSaves
  <2>3. Kept' \subseteq st.secrets
    BY <1>b, <2>1, <2>2 DEF HasAll, Kept
  <2> HIDE DEF st
  <2> QED
    BY <2>1, <2>2, <2>3, WindowWriteStep
<1>3. ASSUME NEW i \in AutoSaves, AutoSave(i) PROVE ImportFacts'
  <2>1. UNCHANGED <<files, vault, exists, bin, cur, names, found, chosen, owned, touched, unread>>
        /\ pc' = [pc EXCEPT ![i] = "bin"]
    BY <1>3 DEF AutoSave, osVars, histVars
  <2>2. SourcesWhole' /\ (exists' => HasAll(bin)')
    BY <2>1, SourcesSame DEF ImportFacts, SourcesWhole, HasAll, Kept
  <2>3. Moot' = Moot /\ Kept' = Kept
    BY <2>1, SourcesSame DEF Moot, Kept
  <2>4. WindowImports'
    BY <1>a, <2>1, <2>3, SourcesSame DEF ImportFacts, WindowImports, HasAll, TypeOK
  <2>5. AutoImports' /\ PurgeAfterSave'
    BY <1>a, <2>1, <2>3 DEF ImportFacts, AutoImports, PurgeAfterSave, TypeOK
  <2> QED
    BY <2>2, <2>4, <2>5 DEF ImportFacts
<1>4. ASSUME NEW i \in AutoSaves, AutoWrite(i) PROVE ImportFacts'
  <2>1. /\ pc[i] = "loaded" /\ pc[w] = "loaded"
        /\ pc' = [pc EXCEPT ![i] = "idle"] /\ \A j \in Loaders \ {i} : cur'[j] = cur[j]
        /\ UNCHANGED <<files, vault, names, found, chosen, owned, touched, unread>>
    BY <1>4 DEF AutoWrite, WindowFirst, TypeOK
  <2>2. Kept' = Kept /\ (Moot => Moot')
    BY <2>1, SourcesSame DEF Kept, Moot
  <2>3. \/ exists' /\ HasAll(bin)'
        \/ exists' = exists /\ bin' = bin
    <3>1. CASE UNCHANGED <<exists, bin>>
      BY <3>1
    <3>2. ASSUME NEW s \in {cur[w].s, "edited"}, Replace(i, [cur[i] EXCEPT !.s = s])
          PROVE  exists' /\ HasAll(bin)'
      <4>1. [cur[i] EXCEPT !.s = s].s = s /\ [cur[i] EXCEPT !.s = s].secrets = cur[i].secrets
        BY <1>a DEF TypeOK, Stored
      <4>2. Kept \subseteq cur[i].secrets /\ (unread = {} => s \in {chosen, "edited"})
        BY <1>b, <2>1 DEF ImportFacts, AutoImports, HasAll
      <4> QED
        BY <2>1, <2>2, <3>2, <4>1, <4>2 DEF Replace, HasAll
    <3> QED
      BY <1>4, <3>1, <3>2 DEF AutoWrite
  <2>4. SourcesWhole' /\ (exists' => HasAll(bin)')
    BY <2>1, <2>2, <2>3, SourcesSame DEF ImportFacts, SourcesWhole, HasAll
  <2>5. WindowImports'
    BY <1>a, <1>b, <2>1, <2>2, <2>3 DEF WindowImports, HasAll, TypeOK
  <2>6. AutoImports' /\ PurgeAfterSave'
    BY <1>a, <2>1, <2>2, <2>3 DEF ImportFacts, AutoImports, PurgeAfterSave, TypeOK
  <2> QED
    BY <2>4, <2>5, <2>6 DEF ImportFacts
<1>5. CASE Restart
  <2>1. UNCHANGED <<files, vault, exists, bin, chosen, owned, touched, unread>>
        /\ pc' = [l \in Loaders |-> IF l = w THEN "bin" ELSE "idle"]
    BY <1>5 DEF Restart, osVars, histVars
  <2>2. SourcesWhole' /\ (exists' => HasAll(bin)')
    BY <2>1, SourcesSame DEF ImportFacts, SourcesWhole, HasAll, Kept
  <2>3. WindowImports' /\ AutoImports' /\ PurgeAfterSave'
    BY <1>a, <2>1 DEF WindowImports, AutoImports, PurgeAfterSave
  <2> QED
    BY <2>2, <2>3 DEF ImportFacts
<1> QED
  BY <1>1, <1>2, <1>3, <1>4, <1>5 DEF Around

LEMMA ImportStays == ImportInv /\ [Next]_vars => ImportInv'
<1> SUFFICES ASSUME ImportInv, [Next]_vars PROVE ImportInv'
  OBVIOUS
<1>1. TypeOK'
  BY StepTypeOK DEF ImportInv
<1>2. CASE UNCHANGED vars
  BY <1>1, <1>2, SourcesSame
  DEF vars, osVars, loadVars, histVars, ImportInv, WindowFirst, SourcesWhole, HasAll, Kept, Moot,
      WindowImports, AutoImports, PurgeAfterSave
<1>3. CASE Next
  <2>1. WindowFirst'
    BY <1>3, WindowFirstStays DEF ImportInv
  <2>2. unsaved => unsaved'
    BY <1>3 DEF Next, Import, FindStore, ReadFiles, ReadSecrets, SaveImport, SaveImportFails,
                PurgeFile, PurgeEntry, PurgeDone, PersistCredentials, OnSave, WindowSaves, AutoSave,
                AutoWrite, Restart, histVars
  <2>3. ASSUME ~unsaved' PROVE ImportFacts'
    <3>1. ImportFacts
      BY <2>2, <2>3 DEF ImportInv, ImportFacts
    <3> QED
      BY <1>3, <2>3, <3>1, NextIs, WindowImportStep, AutoImportStep, AroundStep
      DEF ImportInv, Loaders
  <2> QED
    BY <1>1, <2>1, <2>3 DEF ImportInv, ImportFacts
<1> QED
  BY <1>2, <1>3

LEMMA ImportKept == Spec => []ImportInv
<1>1. Init => ImportInv
  <2> SUFFICES ASSUME Init PROVE ImportInv
    OBVIOUS
  <2>1. pc = [l \in Loaders |-> IF l = "window" THEN "bin" ELSE "idle"]
    BY DEF Init, FreshLoads
  <2>2. WindowFirst /\ WindowImports /\ AutoImports /\ PurgeAfterSave
    BY <2>1, WindowAssumption
    DEF WindowFirst, WindowImports, AutoImports, PurgeAfterSave, Loaders
  <2> QED
    BY <2>2, InitTypeOK DEF Init, ImportInv, SourcesWhole
<1> QED
  BY <1>1, ImportStays, PTL DEF Spec

(* When the saves of imports work, the import is all or nothing at every   *)
(* moment, for any number of auto-saves that import on their own and       *)
(* wherever reads and deletions fail and the process dies.                 *)
THEOREM ImportIsWhole == Spec => []AllOrNothing
<1>1. ImportInv => AllOrNothing
  <2> SUFFICES ASSUME ImportInv, ~unsaved PROVE AllOrNothing
    BY DEF AllOrNothing
  <2>1. chosen \in Places => (Present # {} /\ chosen = Last(Present)) \/ exists
    BY DEF ImportInv, SourcesWhole, SettingsOf, Places
  <2>2. chosen \in Places => files[chosen] # "none" \/ exists
    BY <2>1 DEF Last, Present, Places
  <2> QED
    BY <2>2 DEF ImportInv, SourcesWhole, HasAll, AllOrNothing
<1> QED
  BY <1>1, ImportKept, PTL

(* What a crash or a failed deletion left of the sources is not imported   *)
(* over a store that exists.                                               *)
THEOREM ImportsOnce == Spec => NeverOverNewer
<1> DEFINE Once == ~unsaved /\ unread = {} =>
                     \A l \in Loaders : pc[l] = "save" /\ pc'[l] = "purge" => ~exists
<1>1. ImportInv => Once
  BY DEF ImportInv, WindowImports, AutoImports, Loaders
<1> QED
  BY <1>1, ImportKept, PTL DEF Spec, NeverOverNewer

-----------------------------------------------------------------------------
(* Source or store                                                         *)

(* Writing these secrets to the store loses none that it has to keep: they *)
(* have what is no longer at its source, and what somebody is purging.     *)
Has(secrets) ==
  /\ Kept \subseteq vault \union secrets
  /\ \A m \in Loaders : pc[m] = "purge" => Kept \intersect names[m] \subseteq secrets

(* A loader is blank from the moment it saw no store until it writes one.  *)
BlankUntilSaved ==
  \A l \in Loaders :
    /\ pc[l] \in {"files", "secrets", "save"} => blank[l] = TRUE
    /\ pc[l] = "loaded" /\ ~exists => blank[l] = TRUE
    /\ pc[l] = "purge" => exists /\ blank[l] = FALSE

CopiesHave ==
  /\ IF exists THEN Has(bin.secrets) ELSE Kept \subseteq vault
  /\ \A l \in Loaders :
       /\ pc[l] \in {"loaded", "purge"} /\ blank[l] = FALSE => Has(cur[l].secrets)
       /\ pc[l] = "save" /\ ~exists => Kept \intersect names[l] \subseteq cur[l].secrets

SecretsInv == TypeOK /\ BlankUntilSaved /\ (~overwritten => CopiesHave)

(* Nobody starts to purge, and what leaves its source is being purged.     *)
NoNewPurge ==
  /\ Kept' \subseteq Kept /\ vault' \subseteq vault
  /\ \A n \in vault \ vault' : \E m \in Loaders : pc[m] = "purge" /\ n \in names[m]
  /\ \A m \in Loaders : pc'[m] = "purge" => pc[m] = "purge" /\ names'[m] = names[m]

LEMMA HasStays ==
  ASSUME NoNewPurge, NEW secrets, Has(secrets)
  PROVE  Kept' \subseteq vault' \union secrets
         /\ \A m \in Loaders : pc'[m] = "purge" => Kept' \intersect names'[m] \subseteq secrets
BY DEF NoNewPurge, Has

LEMMA BlankStays == TypeOK /\ BlankUntilSaved /\ Next => BlankUntilSaved'
<1> SUFFICES ASSUME TypeOK, BlankUntilSaved, Next PROVE BlankUntilSaved'
  OBVIOUS
<1> USE DEF BlankUntilSaved, TypeOK
<1>a. "window" \in Loaders /\ AutoSaves \subseteq Loaders
  BY DEF Loaders
<1>1. ASSUME NEW l \in Loaders, FindStore(l) PROVE BlankUntilSaved'
  BY <1>1 DEF FindStore, LoadReturns, osVars
<1>2. ASSUME NEW l \in Loaders, ReadFiles(l) PROVE BlankUntilSaved'
  BY <1>2 DEF ReadFiles, osVars
<1>3. ASSUME NEW l \in Loaders, ReadSecrets(l) PROVE BlankUntilSaved'
  BY <1>3 DEF ReadSecrets, LoadReturns, osVars
<1>4. ASSUME NEW l \in Loaders, SaveImport(l) PROVE BlankUntilSaved'
  BY <1>4 DEF SaveImport, Replace
<1>5. ASSUME NEW l \in Loaders, SaveImportFails(l) PROVE BlankUntilSaved'
  BY <1>5 DEF SaveImportFails, LoadReturns, osVars
<1>6. ASSUME NEW l \in Loaders, NEW f \in Places, PurgeFile(l, f) PROVE BlankUntilSaved'
  BY <1>6 DEF PurgeFile
<1>7. ASSUME NEW l \in Loaders, NEW n \in Names, PurgeEntry(l, n) PROVE BlankUntilSaved'
  BY <1>7 DEF PurgeEntry
<1>8. ASSUME NEW l \in Loaders, PurgeDone(l) PROVE BlankUntilSaved'
  BY <1>8 DEF PurgeDone, LoadReturns, osVars
<1>9. ASSUME NEW st, WindowSaves(st) PROVE BlankUntilSaved'
  BY <1>a, <1>9 DEF WindowSaves, Replace
<1>10. ASSUME NEW i \in AutoSaves, AutoSave(i) PROVE BlankUntilSaved'
  BY <1>a, <1>10 DEF AutoSave, osVars
<1>11. ASSUME NEW i \in AutoSaves, AutoWrite(i) PROVE BlankUntilSaved'
  BY <1>a, <1>11 DEF AutoWrite, Replace
<1>12. CASE Restart
  BY <1>12 DEF Restart, osVars
<1> QED
  BY <1>1, <1>2, <1>3, <1>4, <1>5, <1>6, <1>7, <1>8, <1>9, <1>10, <1>11, <1>12
  DEF Next, Import, PersistCredentials, OnSave

(* A step after which nobody newly purges and which leaves the store alone *)
(* needs a look at the loader that moves only.                             *)
LEMMA CopiesStay ==
  ASSUME CopiesHave, NoNewPurge, NEW l \in Loaders,
         UNCHANGED <<exists, bin>>, exists \/ vault' = vault,
         \A m \in Loaders \ {l} :
           pc'[m] = pc[m] /\ cur'[m] = cur[m] /\ names'[m] = names[m] /\ blank'[m] = blank[m],
         pc'[l] \in {"loaded", "purge"} /\ blank'[l] = FALSE => Has(cur[l].secrets)',
         pc'[l] = "save" /\ ~exists => Kept' \intersect names'[l] \subseteq cur'[l].secrets
  PROVE  CopiesHave'
<1>1. IF exists' THEN Has(bin.secrets)' ELSE Kept' \subseteq vault'
  BY HasStays DEF CopiesHave, Has, NoNewPurge
<1>2. ASSUME NEW m \in Loaders \ {l}, pc'[m] \in {"loaded", "purge"}, blank'[m] = FALSE
      PROVE  Has(cur[m].secrets)'
  <2>1. Has(cur[m].secrets) /\ cur'[m] = cur[m]
    BY <1>2 DEF CopiesHave
  <2> QED
    BY <2>1, HasStays DEF Has
<1>3. ASSUME NEW m \in Loaders \ {l}, pc'[m] = "save", ~exists'
      PROVE  Kept' \intersect names'[m] \subseteq cur'[m].secrets
  BY <1>3 DEF CopiesHave, NoNewPurge
<1> QED
  BY <1>1, <1>2, <1>3 DEF CopiesHave

(* The store is replaced by the copy of a loader that may write it.        *)
LEMMA StoreReplaced ==
  ASSUME CopiesHave, NoNewPurge, NEW l \in Loaders,
         exists', vault' = vault, Has(bin.secrets)',
         \A m \in Loaders \ {l} :
           pc'[m] = pc[m] /\ cur'[m] = cur[m] /\ names'[m] = names[m] /\ blank'[m] = blank[m],
         pc'[l] \in {"idle", "loaded"}, pc'[l] = "loaded" => cur'[l].secrets = bin'.secrets
  PROVE  CopiesHave'
<1>1. ASSUME NEW m \in Loaders \ {l}, pc'[m] \in {"loaded", "purge"}, blank'[m] = FALSE
      PROVE  Has(cur[m].secrets)'
  <2>1. Has(cur[m].secrets) /\ cur'[m] = cur[m]
    BY <1>1 DEF CopiesHave
  <2> QED
    BY <2>1, HasStays DEF Has
<1>2. pc'[l] = "loaded" => Has(cur[l].secrets)'
  BY DEF Has
<1> QED
  BY <1>1, <1>2 DEF CopiesHave

(* A loader that may write the store without replacing one it never saw.   *)
LEMMA WriterHas ==
  ASSUME TypeOK, BlankUntilSaved, CopiesHave, NEW l \in Loaders, pc[l] = "loaded",
         ~(exists /\ blank[l])
  PROVE  Has(cur[l].secrets)
<1>1. CASE exists
  BY <1>1 DEF CopiesHave, TypeOK
<1>2. CASE ~exists
  BY <1>2 DEF CopiesHave, BlankUntilSaved, Has
<1> QED
  BY <1>1, <1>2

LEMMA ImportKeepsSecrets ==
  ASSUME TypeOK, BlankUntilSaved, CopiesHave, NEW l \in Loaders, Import(l), ~overwritten'
  PROVE  CopiesHave'
<1> USE DEF TypeOK
<1>a. /\ \A m \in Loaders \ {l} :
           pc'[m] = pc[m] /\ cur'[m] = cur[m] /\ names'[m] = names[m] /\ blank'[m] = blank[m]
      /\ owned' = owned /\ touched' = touched
  BY DEF Import, FindStore, ReadFiles, ReadSecrets, SaveImport, SaveImportFails, PurgeFile,
         PurgeEntry, PurgeDone, LoadReturns, Replace, histVars
<1>b. Kept' \subseteq Kept
  <2>1. unread \subseteq unread'
    BY DEF Import, FindStore, ReadFiles, ReadSecrets, SaveImport, SaveImportFails, PurgeFile,
           PurgeEntry, PurgeDone, histVars
  <2> QED
    BY <1>a, <2>1, KeptShrinks
<1>1. CASE FindStore(l)
  <2>1. UNCHANGED <<files, vault, exists, bin>> /\ pc'[l] \in {"loaded", "files"}
        /\ (pc'[l] = "loaded" => exists /\ cur'[l] = bin)
    BY <1>1 DEF FindStore, LoadReturns, osVars
  <2>2. NoNewPurge
    BY <1>a, <1>b, <2>1 DEF NoNewPurge
  <2>3. pc'[l] = "loaded" => Has(cur[l].secrets)'
    BY <2>1, <2>2, HasStays DEF CopiesHave, Has
  <2> QED
    BY <1>a, <2>1, <2>2, <2>3, CopiesStay
<1>2. CASE ReadFiles(l)
  <2>1. UNCHANGED <<files, vault, exists, bin>> /\ pc'[l] = "secrets"
    BY <1>2 DEF ReadFiles, osVars
  <2>2. NoNewPurge
    BY <1>a, <1>b, <2>1 DEF NoNewPurge
  <2> QED
    BY <1>a, <2>1, <2>2, CopiesStay
<1>3. CASE ReadSecrets(l)
  <2>1. UNCHANGED <<files, vault, exists, bin, blank>> /\ pc'[l] \in {"save", "loaded"}
        /\ blank'[l] = TRUE
    BY <1>3 DEF ReadSecrets, LoadReturns, osVars, BlankUntilSaved
  <2>2. NoNewPurge
    BY <1>a, <1>b, <2>1 DEF NoNewPurge
  <2>3. PICK seen \in SUBSET (vault \intersect names[l]) :
          /\ unread' = unread \union ((vault \intersect names[l]) \ seen)
          /\ IF found[l] \/ seen # {}
             THEN /\ pc' = [pc EXCEPT ![l] = "save"]
                  /\ cur' = [cur EXCEPT ![l].secrets = seen]
                  /\ UNCHANGED <<names, found>>
             ELSE LoadReturns(l, DefaultStored)
    BY <1>3 DEF ReadSecrets
  <2>4. pc'[l] = "save" => cur'[l].secrets = seen /\ names'[l] = names[l]
    BY <2>3 DEF LoadReturns, Stored
  <2>5. ~exists => Kept' \intersect names[l] \subseteq seen
    BY <1>a, <1>b, <2>3 DEF CopiesHave, Kept
  <2>6. pc'[l] = "save" /\ ~exists => Kept' \intersect names'[l] \subseteq cur'[l].secrets
    BY <2>4, <2>5
  <2> QED
    BY <1>a, <2>1, <2>2, <2>6, CopiesStay
<1>4. CASE SaveImport(l)
  <2>1. /\ pc[l] = "save" /\ exists' /\ bin' = cur[l] /\ cur' = cur /\ names' = names
        /\ vault' = vault /\ pc' = [pc EXCEPT ![l] = "purge"]
    BY <1>4 DEF SaveImport, Replace
  <2>2. ~exists
    BY <1>4, <2>1 DEF SaveImport, Replace, BlankUntilSaved
  <2>3. \A m \in Loaders : pc'[m] = "purge" => m = l
    BY <2>1, <2>2 DEF BlankUntilSaved
  <2>4. Has(cur[l].secrets)'
    BY <1>b, <2>1, <2>2, <2>3 DEF CopiesHave, Has
  <2>5. \A m \in Loaders \ {l} : pc'[m] \in {"loaded", "purge"} => blank'[m] = TRUE
    BY <1>a, <2>2, <2>3 DEF BlankUntilSaved
  <2>6. Has(bin.secrets)'
    BY <2>1, <2>4 DEF Has
  <2> QED
    BY <2>1, <2>4, <2>5, <2>6 DEF CopiesHave
<1>5. CASE SaveImportFails(l)
  <2>1. UNCHANGED <<files, vault, exists, bin, blank>> /\ pc'[l] = "loaded" /\ blank'[l] = TRUE
    BY <1>5 DEF SaveImportFails, LoadReturns, osVars, BlankUntilSaved
  <2>2. NoNewPurge
    BY <1>a, <1>b, <2>1 DEF NoNewPurge
  <2> QED
    BY <1>a, <2>1, <2>2, CopiesStay
<1>6. ASSUME NEW f \in Places, PurgeFile(l, f) PROVE CopiesHave'
  <2>1. UNCHANGED <<vault, exists, bin, pc, cur, names, blank>> /\ pc[l] = "purge"
    BY <1>6 DEF PurgeFile
  <2>2. NoNewPurge
    BY <1>b, <2>1 DEF NoNewPurge
  <2>3. exists /\ Has(cur[l].secrets)
    BY <2>1 DEF BlankUntilSaved, CopiesHave
  <2>4. Has(cur[l].secrets)'
    BY <2>1, <2>2, <2>3, HasStays DEF Has
  <2> QED
    BY <1>a, <2>1, <2>2, <2>4, CopiesStay
<1>7. ASSUME NEW n \in Names, PurgeEntry(l, n) PROVE CopiesHave'
  <2>1. UNCHANGED <<exists, bin, pc, cur, names, blank>> /\ pc[l] = "purge"
        /\ vault' \in {vault, vault \ {n}} /\ n \in names[l]
    BY <1>7 DEF PurgeEntry
  <2>2. NoNewPurge
    BY <1>b, <2>1 DEF NoNewPurge
  <2>3. exists /\ Has(cur[l].secrets)
    BY <2>1 DEF BlankUntilSaved, CopiesHave
  <2>4. Has(cur[l].secrets)'
    BY <2>1, <2>2, <2>3, HasStays DEF Has
  <2> QED
    BY <1>a, <2>1, <2>2, <2>3, <2>4, CopiesStay
<1>8. CASE PurgeDone(l)
  <2>1. UNCHANGED <<vault, exists, bin, blank>> /\ pc[l] = "purge" /\ pc'[l] = "loaded"
        /\ cur'[l] = cur[l]
    BY <1>8 DEF PurgeDone, LoadReturns, osVars
  <2>2. NoNewPurge
    BY <1>a, <1>b, <2>1 DEF NoNewPurge
  <2>3. Has(cur[l].secrets)
    BY <2>1 DEF BlankUntilSaved, CopiesHave
  <2>4. Has(cur[l].secrets)'
    BY <2>1, <2>2, <2>3, HasStays DEF Has
  <2> QED
    BY <1>a, <2>1, <2>2, <2>4, CopiesStay
<1> QED
  BY <1>1, <1>2, <1>3, <1>4, <1>5, <1>6, <1>7, <1>8 DEF Import

(* The window writes or fails to write a copy that lacks only what the     *)
(* user has touched.                                                       *)
LEMMA WindowKeepsSecrets ==
  ASSUME TypeOK, BlankUntilSaved, CopiesHave, NEW st \in Stored, WindowSaves(st),
         touched \subseteq touched', ~overwritten',
         cur["window"].secrets \intersect Kept' \subseteq st.secrets
  PROVE  CopiesHave'
<1> DEFINE w == "window"
<1> USE DEF TypeOK
<1>a. /\ w \in Loaders /\ pc[w] = "loaded" /\ UNCHANGED <<vault, pc, names, owned, unread>>
      /\ cur'[w] = st /\ \A m \in Loaders \ {w} : cur'[m] = cur[m]
  BY DEF WindowSaves, Loaders
<1>b. Kept' \subseteq Kept
  BY <1>a, KeptShrinks
<1>c. NoNewPurge
  BY <1>a, <1>b DEF NoNewPurge
<1>d. ASSUME ~(exists /\ blank[w]) PROVE Has(st.secrets)'
  <2>1. Has(cur[w].secrets)
    BY <1>a, <1>d, WriterHas
  <2> QED
    BY <1>a, <1>b, <2>1 DEF Has
<1>1. CASE Replace(w, st)
  <2>1. ~(exists /\ blank[w]) /\ exists' /\ bin' = st
        /\ \A m \in Loaders \ {w} : blank'[m] = blank[m]
    BY <1>a, <1>1 DEF Replace
  <2>2. Has(bin.secrets)'
    BY <1>d, <2>1 DEF Has
  <2> QED
    BY <1>a, <1>c, <2>1, <2>2, StoreReplaced
<1>2. CASE UNCHANGED <<exists, bin, overwritten, blank>>
  <2>1. blank'[w] = FALSE => Has(cur[w].secrets)'
    BY <1>a, <1>d, <1>2 DEF Has
  <2> QED
    BY <1>a, <1>c, <1>2, <2>1, CopiesStay
<1> QED
  BY <1>1, <1>2 DEF WindowSaves

LEMMA AroundKeepsSecrets ==
  ASSUME TypeOK, BlankUntilSaved, CopiesHave, Around, ~overwritten'
  PROVE  CopiesHave'
<1> DEFINE w == "window"
<1> USE DEF TypeOK
<1>a. w \in Loaders /\ AutoSaves \subseteq Loaders /\ cur[w] \in Stored
  BY DEF Loaders
<1>1. ASSUME NEW p \in Names, PersistCredentials(p) PROVE CopiesHave'
  <2>1. PICK secrets \in {{}, {p}} :
          WindowSaves([cur[w] EXCEPT !.secrets = (@ \ {p}) \union secrets])
    BY <1>1 DEF PersistCredentials
  <2> DEFINE st == [cur[w] EXCEPT !.secrets = (@ \ {p}) \union secrets]
  <2>2. st \in Stored /\ cur[w].secrets \ {p} \subseteq st.secrets
    BY <1>a, <2>1 DEF Stored
  <2>3. touched' = touched \union {p}
    BY <1>1 DEF PersistCredentials
  <2>4. cur[w].secrets \intersect Kept' \subseteq st.secrets
    BY <2>2, <2>3 DEF Kept
  <2> HIDE DEF st
  <2> QED
    BY <2>1, <2>2, <2>3, <2>4, WindowKeepsSecrets DEF st
<1>2. CASE OnSave
  <2> DEFINE st == [cur[w] EXCEPT !.s = "edited"]
  <2>1. st \in Stored /\ st.secrets = cur[w].secrets
    BY <1>a DEF Stored
  <2>2. WindowSaves(st) /\ touched' = touched
    BY <1>2 DEF OnSave
  <2> HIDE DEF st
  <2> QED
    BY <2>1, <2>2, WindowKeepsSecrets
<1>3. ASSUME NEW i \in AutoSaves, AutoSave(i) PROVE CopiesHave'
  <2>1. UNCHANGED <<vault, exists, bin, cur, names, blank, owned, touched, unread>>
        /\ pc' = [pc EXCEPT ![i] = "bin"]
    BY <1>3 DEF AutoSave, osVars, histVars
  <2>2. NoNewPurge
    BY <1>a, <2>1, KeptShrinks DEF NoNewPurge
  <2> QED
    BY <1>a, <2>1, <2>2, CopiesStay
<1>4. ASSUME NEW i \in AutoSaves, AutoWrite(i) PROVE CopiesHave'
  <2>1. /\ pc[i] = "loaded" /\ pc' = [pc EXCEPT ![i] = "idle"]
        /\ UNCHANGED <<vault, names, owned, touched, unread>>
        /\ \A m \in Loaders \ {i} : pc'[m] = pc[m] /\ cur'[m] = cur[m]
    BY <1>a, <1>4 DEF AutoWrite
  <2>2. NoNewPurge
    BY <1>a, <2>1, KeptShrinks DEF NoNewPurge
  <2>3. ASSUME NEW s \in {cur[w].s, "edited"}, Replace(i, [cur[i] EXCEPT !.s = s])
        PROVE  CopiesHave'
    <3>1. ~(exists /\ blank[i]) /\ exists' /\ bin'.secrets = cur[i].secrets
          /\ \A m \in Loaders \ {i} : blank'[m] = blank[m]
      BY <1>a, <2>3 DEF Replace, Stored
    <3>2. Has(cur[i].secrets)
      BY <1>a, <2>1, <3>1, WriterHas
    <3>3. Has(bin.secrets)'
      BY <2>2, <3>1, <3>2, HasStays DEF Has
    <3> QED
      BY <1>a, <2>1, <2>2, <3>1, <3>3, StoreReplaced
  <2>4. CASE UNCHANGED <<exists, bin, overwritten, blank>>
    BY <1>a, <2>1, <2>2, <2>4, CopiesStay
  <2> QED
    BY <1>4, <2>3, <2>4 DEF AutoWrite
<1>5. CASE Restart
  <2>1. UNCHANGED <<vault, exists, bin, owned, touched, unread>>
        /\ pc' = [l \in Loaders |-> IF l = w THEN "bin" ELSE "idle"]
    BY <1>5 DEF Restart, osVars, histVars
  <2>2. Kept' = Kept
    BY <2>1 DEF Kept
  <2>3. Has(bin.secrets) => Has(bin.secrets)'
    BY <2>1, <2>2 DEF Has
  <2> QED
    BY <2>1, <2>2, <2>3 DEF CopiesHave
<1> QED
  BY <1>1, <1>2, <1>3, <1>4, <1>5 DEF Around

LEMMA SecretsStay == SecretsInv /\ [Next]_vars => SecretsInv'
<1> SUFFICES ASSUME SecretsInv, [Next]_vars PROVE SecretsInv'
  OBVIOUS
<1>1. CASE UNCHANGED vars
  BY <1>1, StepTypeOK
  DEF vars, osVars, loadVars, histVars, SecretsInv, BlankUntilSaved, CopiesHave, Has, Kept
<1>2. CASE Next
  <2>1. TypeOK' /\ BlankUntilSaved'
    BY <1>2, StepTypeOK, BlankStays DEF SecretsInv
  <2>2. overwritten => overwritten'
    BY <1>2 DEF Next, Import, FindStore, ReadFiles, ReadSecrets, SaveImport, SaveImportFails,
                PurgeFile, PurgeEntry, PurgeDone, PersistCredentials, OnSave, WindowSaves, AutoSave,
                AutoWrite, Restart, Replace, histVars
  <2>3. ~overwritten' => CopiesHave'
    BY <1>2, <2>2, NextIs, ImportKeepsSecrets, AroundKeepsSecrets DEF SecretsInv
  <2> QED
    BY <2>1, <2>3 DEF SecretsInv
<1> QED
  BY <1>1, <1>2

(* As long as no store is replaced by one who looked before it existed, a  *)
(* failed save, a failed read or deletion and a restart cost no secret:    *)
(* each is still at its source or in the store.                            *)
THEOREM NoSecretLost == Spec => []SourceOrStore
<1>1. Init => SecretsInv
  <2> SUFFICES ASSUME Init PROVE SecretsInv
    OBVIOUS
  <2>1. pc = [l \in Loaders |-> IF l = "window" THEN "bin" ELSE "idle"] /\ ~exists
        /\ owned \subseteq vault
    BY DEF Init, FreshLoads
  <2>2. BlankUntilSaved /\ CopiesHave
    BY <2>1 DEF BlankUntilSaved, CopiesHave, Kept
  <2> QED
    BY <2>2, InitTypeOK DEF SecretsInv
<1>2. SecretsInv => SourceOrStore
  BY DEF SecretsInv, CopiesHave, Has, SourceOrStore
<1> QED
  BY <1>1, <1>2, SecretsStay, PTL DEF Spec

=============================================================================
