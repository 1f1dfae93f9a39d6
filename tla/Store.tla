-------------------------------- MODULE Store --------------------------------
(***************************************************************************)
(* vepeen.bin on the disk (internal/config/config.go): SaveStored writes a *)
(* temporary file of a fixed name and renames it over the store, from the  *)
(* window's thread, the auto-save goroutine or the save goroutine, with no *)
(* lock between them; LoadStored reads the store.  The process may die     *)
(* between any two of their steps.  On macOS (internal/config/             *)
(* dpapi_darwin.go) the store is sealed with a key that the login keychain *)
(* keeps, and the first save makes it; elsewhere the system has the key.   *)
(*                                                                         *)
(* The files are inodes, so that a writer keeps writing to the file it     *)
(* opened whatever has become of its name.                                 *)
(***************************************************************************)
CONSTANTS
  Writers,    \* goroutines that may be in SaveStored at once
  Values,     \* complete, encrypted stores
  Inodes,     \* two more than there are writers, and one for the reader
  Keys,       \* random keys
  NoFile,
  NoKey

ASSUME NoFileAssumption == NoFile \notin Inodes \union Values

ASSUME NoKeyAssumption == NoKey \notin Keys

VARIABLES
  posix,      \* macOS: a file that is open can be renamed and removed
  key,        \* the key in the keychain, or NoKey
  bin,        \* the file named vepeen.bin
  tmp,        \* the file named vepeen.bin.tmp
  data,       \* what a file holds
  sealed,     \* the key it is sealed with
  pc, value, using, handle, answer,   \* by writer: SaveStored's place and locals
  reader, loaded                \* the file LoadStored has open, what it last read

saveVars == <<pc, value, using, handle, answer>>
files == <<bin, tmp, data, sealed>>
vars == <<posix, key, files, saveVars, reader, loaded>>

Contents == Values \union {"empty", "torn"}
Names == Inodes \union {NoFile}

(* Every name and handle means a file, the store and the temporary file    *)
(* are never the same one, and a writer has a file open exactly between    *)
(* its open and its write.                                                 *)
TypeOK ==
  /\ posix \in BOOLEAN
  /\ key \in Keys \union {NoKey}
  /\ bin \in Names
  /\ tmp \in Names
  /\ data \in [Inodes -> Contents]
  /\ sealed \in [Inodes -> Keys \union {NoKey}]
  /\ pc \in [Writers -> {"idle", "find", "set", "open", "write", "rename", "remove"}]
  /\ value \in [Writers -> Values]
  /\ using \in [Writers -> Keys \union {NoKey}]
  /\ handle \in [Writers -> Names]
  /\ answer \in [Writers -> {"none", "ok", "err"}]
  /\ reader \in Names
  /\ loaded \in Contents \union {NoFile}
  /\ \A w \in Writers : handle[w] # NoFile <=> pc[w] = "write"
  /\ bin = tmp => bin = NoFile

(* A complete store that the key opens, or none, and perhaps the temporary *)
(* file of a process that died.                                            *)
Init ==
  /\ posix \in BOOLEAN
  /\ key \in Keys \union {NoKey}
  /\ key = NoKey => posix /\ bin = NoFile
  /\ bin \in Names
  /\ tmp \in Names
  /\ bin = tmp => bin = NoFile
  /\ data \in [Inodes -> Contents]
  /\ \A f \in Inodes : f # tmp => data[f] \in Values
  /\ sealed = [f \in Inodes |-> key]
  /\ pc = [w \in Writers |-> "idle"]
  /\ value \in [Writers -> Values]
  /\ using = [w \in Writers |-> NoKey]
  /\ handle = [w \in Writers |-> NoFile]
  /\ answer = [w \in Writers |-> "none"]
  /\ reader = NoFile
  /\ loaded = NoFile

-----------------------------------------------------------------------------
Open(f) == reader = f \/ \E w \in Writers : handle[w] = f

Unused == {f \in Inodes : f # bin /\ f # tmp /\ ~Open(f)}

Return(w, r) ==
  /\ pc' = [pc EXCEPT ![w] = "idle"]
  /\ using' = [using EXCEPT ![w] = NoKey]
  /\ answer' = [answer EXCEPT ![w] = r]

GoTo(w, place) == pc' = [pc EXCEPT ![w] = place] /\ UNCHANGED <<using, answer>>

SaveStored(w, v) ==
  /\ pc[w] = "idle"
  /\ pc' = [pc EXCEPT ![w] = "find"]
  /\ value' = [value EXCEPT ![w] = v]
  /\ answer' = [answer EXCEPT ![w] = "none"]
  /\ UNCHANGED <<posix, key, files, using, handle, reader, loaded>>

(* The steps before the files: the directory, and encryptDPAPI, whose      *)
(* storeKey asks the keychain for the key.  A key that could not be read   *)
(* is an error; only for one that is known not to be there a new one is    *)
(* drawn.                                                                  *)
TakeKey(w, k, place) ==
  /\ using' = [using EXCEPT ![w] = k]
  /\ pc' = [pc EXCEPT ![w] = place]
  /\ UNCHANGED answer

FindKeyOrMint(w) ==   \* slip: a key that cannot be read is taken for a missing one
  /\ pc[w] = "find"
  /\ \/ key # NoKey /\ TakeKey(w, key, "open")
     \/ posix /\ \E k \in Keys \ {key} : TakeKey(w, k, "set")
  /\ UNCHANGED <<posix, key, files, value, handle, reader, loaded>>

FindKey(w) ==
  /\ pc[w] = "find"
  /\ \/ key # NoKey /\ TakeKey(w, key, "open")
     \/ key = NoKey /\ \E k \in Keys : TakeKey(w, k, "set")
     \/ Return(w, "err")
  /\ UNCHANGED <<posix, key, files, value, handle, reader, loaded>>

SetKey(w) ==   \* whatever key the item has by now is replaced
  /\ pc[w] = "set"
  /\ \/ key' = using[w] /\ GoTo(w, "open")
     \/ Return(w, "err") /\ UNCHANGED key
  /\ UNCHANGED <<posix, files, value, handle, reader, loaded>>

OpenInPlace(w) ==   \* slip: the store itself is opened for writing
  /\ pc[w] = "open"
  /\ bin # NoFile
  /\ data' = [data EXCEPT ![bin] = "empty"]
  /\ handle' = [handle EXCEPT ![w] = bin]
  /\ GoTo(w, "write")
  /\ UNCHANGED <<posix, key, bin, tmp, sealed, value, reader, loaded>>

(* os.WriteFile opens the temporary file: a new one, or the one there is,  *)
(* cut to nothing.                                                         *)
OpenTmp(w) ==
  /\ pc[w] = "open"
  /\ \/ \E f \in IF tmp = NoFile THEN Unused ELSE {tmp} :
          /\ tmp' = f
          /\ data' = [data EXCEPT ![f] = "empty"]
          /\ handle' = [handle EXCEPT ![w] = f]
          /\ GoTo(w, "write")
     \/ /\ Return(w, "err")
        /\ UNCHANGED <<tmp, data, handle>>
  /\ UNCHANGED <<posix, key, bin, sealed, value, reader, loaded>>

WriteTmpLeaking(w) ==   \* slip: the file stays open when the write fails
  /\ pc[w] = "write"
  /\ \/ /\ data' = [data EXCEPT ![handle[w]] = value[w]]
        /\ handle' = [handle EXCEPT ![w] = NoFile]
        /\ GoTo(w, "rename")
     \/ /\ data' = [data EXCEPT ![handle[w]] = "torn"]
        /\ Return(w, "err")
        /\ UNCHANGED handle
  /\ sealed' = [sealed EXCEPT ![handle[w]] = using[w]]
  /\ UNCHANGED <<posix, key, bin, tmp, value, reader, loaded>>

(* It writes from the start of the file: over what another writer has put  *)
(* there since, the end of which may stick out.  A write that fails leaves *)
(* a part and the file, and SaveStored returns.                            *)
WriteTmp(w) ==
  /\ pc[w] = "write"
  /\ handle' = [handle EXCEPT ![w] = NoFile]
  /\ \/ /\ \E c \in {value[w]} \union IF data[handle[w]] = "empty" THEN {} ELSE {"torn"} :
             data' = [data EXCEPT ![handle[w]] = c]
        /\ GoTo(w, "rename")
     \/ /\ data' = [data EXCEPT ![handle[w]] = "torn"]
        /\ Return(w, "err")
  /\ sealed' = [sealed EXCEPT ![handle[w]] = using[w]]
  /\ UNCHANGED <<posix, key, bin, tmp, value, reader, loaded>>

(* os.Rename takes whatever file has the temporary name by now.            *)
RenameTmp(w) ==
  /\ pc[w] = "rename"
  /\ \/ /\ tmp # NoFile
        /\ posix \/ (~Open(tmp) /\ reader = NoFile)
        /\ bin' = tmp
        /\ tmp' = NoFile
        /\ Return(w, "ok")
     \/ /\ GoTo(w, "remove")
        /\ UNCHANGED <<bin, tmp>>
  /\ UNCHANGED <<posix, key, data, sealed, value, handle, reader, loaded>>

(* After a rename that failed; the error of the removal is ignored.        *)
RemoveTmp(w) ==
  /\ pc[w] = "remove"
  /\ \/ tmp # NoFile /\ (posix \/ ~Open(tmp)) /\ tmp' = NoFile
     \/ UNCHANGED tmp
  /\ Return(w, "err")
  /\ UNCHANGED <<posix, key, bin, data, sealed, value, handle, reader, loaded>>

-----------------------------------------------------------------------------
(* LoadStored's os.ReadFile.                                               *)
OpenBin ==
  /\ reader = NoFile
  /\ bin # NoFile
  /\ reader' = bin
  /\ UNCHANGED <<posix, key, files, saveVars, loaded>>

(* decryptDPAPI, with the key of now; it may not be read, or not fit.      *)
ReadBin ==
  /\ reader # NoFile
  /\ \/ sealed[reader] = key /\ loaded' = data[reader]
     \/ UNCHANGED loaded
  /\ reader' = NoFile
  /\ UNCHANGED <<posix, key, files, saveVars>>

(* The process dies and is started again: files stay, handles are closed.  *)
Crash ==
  /\ pc' = [w \in Writers |-> "idle"]
  /\ handle' = [w \in Writers |-> NoFile]
  /\ answer' = [w \in Writers |-> "none"]
  /\ using' = [w \in Writers |-> NoKey]
  /\ reader' = NoFile
  /\ loaded' = NoFile
  /\ UNCHANGED <<posix, key, files, value>>

Next ==
  \/ \E w \in Writers :
       \/ \E v \in Values : SaveStored(w, v)
       \/ FindKey(w) \/ SetKey(w)
       \/ OpenTmp(w) \/ WriteTmp(w) \/ RenameTmp(w) \/ RemoveTmp(w)
  \/ OpenBin \/ ReadBin
  \/ Crash

Spec == Init /\ [][Next]_vars

-----------------------------------------------------------------------------
(* With one writer the file is an AtomicStore: saves are all or nothing,   *)
(* whatever fails and wherever the process dies, and a load that overlaps  *)
(* a save gets the store it opened.                                        *)
Content(f) == IF f = NoFile THEN NoFile ELSE data[f]

OnlyWriter == CHOOSE w \in Writers : TRUE

Atomic == INSTANCE AtomicStore WITH
  NoStore <- NoFile,
  stored <- Content(bin),
  saving <- IF pc[OnlyWriter] = "idle" THEN NoFile ELSE value[OnlyWriter],
  answer <- answer[OnlyWriter],
  loading <- Content(reader)

ReplacesAtomically == Atomic!Spec

(* At every moment the key in the keychain is the one the store is sealed  *)
(* with: no failure and no death of the process, between the making of the *)
(* first key and the first rename or later, leaves a store that nothing    *)
(* opens ("a read failure must NEVER fall through to minting a new key").  *)
KeyFits == bin # NoFile => key # NoKey /\ sealed[bin] = key

=============================================================================
