--------------------------- MODULE SettingsProofs ---------------------------
(***************************************************************************)
(* What Settings keeps, for every set of profiles, settings and pending    *)
(* auto-saves.  The writers hold copies of different ages; what makes this *)
(* harmless to the credentials of a profile nobody touched is that all of  *)
(* them agree on it: the file, the copy in memory when it was read at the  *)
(* start, and the copy of every auto-save between its load and its save.   *)
(* And its saves and connects are those of OneOperation.                   *)
(***************************************************************************)
EXTENDS Settings, TLAPS

(* When the window has read the file, an untouched profile has the same    *)
(* credentials in memory and in the file ...                               *)
FileAgrees ==
  copy = "read" =>
    file = "good" /\ \A p \in Profiles \ touched : disk.creds[p] = mem.creds[p]

(* ... and in the copy of an auto-save that is about to write.             *)
AutoAgrees ==
  copy = "read" => \A i \in AutoSaves : auto[i].pc = "write" =>
    \A p \in Profiles \ touched : auto[i].cur.creds[p] = mem.creds[p]

(* When it holds the defaults and has not written them, only auto-saves    *)
(* write, and all of them have the credentials of the file.                *)
AutoFresh ==
  copy = "blank" => \A i \in AutoSaves : auto[i].pc = "write" =>
    auto[i].cur.creds = Loaded.creds

(* An auto-save that is about to write has loaded the store.               *)
AutoHasRead == \A i \in AutoSaves : auto[i].pc = "write" => file # "sealed"

(* A save that has been written has made the store readable.               *)
SavedIsReadable == save.pc = "done" => file = "good"

Copies == FileAgrees /\ AutoAgrees /\ AutoFresh /\ AutoHasRead

CopiesInv == TypeOK /\ Copies /\ SavedIsReadable

-----------------------------------------------------------------------------
(* The defaults are a store.                                               *)
LEMMA DefaultIsStored == DefaultStored \in Stored /\ Nothing \in [Profiles -> Creds]
BY InitialAssumption DEF DefaultStored, Stored, Nothing, Creds

LEMMA InitTypeOK == Init => TypeOK
<1> SUFFICES ASSUME Init PROVE TypeOK
  OBVIOUS
<1>1. disk \in Stored
  BY DEF Init, Stored
<1>2. mem \in Stored
  <2>1. mem = disk \/ mem = DefaultStored
    BY DEF Init
  <2> QED
    BY <1>1, <2>1, DefaultIsStored
<1>3. form \in Contents /\ typed \in Creds
  BY <1>2 DEF Init, Stored, Creds
<1>4. conn \in [on : BOOLEAN, p : Profiles, s : Contents, cred : Creds]
  BY InitialAssumption DEF Init, Idle, Creds
<1>5. save \in [pc : {"none", "write", "done"}, p : Profiles, s : Contents]
  BY InitialAssumption DEF Init, NoSave
<1>6. auto \in [AutoSaves -> [pc : {"none", "load", "write"}, s : Contents, cur : Stored]]
  BY InitialAssumption, DefaultIsStored DEF Init, NoAuto
<1> QED
  BY <1>1, <1>2, <1>3, <1>4, <1>5, <1>6 DEF Init, TypeOK, history

(* A write of the window: what the window holds is in the file, or nothing *)
(* has changed.                                                            *)
WindowWrites(st) ==
  \/ disk' = st /\ file' = "good" /\ copy' = IF copy = "blank" THEN "written" ELSE copy
  \/ disk' = disk /\ file' = file /\ copy' = copy

(* What storing credentials does: the copy in memory changes for p alone,  *)
(* and the file either becomes that copy or stays.                         *)
LEMMA PersistEffect ==
  ASSUME TypeOK, NEW p \in Profiles, PersistCredentials(p)
  PROVE  /\ mem' \in Stored
         /\ \A q \in Profiles \ {p} : mem'.creds[q] = mem.creds[q]
         /\ touched' = touched \union {p}
         /\ WindowWrites(mem')
<1>1. (IF remember THEN typed ELSE NoCred) \in Creds
  BY DEF TypeOK, Creds
<1>2. mem' = [mem EXCEPT !.creds[p] = IF remember THEN typed ELSE NoCred]
  BY DEF PersistCredentials
<1>3. mem' \in Stored /\ \A q \in Profiles \ {p} : mem'.creds[q] = mem.creds[q]
  BY <1>1, <1>2 DEF TypeOK, Stored
<1> QED
  BY <1>3 DEF PersistCredentials, WindowReplaces, Replace, SaveFails, WindowWrites

(* Storing the credentials of p makes p touched, and leaves the copies in  *)
(* agreement about the others.                                             *)
LEMMA PersistKeepsCopies ==
  ASSUME CopiesInv, NEW p \in Profiles, PersistCredentials(p), UNCHANGED auto
  PROVE  /\ disk' \in Stored /\ mem' \in Stored
         /\ file' \in {"good", "sealed", "garbled"} /\ touched' \in SUBSET Profiles
         /\ copy' \in {"read", "blank", "written"}
         /\ Copies'
         /\ file = "good" => file' = "good"
<1> USE DEF CopiesInv, Copies
<1>1. /\ mem' \in Stored
      /\ \A q \in Profiles \ {p} : mem'.creds[q] = mem.creds[q]
      /\ touched' = touched \union {p}
      /\ WindowWrites(mem')
  BY PersistEffect
<1>2. disk' \in Stored /\ touched' \in SUBSET Profiles
  BY <1>1 DEF TypeOK, WindowWrites
<1>3. /\ file' \in {"good", "sealed", "garbled"} /\ copy' \in {"read", "blank", "written"}
      /\ file = "good" => file' = "good"
  BY <1>1 DEF TypeOK, WindowWrites
<1>4. FileAgrees' /\ AutoAgrees'
  BY <1>1 DEF TypeOK, WindowWrites, FileAgrees, AutoAgrees
<1>5. AutoFresh' /\ AutoHasRead'
  BY <1>1 DEF TypeOK, WindowWrites, AutoFresh, AutoHasRead, Loaded
<1> QED
  BY <1>1, <1>2, <1>3, <1>4, <1>5

-----------------------------------------------------------------------------
(* A step that leaves the file, the memory and the auto-saves about to     *)
(* write alone leaves them in agreement.                                   *)
LEMMA CopiesStay ==
  ASSUME Copies, UNCHANGED <<disk, file, touched, copy>>, mem'.creds = mem.creds,
         \A j \in AutoSaves : auto'[j].pc = "write" => auto'[j] = auto[j]
  PROVE  Copies'
BY DEF Copies, FileAgrees, AutoAgrees, AutoFresh, AutoHasRead, Loaded

LEMMA NextKeepsCopies ==
  ASSUME CopiesInv, Next
  PROVE  CopiesInv'
<1> USE DEF CopiesInv, history
<1>1. CASE EditForm
  <2>1. form' \in Contents /\ typed' \in Creds /\ remember' \in BOOLEAN /\ name' = name
    BY <1>1 DEF EditForm, Edit, TypeOK, Creds
  <2> QED
    BY <1>1, <2>1, CopiesStay DEF EditForm, TypeOK, SavedIsReadable
<1>2. ASSUME NEW p \in Profiles, OnProfileChanged(p)
      PROVE  CopiesInv'
  <2>1. typed' \in Creds
    BY <1>2 DEF OnProfileChanged, TypeOK, Stored
  <2> QED
    BY <1>2, <2>1, CopiesStay DEF OnProfileChanged, TypeOK, SavedIsReadable
<1>3. CASE OnConnect
  <2>1. conn' \in [on : BOOLEAN, p : Profiles, s : Contents, cred : Creds]
    BY <1>3 DEF OnConnect, TypeOK, Stored
  <2>2. PICK i \in AutoSaves :
          auto' = [auto EXCEPT ![i] = [pc |-> "load", s |-> form, cur |-> DefaultStored]]
    BY <1>3 DEF OnConnect
  <2>3. auto' \in [AutoSaves -> [pc : {"none", "load", "write"}, s : Contents, cur : Stored]]
    BY <2>2, DefaultIsStored DEF TypeOK
  <2>4. \A j \in AutoSaves : auto'[j].pc = "write" => auto'[j] = auto[j]
    BY <2>2 DEF TypeOK
  <2> QED
    BY <1>3, <2>1, <2>3, <2>4, CopiesStay DEF OnConnect, TypeOK, SavedIsReadable
<1>4. CASE ConnectOK
  <2>1. PersistCredentials(conn.p) /\ conn.p \in Profiles /\ UNCHANGED auto
    BY <1>4 DEF ConnectOK, TypeOK
  <2>2. conn' \in [on : BOOLEAN, p : Profiles, s : Contents, cred : Creds]
    BY <1>4, InitialAssumption DEF ConnectOK, Idle, TypeOK, Creds
  <2> QED
    BY <1>4, <2>1, <2>2, PersistKeepsCopies DEF ConnectOK, TypeOK, SavedIsReadable
<1>5. CASE ConnectEnds
  <2>1. conn' \in [on : BOOLEAN, p : Profiles, s : Contents, cred : Creds]
    BY <1>5, InitialAssumption DEF ConnectEnds, Idle, TypeOK, Creds
  <2> QED
    BY <1>5, <2>1, CopiesStay DEF ConnectEnds, TypeOK, SavedIsReadable
<1>6. CASE OnSave
  <2>1. /\ mem' \in Stored
        /\ mem'.creds = mem.creds
        /\ save' \in [pc : {"none", "write", "done"}, p : Profiles, s : Contents]
        /\ save'.pc = "write"
    BY <1>6 DEF OnSave, TypeOK, Stored
  <2> QED
    BY <1>6, <2>1, CopiesStay DEF OnSave, TypeOK, SavedIsReadable
<1>7. CASE SaveWrite
  <2>1. save' \in [pc : {"none", "write", "done"}, p : Profiles, s : Contents]
    BY <1>7, InitialAssumption DEF SaveWrite, NoSave, TypeOK
  <2>2. CASE /\ WindowReplaces([s |-> save.s, creds |-> mem.creds])
             /\ save' = [save EXCEPT !.pc = "done"]
    <3>1. /\ disk' \in Stored /\ disk'.creds = mem.creds /\ file' = "good"
          /\ copy' = IF copy = "blank" THEN "written" ELSE copy
      BY <2>2 DEF TypeOK, Stored, WindowReplaces, Replace
    <3>2. Copies'
      BY <1>7, <3>1 DEF SaveWrite, TypeOK, Copies, FileAgrees, AutoAgrees, AutoFresh,
                        AutoHasRead
    <3> QED
      BY <1>7, <2>1, <3>1, <3>2 DEF SaveWrite, TypeOK, SavedIsReadable
  <2>3. CASE SaveFails /\ save' = NoSave
    BY <1>7, <2>1, <2>3, CopiesStay DEF SaveWrite, SaveFails, NoSave, TypeOK, SavedIsReadable
  <2> QED
    BY <1>7, <2>2, <2>3 DEF SaveWrite
<1>8. CASE SaveDone
  <2>1. PersistCredentials(save.p) /\ save.p \in Profiles /\ UNCHANGED auto
    BY <1>8 DEF SaveDone, TypeOK
  <2>2. /\ save' \in [pc : {"none", "write", "done"}, p : Profiles, s : Contents]
        /\ save'.pc = "none"
    BY <1>8, InitialAssumption DEF SaveDone, NoSave, TypeOK
  <2> QED
    BY <1>8, <2>1, <2>2, PersistKeepsCopies DEF SaveDone, TypeOK, SavedIsReadable
<1>9. ASSUME NEW i \in AutoSaves, AutoLoad(i)
      PROVE  CopiesInv'
  <2>1. Loaded \in Stored
    BY DefaultIsStored DEF Loaded, TypeOK
  <2>2. /\ \A j \in AutoSaves \ {i} : auto'[j] = auto[j]
        /\ auto'[i].pc = "write" => file # "sealed" /\ auto'[i].cur = Loaded
        /\ auto' \in [AutoSaves -> [pc : {"none", "load", "write"}, s : Contents, cur : Stored]]
    <3>1. CASE /\ file # "sealed"
               /\ auto' = [auto EXCEPT ![i] = [@ EXCEPT !.pc = "write", !.cur = Loaded]]
      BY <2>1, <3>1 DEF TypeOK
    <3>2. CASE auto' = [auto EXCEPT ![i] = NoAuto]
      BY <3>2, InitialAssumption, DefaultIsStored DEF NoAuto, TypeOK
    <3> QED
      BY <1>9, <3>1, <3>2 DEF AutoLoad
  <2>3. AutoHasRead' /\ AutoFresh'
    BY <1>9, <2>2 DEF AutoLoad, Copies, AutoHasRead, AutoFresh, Loaded
  <2>4. FileAgrees'
    BY <1>9 DEF AutoLoad, Copies, FileAgrees
  <2>5. AutoAgrees'
    BY <1>9, <2>2 DEF AutoLoad, Copies, FileAgrees, AutoAgrees, Loaded
  <2> QED
    BY <1>9, <2>2, <2>3, <2>4, <2>5 DEF AutoLoad, TypeOK, Copies, SavedIsReadable
<1>10. ASSUME NEW i \in AutoSaves, AutoWrite(i)
       PROVE  CopiesInv'
  <2>1. auto' \in [AutoSaves -> [pc : {"none", "load", "write"}, s : Contents, cur : Stored]]
    BY <1>10, InitialAssumption, DefaultIsStored DEF AutoWrite, NoAuto, TypeOK
  <2>2. \A j \in AutoSaves : auto'[j].pc = "write" => auto'[j] = auto[j]
    BY <1>10 DEF AutoWrite, NoAuto, TypeOK
  <2>3. CASE SaveFails
    BY <1>10, <2>1, <2>2, <2>3, CopiesStay DEF AutoWrite, SaveFails, TypeOK, SavedIsReadable
  <2>4. ASSUME NEW s \in {auto[i].s, form}, Replace([auto[i].cur EXCEPT !.s = s])
        PROVE  CopiesInv'
    <3>1. disk' \in Stored /\ disk'.creds = auto[i].cur.creds /\ file' = "good"
      BY <2>4 DEF TypeOK, Stored, Replace
    <3>2. auto[i].pc = "write" /\ UNCHANGED <<mem, touched, copy>>
      BY <1>10 DEF AutoWrite
    <3>3. FileAgrees' /\ AutoAgrees'
      BY <2>2, <3>1, <3>2 DEF Copies, FileAgrees, AutoAgrees
    <3>4. AutoFresh' /\ AutoHasRead'
      BY <2>2, <3>1, <3>2 DEF Copies, AutoFresh, AutoHasRead, Loaded
    <3> QED
      BY <1>10, <2>1, <3>1, <3>3, <3>4 DEF AutoWrite, TypeOK, Copies, SavedIsReadable
  <2> QED
    BY <1>10, <2>3, <2>4 DEF AutoWrite
<1> QED
  BY <1>1, <1>2, <1>3, <1>4, <1>5, <1>6, <1>7, <1>8, <1>9, <1>10 DEF Next

(* A step changes the credentials in memory for touched profiles only.     *)
LEMMA NextOnlyTouches ==
  ASSUME TypeOK, Next, NEW p \in Profiles, p \notin touched'
  PROVE  p \notin touched /\ mem'.creds[p] = mem.creds[p]
<1> USE DEF history
<1>1. CASE EditForm \/ OnConnect \/ ConnectEnds \/ SaveWrite
  BY <1>1 DEF EditForm, OnConnect, ConnectEnds, SaveWrite
<1>2. CASE OnSave
  BY <1>2 DEF OnSave, TypeOK, Stored
<1>3. ASSUME NEW q \in Profiles, OnProfileChanged(q)
      PROVE  p \notin touched /\ mem'.creds[p] = mem.creds[p]
  BY <1>3 DEF OnProfileChanged
<1>4. ASSUME NEW q \in Profiles, PersistCredentials(q)
      PROVE  p \notin touched /\ mem'.creds[p] = mem.creds[p]
  BY <1>4, PersistEffect
<1>5. CASE ConnectOK \/ SaveDone
  BY <1>4, <1>5 DEF ConnectOK, SaveDone, TypeOK
<1>6. ASSUME NEW i \in AutoSaves, AutoLoad(i) \/ AutoWrite(i)
      PROVE  p \notin touched /\ mem'.creds[p] = mem.creds[p]
  BY <1>6 DEF AutoLoad, AutoWrite
<1> QED
  BY <1>1, <1>2, <1>3, <1>5, <1>6 DEF Next

(* A store that can be read stays so, and from a copy that has been        *)
(* written over the file there is no way back.                             *)
LEMMA NextKeepsReadable ==
  ASSUME TypeOK, Next
  PROVE  (file = "good" => file' = "good") /\ (copy' # "written" => copy' = copy)
<1> USE DEF history
<1>1. CASE EditForm \/ OnConnect \/ ConnectEnds \/ OnSave
  BY <1>1 DEF EditForm, OnConnect, ConnectEnds, OnSave
<1>2. ASSUME NEW p \in Profiles, OnProfileChanged(p)
      PROVE  (file = "good" => file' = "good") /\ (copy' # "written" => copy' = copy)
  BY <1>2 DEF OnProfileChanged
<1>3. ASSUME NEW p \in Profiles, PersistCredentials(p)
      PROVE  (file = "good" => file' = "good") /\ (copy' # "written" => copy' = copy)
  BY <1>3, PersistEffect DEF WindowWrites
<1>4. CASE ConnectOK \/ SaveDone
  BY <1>3, <1>4 DEF ConnectOK, SaveDone, TypeOK
<1>5. CASE SaveWrite
  BY <1>5 DEF SaveWrite, WindowReplaces, Replace, SaveFails
<1>6. ASSUME NEW i \in AutoSaves, AutoLoad(i) \/ AutoWrite(i)
      PROVE  (file = "good" => file' = "good") /\ (copy' # "written" => copy' = copy)
  BY <1>6 DEF AutoLoad, AutoWrite, Replace, SaveFails
<1> QED
  BY <1>1, <1>2, <1>4, <1>5, <1>6 DEF Next

LEMMA CopiesAgree == Spec => []CopiesInv
<1>1. Init => CopiesInv
  BY InitTypeOK DEF Init, CopiesInv, NoAuto, NoSave, Copies, FileAgrees, AutoAgrees,
                    AutoFresh, AutoHasRead, SavedIsReadable
<1>2. CopiesInv /\ [Next]_vars => CopiesInv'
  <2>1. CASE Next
    BY <2>1, NextKeepsCopies
  <2>2. CASE UNCHANGED vars
    BY <2>2 DEF vars, history, CopiesInv, TypeOK, Copies, FileAgrees, AutoAgrees, AutoFresh,
                AutoHasRead, SavedIsReadable, Loaded
  <2> QED
    BY <2>1, <2>2
<1> QED
  BY <1>1, <1>2, PTL DEF Spec

-----------------------------------------------------------------------------
(* Every copy of the settings is a whole config.Stored, in every file,     *)
(* widget and goroutine that holds one.                                    *)
THEOREM SettingsTypes == Spec => []TypeOK
BY CopiesAgree, PTL DEF CopiesInv

(* A profile that was neither saved nor connected keeps its credentials:   *)
(* in memory always; in the file while the window has not put in its place *)
(* a copy its load at start failed to fill, whichever other loads fail.    *)
THEOREM UntouchedSurvive == Spec => UntouchedCredsSurvive
<1>1. CopiesInv /\ CopiesInv' /\ [Next]_vars =>
        [\A p \in Profiles : p \notin touched' =>
           /\ mem'.creds[p] = mem.creds[p]
           /\ file = "good" /\ copy' # "written" => disk'.creds[p] = disk.creds[p]]_vars
  <2> SUFFICES ASSUME CopiesInv, CopiesInv', Next,
                      NEW p \in Profiles, p \notin touched'
               PROVE  /\ mem'.creds[p] = mem.creds[p]
                      /\ file = "good" /\ copy' # "written" =>
                           disk'.creds[p] = disk.creds[p]
    OBVIOUS
  <2>1. p \notin touched /\ mem'.creds[p] = mem.creds[p]
    BY NextOnlyTouches DEF CopiesInv
  <2> SUFFICES ASSUME file = "good", copy' # "written"
               PROVE  disk'.creds[p] = disk.creds[p]
    BY <2>1
  <2>2. file' = "good" /\ copy' = copy
    BY NextKeepsReadable DEF CopiesInv
  <2>3. CASE copy = "read"
    BY <2>1, <2>2, <2>3 DEF CopiesInv, Copies, FileAgrees
  <2>4. CASE copy = "blank"
    <3>1. ASSUME NEW st, WindowWrites(st) PROVE disk' = disk
      BY <2>2, <2>4, <3>1 DEF WindowWrites
    <3>2. CASE EditForm \/ OnConnect \/ ConnectEnds \/ OnSave
      BY <3>2 DEF EditForm, OnConnect, ConnectEnds, OnSave
    <3>3. ASSUME NEW q \in Profiles, OnProfileChanged(q) PROVE disk' = disk
      BY <3>3 DEF OnProfileChanged
    <3>4. CASE ConnectOK \/ SaveDone
      BY <3>1, <3>4, PersistEffect DEF ConnectOK, SaveDone, CopiesInv, TypeOK
    <3>5. CASE SaveWrite
      BY <3>5, <2>2, <2>4 DEF SaveWrite, WindowReplaces, SaveFails
    <3>6. ASSUME NEW i \in AutoSaves, AutoLoad(i) PROVE disk' = disk
      BY <3>6 DEF AutoLoad
    <3>7. ASSUME NEW i \in AutoSaves, AutoWrite(i) PROVE disk'.creds[p] = disk.creds[p]
      <4>1. auto[i].cur.creds = disk.creds
        BY <2>4, <3>7 DEF AutoWrite, CopiesInv, Copies, AutoFresh, Loaded
      <4>2. ASSUME NEW s, Replace([auto[i].cur EXCEPT !.s = s])
            PROVE  disk'.creds = auto[i].cur.creds
        BY <4>2 DEF Replace, CopiesInv, TypeOK, Stored
      <4> QED
        BY <3>7, <4>1, <4>2 DEF AutoWrite, SaveFails
    <3> QED
      BY <3>2, <3>3, <3>4, <3>5, <3>6, <3>7 DEF Next
  <2> QED
    BY <2>2, <2>3, <2>4 DEF CopiesInv, TypeOK
<1> QED
  BY <1>1, CopiesAgree, PTL DEF Spec, UntouchedCredsSurvive

(* A store that does not decrypt is replaced by a save of the user or at   *)
(* the end of a connect, never by an auto-save.                            *)
THEOREM UnreadableSpared == Spec => UnreadableNotReplacedQuietly
<1>1. CopiesInv /\ [Next]_vars =>
        [file = "sealed" /\ file' # "sealed" => \/ save.pc = "write" /\ save'.pc = "done"
                                                \/ conn.on /\ ~conn'.on]_vars
  <2> SUFFICES ASSUME CopiesInv, Next, file = "sealed", file' # "sealed"
               PROVE  \/ save.pc = "write" /\ save'.pc = "done"
                      \/ conn.on /\ ~conn'.on
    OBVIOUS
  <2>1. CASE EditForm \/ OnConnect \/ ConnectEnds \/ OnSave
    BY <2>1 DEF EditForm, OnConnect, ConnectEnds, OnSave
  <2>2. ASSUME NEW p \in Profiles, OnProfileChanged(p) PROVE FALSE
    BY <2>2 DEF OnProfileChanged
  <2>3. CASE ConnectOK
    BY <2>3 DEF ConnectOK, Idle
  <2>4. CASE SaveWrite
    BY <2>4 DEF SaveWrite, SaveFails, CopiesInv, TypeOK
  <2>5. CASE SaveDone
    BY <2>5 DEF SaveDone, CopiesInv, SavedIsReadable
  <2>6. ASSUME NEW i \in AutoSaves, AutoLoad(i) \/ AutoWrite(i) PROVE FALSE
    BY <2>6 DEF AutoLoad, AutoWrite, CopiesInv, Copies, AutoHasRead
  <2> QED
    BY <2>1, <2>2, <2>3, <2>4, <2>5, <2>6 DEF Next
<1> QED
  BY <1>1, CopiesAgree, PTL DEF Spec, UnreadableNotReplacedQuietly

-----------------------------------------------------------------------------
(* The busy lock *)

(* The connect or the save that is under way, as OneOperation sees it.     *)
Operation ==
  IF conn.on THEN "connect" ELSE IF save.pc # "none" THEN "save" ELSE "idle"

Lock == INSTANCE OneOperation WITH op <- Operation

LockInv == conn.on \in BOOLEAN /\ ~(conn.on /\ save.pc # "none")

LEMMA LockStep ==
  ASSUME LockInv, [Next]_vars
  PROVE  LockInv' /\ [Lock!Next]_Operation
<1> USE DEF LockInv, Operation, Lock!Next, Lock!Start, Lock!Finish, Lock!Operations
<1>1. CASE OnConnect
  <2>1. conn'.on = TRUE /\ save' = save
    BY <1>1 DEF OnConnect
  <2>2. ~conn.on /\ save.pc = "none"
    BY <1>1 DEF OnConnect, LockFree
  <2>3. Operation = "idle" /\ Operation' = "connect"
    BY <2>1, <2>2
  <2> QED
    BY <2>1, <2>2, <2>3
<1>2. CASE ConnectOK \/ ConnectEnds
  <2>1. conn'.on = FALSE /\ save' = save
    BY <1>2 DEF ConnectOK, ConnectEnds, Idle
  <2>2. conn.on = TRUE /\ save.pc = "none"
    BY <1>2 DEF ConnectOK, ConnectEnds
  <2> QED
    BY <2>1, <2>2
<1>3. CASE OnSave
  <2>1. conn' = conn /\ save'.pc = "write"
    BY <1>3 DEF OnSave
  <2>2. conn.on = FALSE /\ save.pc = "none"
    BY <1>3 DEF OnSave, LockFree
  <2> QED
    BY <2>1, <2>2
<1>4. CASE SaveDone
  BY <1>4 DEF SaveDone, NoSave
<1>5. CASE SaveWrite
  <2>1. save'.pc = "none" \/ (save' = [save EXCEPT !.pc = "done"] /\ save.pc # "none")
    BY <1>5 DEF SaveWrite, NoSave
  <2> QED
    BY <1>5, <2>1 DEF SaveWrite
<1>6. CASE UNCHANGED <<conn, save>>
  BY <1>6
<1> QED
  BY <1>1, <1>2, <1>3, <1>4, <1>5, <1>6
  DEF Next, EditForm, OnProfileChanged, AutoLoad, AutoWrite, vars

(* The settings' side of the handlers keeps the busy lock the connection's *)
(* side implements: their connects and saves are those of OneOperation,    *)
(* and take turns, whatever number of auto-saves outlives them.            *)
THEOREM SettingsTakeTurns == Spec => Lock!Init /\ [][Lock!Next]_Operation
<1>1. Init => LockInv /\ Lock!Init
  BY DEF Init, Idle, NoSave, LockInv, Operation, Lock!Init
<1> QED
  BY <1>1, LockStep, PTL DEF Spec

=============================================================================
