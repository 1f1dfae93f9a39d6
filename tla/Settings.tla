------------------------------ MODULE Settings ------------------------------
(***************************************************************************)
(* The settings side of the main window's controller                       *)
(* (internal/ui/main_window.go): the settings and credentials it holds in  *)
(* memory, the form they are edited in, and vepeen.bin, which three        *)
(* writers rewrite whole from copies taken at different times: the         *)
(* auto-save of a starting connect (persistQuiet, a goroutine), the Save   *)
(* button (a goroutine, then a closure) and the end of a successful        *)
(* connect (a closure).  Each load may fail by itself, so that the window  *)
(* may hold the defaults although the auto-saves read the file well.  What *)
(* the handlers do to the connection is the subject of Controller; the     *)
(* bytes of the file are that of Store.                                    *)
(***************************************************************************)
CONSTANTS
  Profiles,    \* connection names
  Contents,    \* values of the settings other than credentials
  Initial,     \* the settings of config.DefaultStored
  NoCred,      \* no credentials
  AutoSaves,   \* auto-save goroutines that may be pending at once
  WritesFail   \* SaveStored may fail

ASSUME InitialAssumption == Initial \in Contents
ASSUME NoCredAssumption == NoCred \notin Profiles
ASSUME WritesFailAssumption == WritesFail \in BOOLEAN

(* The credentials that belong to a profile are named after it.            *)
Creds == Profiles \union {NoCred}
Nothing == [p \in Profiles |-> NoCred]

(* config.Stored: settings, and credentials by profile.                    *)
Stored == [s : Contents, creds : [Profiles -> Creds]]
DefaultStored == [s |-> Initial, creds |-> Nothing]

VARIABLES
  disk,      \* what vepeen.bin decrypts to
  file,      \* whether it does: "good", "sealed" (it never decrypts), or
             \* "garbled" (it decrypts and does not parse)
  mem,       \* c.stored
  form,      \* the settings in the widgets
  typed,     \* the credentials in the user and password entries
  remember,  \* the Remember check box
  name,      \* c.connectionName
  conn,      \* the connect under way and the request it was started with
  save,      \* the save under way and the settings it writes
  auto,      \* the auto-saves under way
  touched,   \* history: profiles some handler stored or deleted credentials of
  copy       \* history: where c.stored comes from: "read", or "blank" when the
             \* load at start gave the defaults, and "written" once such a copy
             \* has replaced the file

history == <<touched, copy>>
vars == <<disk, file, mem, form, typed, remember, name, conn, save, auto, history>>

(* Every copy of the settings is a whole config.Stored and every entry of  *)
(* its credentials is one profile's or empty.                              *)
TypeOK ==
  /\ disk \in Stored
  /\ file \in {"good", "sealed", "garbled"}
  /\ mem \in Stored
  /\ form \in Contents
  /\ typed \in Creds
  /\ remember \in BOOLEAN
  /\ name \in Profiles
  /\ conn \in [on : BOOLEAN, p : Profiles, s : Contents, cred : Creds]
  /\ save \in [pc : {"none", "write", "done"}, p : Profiles, s : Contents]
  /\ auto \in [AutoSaves -> [pc : {"none", "load", "write"}, s : Contents, cur : Stored]]
  /\ touched \in SUBSET Profiles
  /\ copy \in {"read", "blank", "written"}

Idle == [on |-> FALSE, p |-> name, s |-> Initial, cred |-> NoCred]
NoSave == [pc |-> "none", p |-> name, s |-> Initial]
NoAuto == [pc |-> "none", s |-> Initial, cur |-> DefaultStored]

(* LoadStored: what it gives when it reports no error.  It reports one     *)
(* when the file does not decrypt, and may at any reading (a keychain that *)
(* does not answer, say); contents that do not parse are no error.         *)
Loaded == IF file = "good" THEN disk ELSE DefaultStored

(* loadInitial: what the load gives, or the defaults when it fails.        *)
Init ==
  /\ disk \in [s : Contents, creds : {c \in [Profiles -> Creds] :
                                        \A p \in Profiles : c[p] \in {p, NoCred}}]
  /\ file \in {"good", "sealed", "garbled"}
  /\ \/ file = "good" /\ mem = disk /\ copy = "read"
     \/ mem = DefaultStored /\ copy = "blank"
  /\ form = mem.s
  /\ remember \in BOOLEAN
  /\ name \in Profiles
  /\ typed = IF remember THEN mem.creds[name] ELSE NoCred
  /\ conn = Idle
  /\ save = NoSave
  /\ auto = [i \in AutoSaves |-> NoAuto]
  /\ touched = {}

-----------------------------------------------------------------------------
(* SaveStored replaces the file as a whole, or fails and leaves it.        *)
Replace(st) == disk' = st /\ file' = "good"
SaveFails == WritesFail /\ UNCHANGED <<disk, file, copy>>

(* The window's writes put what it holds in the place of the file.         *)
WindowReplaces(st) ==
  /\ Replace(st)
  /\ copy' = IF copy = "blank" THEN "written" ELSE copy

PersistCredentialsMerged(p) ==   \* slip: the entries are added to what was stored
  LET new == IF remember THEN {mem.creds[p], typed} ELSE NoCred
  IN /\ mem' = [mem EXCEPT !.creds[p] = new]
     /\ WindowReplaces(mem') \/ SaveFails
     /\ touched' = touched \union {p}

(* persistCredentials: by the check box and the entries as they are now,   *)
(* into the copy in memory, which then replaces the file.                  *)
PersistCredentials(p) ==
  LET new == IF remember THEN typed ELSE NoCred
  IN /\ mem' = [mem EXCEPT !.creds[p] = new]
     /\ WindowReplaces(mem') \/ SaveFails
     /\ touched' = touched \union {p}

LockFree == ~conn.on /\ save.pc = "none"

-----------------------------------------------------------------------------
(* The user edits the form.  The entries are disabled while an operation   *)
(* runs, the check boxes and the profile selector never are.               *)
Edit ==
  \/ /\ form' \in Contents
     /\ UNCHANGED <<typed, remember, name>>
  \/ /\ LockFree
     /\ typed' \in {name, NoCred}
     /\ UNCHANGED <<form, remember, name>>
  \/ /\ remember' \in BOOLEAN
     /\ UNCHANGED <<form, typed, name>>

EditForm == Edit /\ UNCHANGED <<disk, file, mem, conn, save, auto, history>>

(* onProfileChanged, then loadCredentials: the entries are filled when the *)
(* profile has stored credentials and left as they are when it has none.   *)
OnProfileChanged(p) ==
  /\ p # name
  /\ name' = p
  /\ typed' = IF remember /\ mem.creds[p] # NoCred THEN mem.creds[p] ELSE typed
  /\ UNCHANGED <<disk, file, mem, form, remember, conn, save, auto, history>>

-----------------------------------------------------------------------------
(* onConnect takes the request from the form, falls back to the stored     *)
(* credentials, and starts the auto-save.                                  *)
OnConnect ==
  /\ LockFree
  /\ conn' = [on |-> TRUE, p |-> name, s |-> form,
              cred |-> IF typed = NoCred /\ remember THEN mem.creds[name] ELSE typed]
  /\ \E i \in AutoSaves :      \* bound: pending auto-saves
       /\ auto[i].pc = "none"
       /\ auto' = [auto EXCEPT ![i] = [pc |-> "load", s |-> form, cur |-> DefaultStored]]
  /\ UNCHANGED <<disk, file, mem, form, typed, remember, name, save, history>>

AutoLoadUnchecked(i) ==   \* slip: the load error is ignored
  /\ auto[i].pc = "load"
  /\ \E st \in {Loaded, DefaultStored} :
       auto' = [auto EXCEPT ![i] = [@ EXCEPT !.pc = "write", !.cur = st]]
  /\ UNCHANGED <<disk, file, mem, form, typed, remember, name, conn, save, history>>

(* persistQuiet reads the store, and stops when that fails ...             *)
AutoLoad(i) ==
  /\ auto[i].pc = "load"
  /\ \/ /\ file # "sealed"
        /\ auto' = [auto EXCEPT ![i] = [@ EXCEPT !.pc = "write", !.cur = Loaded]]
     \/ auto' = [auto EXCEPT ![i] = NoAuto]
  /\ UNCHANGED <<disk, file, mem, form, typed, remember, name, conn, save, history>>

(* ... then writes it back with the request's settings; the check boxes    *)
(* are read only now, so what it writes may already be what the form shows.*)
AutoWrite(i) ==
  /\ auto[i].pc = "write"
  /\ \/ \E s \in {auto[i].s, form} : Replace([auto[i].cur EXCEPT !.s = s])
     \/ SaveFails
  /\ auto' = [auto EXCEPT ![i] = NoAuto]
  /\ UNCHANGED <<mem, form, typed, remember, name, conn, save, history>>

(* The completion closure of a connect that worked stores its credentials. *)
ConnectOK ==
  /\ conn.on
  /\ PersistCredentials(conn.p)
  /\ conn' = Idle
  /\ UNCHANGED <<form, typed, remember, name, save, auto>>

(* One that was cancelled, failed or found the tunnel up stores nothing.   *)
ConnectEnds ==
  /\ conn.on
  /\ conn' = Idle
  /\ UNCHANGED <<disk, file, mem, form, typed, remember, name, save, auto, history>>

-----------------------------------------------------------------------------
(* onSave copies the form into memory; its goroutine writes the copy,      *)
(* which shares the credentials map; its closure stores the credentials.   *)
OnSave ==
  /\ LockFree
  /\ mem' = [mem EXCEPT !.s = form]
  /\ save' = [pc |-> "write", p |-> name, s |-> form]
  /\ UNCHANGED <<disk, file, form, typed, remember, name, conn, auto, history>>

SaveWriteBare ==   \* slip: a file with the settings and no credentials
  /\ save.pc = "write"
  /\ WindowReplaces([s |-> save.s, creds |-> Nothing])
  /\ save' = [save EXCEPT !.pc = "done"]
  /\ UNCHANGED <<mem, form, typed, remember, name, conn, auto, touched>>

SaveWrite ==
  /\ save.pc = "write"
  /\ \/ /\ WindowReplaces([s |-> save.s, creds |-> mem.creds])
        /\ save' = [save EXCEPT !.pc = "done"]
     \/ /\ SaveFails
        /\ save' = NoSave
  /\ UNCHANGED <<mem, form, typed, remember, name, conn, auto, touched>>

SaveDone ==
  /\ save.pc = "done"
  /\ PersistCredentials(save.p)
  /\ save' = NoSave
  /\ UNCHANGED <<form, typed, remember, name, conn, auto>>

-----------------------------------------------------------------------------
Next ==
  \/ EditForm
  \/ \E p \in Profiles : OnProfileChanged(p)
  \/ OnConnect \/ ConnectOK \/ ConnectEnds
  \/ OnSave \/ SaveWrite \/ SaveDone
  \/ \E i \in AutoSaves : AutoLoad(i) \/ AutoWrite(i)

Spec == Init /\ [][Next]_vars

-----------------------------------------------------------------------------
(* No writer, however old its copy, costs a profile its credentials: those *)
(* of a profile that was neither saved nor connected in this session stay  *)
(* as they were, in memory, and in a file that can be read.  The exception *)
(* is the code's: a window whose load at start gave the defaults may put   *)
(* these in the place of the file.  Until it does, every write keeps them, *)
(* also those of auto-saves, whose own loads may fail or not.              *)
UntouchedCredsSurvive ==
  [][\A p \in Profiles : p \notin touched' =>
       /\ mem'.creds[p] = mem.creds[p]
       /\ file = "good" /\ copy' # "written" => disk'.creds[p] = disk.creds[p]]_vars

(* A store that does not decrypt is replaced only when the user saved or a *)
(* connect worked: not by starting a connect, nor by one that failed.      *)
UnreadableNotReplacedQuietly ==
  [][file = "sealed" /\ file' # "sealed" => \/ save.pc = "write" /\ save'.pc = "done"
                                            \/ conn.on /\ ~conn'.on]_vars

=============================================================================
