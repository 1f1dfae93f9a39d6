---------------------------- MODULE StoreProofs -----------------------------
(***************************************************************************)
(* What holds of Store: the types for any number of writers; with one      *)
(* writer at a time, that the key always fits the store and that the file  *)
(* is an AtomicStore, for all stores, keys and inodes; with any number of  *)
(* writers, that a key there is stays and fits.                            *)
(***************************************************************************)
EXTENDS Store, TLAPS

-----------------------------------------------------------------------------
(* Types *)

LEMMA InitTypes == Init => TypeOK
BY NoFileAssumption DEF Init, TypeOK, Contents, Names

LEMMA StepTypes == TypeOK /\ [Next]_vars => TypeOK'
<1> SUFFICES ASSUME TypeOK, [Next]_vars PROVE TypeOK'
  OBVIOUS
<1> USE NoFileAssumption DEF TypeOK, Contents, Names
<1>1. ASSUME NEW w \in Writers, NEW v \in Values, SaveStored(w, v) PROVE TypeOK'
  BY <1>1 DEF SaveStored, files
<1>2. ASSUME NEW w \in Writers, FindKey(w) PROVE TypeOK'
  BY <1>2 DEF FindKey, TakeKey, Return, files
<1>3. ASSUME NEW w \in Writers, SetKey(w) PROVE TypeOK'
  <2>1. pc[w] = "set" /\ key' \in Keys \union {NoKey}
    BY <1>3 DEF SetKey
  <2> QED
    BY <1>3, <2>1 DEF SetKey, GoTo, Return, files
<1>4. ASSUME NEW w \in Writers, OpenTmp(w) PROVE TypeOK'
  <2>1. CASE UNCHANGED <<tmp, data, handle>> /\ Return(w, "err")
    BY <1>4, <2>1 DEF OpenTmp, Return
  <2>2. ASSUME NEW f \in IF tmp = NoFile THEN Unused ELSE {tmp},
               tmp' = f, data' = [data EXCEPT ![f] = "empty"],
               handle' = [handle EXCEPT ![w] = f], GoTo(w, "write")
        PROVE  TypeOK'
    <3>1. f \in Inodes /\ f # bin
      BY DEF Unused
    <3> QED
      BY <1>4, <2>2, <3>1 DEF OpenTmp, GoTo
  <2> QED
    BY <1>4, <2>1, <2>2 DEF OpenTmp
<1>5. ASSUME NEW w \in Writers, WriteTmp(w) PROVE TypeOK'
  <2>1. handle[w] \in Inodes
    BY <1>5 DEF WriteTmp
  <2> QED
    BY <1>5, <2>1 DEF WriteTmp, GoTo, Return
<1>6. ASSUME NEW w \in Writers, RenameTmp(w) PROVE TypeOK'
  BY <1>6 DEF RenameTmp, GoTo, Return
<1>7. ASSUME NEW w \in Writers, RemoveTmp(w) PROVE TypeOK'
  BY <1>7 DEF RemoveTmp, Return
<1>8. CASE OpenBin
  BY <1>8 DEF OpenBin, files, saveVars
<1>9. CASE ReadBin
  BY <1>9 DEF ReadBin, files, saveVars
<1>10. CASE Crash
  BY <1>10 DEF Crash, files
<1>11. CASE UNCHANGED vars
  BY <1>11 DEF vars, files, saveVars
<1> QED
  BY <1>1, <1>2, <1>3, <1>4, <1>5, <1>6, <1>7, <1>8, <1>9, <1>10, <1>11 DEF Next

(* The files, names and handles of the store are always of their kinds,    *)
(* and a writer has a file open exactly between its open and its write,    *)
(* whatever fails, crashes or overlaps.                                    *)
THEOREM StoreTypes == Spec => []TypeOK
BY InitTypes, StepTypes, PTL DEF Spec

-----------------------------------------------------------------------------
(* One writer *)

OneWriter == \E w : Writers = {w}

LEMMA WriterIsOnly == OneWriter => Writers = {OnlyWriter}
BY DEF OneWriter, OnlyWriter

(* The files that names and the reader mean are complete, and the store    *)
(* is sealed with the key.                                                 *)
FilesComplete ==
  /\ bin # NoFile => data[bin] \in Values /\ key # NoKey /\ sealed[bin] = key
  /\ reader # NoFile => data[reader] \in Values /\ reader # tmp

(* What the writer knows of the key and of the temporary file: nothing     *)
(* touches them behind its back.                                           *)
WriterKnows(w) ==
  /\ pc[w] = "set" => key = NoKey /\ using[w] \in Keys
  /\ pc[w] \in {"open", "write", "rename"} => key # NoKey /\ using[w] = key
  /\ pc[w] = "write" => handle[w] = tmp /\ data[tmp] = "empty"
  /\ pc[w] = "rename" /\ tmp # NoFile => data[tmp] = value[w] /\ sealed[tmp] = key

StoreInv == TypeOK /\ FilesComplete /\ WriterKnows(OnlyWriter)

LEMMA StoreInit == OneWriter /\ Init => StoreInv
<1> SUFFICES ASSUME OneWriter, Init PROVE StoreInv
  OBVIOUS
<1>1. TypeOK
  BY InitTypes
<1>2. FilesComplete
  BY NoFileAssumption DEF Init, FilesComplete, Names
<1>3. WriterKnows(OnlyWriter)
  BY WriterIsOnly DEF Init, WriterKnows
<1> QED
  BY <1>1, <1>2, <1>3 DEF StoreInv

LEMMA StoreStep == OneWriter /\ StoreInv /\ [Next]_vars => StoreInv'
<1> SUFFICES ASSUME OneWriter, StoreInv, [Next]_vars PROVE StoreInv'
  OBVIOUS
<1>0. TypeOK'
  BY StepTypes DEF StoreInv
<1> DEFINE w == OnlyWriter
<1> HIDE DEF w
<1>w. Writers = {w}
  BY WriterIsOnly DEF w
<1>i. TypeOK /\ FilesComplete /\ WriterKnows(w)
  BY DEF StoreInv, w
<1> SUFFICES FilesComplete' /\ WriterKnows(w)'
  BY <1>0 DEF StoreInv, w
<1> USE NoFileAssumption, NoKeyAssumption, <1>w, <1>i
    DEF TypeOK, FilesComplete, WriterKnows, Contents, Names
<1>1. ASSUME NEW v \in Values, SaveStored(w, v) PROVE FilesComplete' /\ WriterKnows(w)'
  BY <1>1 DEF SaveStored, files
<1>2. CASE FindKey(w)
  BY <1>2 DEF FindKey, TakeKey, Return, files
<1>3. CASE SetKey(w)
  BY <1>3 DEF SetKey, GoTo, Return, files
<1>4. CASE OpenTmp(w)
  <2>1. CASE UNCHANGED <<tmp, data, handle>> /\ Return(w, "err")
    BY <1>4, <2>1 DEF OpenTmp, Return
  <2>2. ASSUME NEW f \in IF tmp = NoFile THEN Unused ELSE {tmp},
               tmp' = f, data' = [data EXCEPT ![f] = "empty"],
               handle' = [handle EXCEPT ![w] = f], GoTo(w, "write")
        PROVE  FilesComplete' /\ WriterKnows(w)'
    <3>1. f \in Inodes /\ f # bin /\ f # reader
      BY DEF Unused, Open
    <3> QED
      BY <1>4, <2>2, <3>1 DEF OpenTmp, GoTo
  <2> QED
    BY <1>4, <2>1, <2>2 DEF OpenTmp
<1>5. CASE WriteTmp(w)
  <2>1. handle[w] = tmp /\ tmp \in Inodes /\ tmp # bin /\ tmp # reader
    BY <1>5 DEF WriteTmp
  <2> QED
    BY <1>5, <2>1 DEF WriteTmp, GoTo, Return
<1>6. CASE RenameTmp(w)
  BY <1>6 DEF RenameTmp, GoTo, Return
<1>7. CASE RemoveTmp(w)
  BY <1>7 DEF RemoveTmp, Return
<1>8. CASE OpenBin
  BY <1>8 DEF OpenBin, files, saveVars
<1>9. CASE ReadBin
  BY <1>9 DEF ReadBin, files, saveVars
<1>10. CASE Crash
  BY <1>10 DEF Crash, files
<1>11. CASE UNCHANGED vars
  BY <1>11 DEF vars, files, saveVars
<1> QED
  BY <1>1, <1>2, <1>3, <1>4, <1>5, <1>6, <1>7, <1>8, <1>9, <1>10, <1>11 DEF Next

LEMMA StoreInvariant == ASSUME OneWriter PROVE Spec => []StoreInv
BY StoreInit, StoreStep, PTL DEF Spec

(* "A read failure must NEVER fall through to minting a new key": with one *)
(* writer no failure and no death of the process leaves a store that the   *)
(* key in the keychain does not open.                                      *)
THEOREM KeyAlwaysFits == ASSUME OneWriter PROVE Spec => []KeyFits
<1>1. StoreInv => KeyFits
  BY DEF StoreInv, FilesComplete, KeyFits
<1> QED
  BY <1>1, StoreInvariant, PTL

-----------------------------------------------------------------------------
(* Any number of writers *)

(* Once there is a key nobody is about to set another, and whoever seals a *)
(* file seals it with the one there is.                                    *)
KeyHeld ==
  /\ key # NoKey
  /\ \A f \in Inodes : sealed[f] = key
  /\ \A w \in Writers :
       /\ pc[w] # "set"
       /\ pc[w] \in {"open", "write"} => using[w] = key

LEMMA KeyHeldStep ==
  ASSUME TypeOK, KeyHeld, [Next]_vars
  PROVE  KeyHeld' /\ key' = key
<1> USE DEF TypeOK, KeyHeld
<1>1. ASSUME NEW w \in Writers, NEW v \in Values, SaveStored(w, v)
      PROVE  KeyHeld' /\ key' = key
  BY <1>1 DEF SaveStored, files
<1>2. ASSUME NEW w \in Writers, FindKey(w) PROVE KeyHeld' /\ key' = key
  BY <1>2 DEF FindKey, TakeKey, Return, files
<1>3. ASSUME NEW w \in Writers, SetKey(w) PROVE FALSE
  BY <1>3 DEF SetKey
<1>4. ASSUME NEW w \in Writers, OpenTmp(w) PROVE KeyHeld' /\ key' = key
  BY <1>4 DEF OpenTmp, GoTo, Return
<1>5. ASSUME NEW w \in Writers, WriteTmp(w) PROVE KeyHeld' /\ key' = key
  <2>1. using[w] = key
    BY <1>5 DEF WriteTmp
  <2>2. \A f \in Inodes : sealed'[f] = key
    BY <1>5, <2>1 DEF WriteTmp
  <2>3. \A v \in Writers : pc'[v] \in {"open", "write", "set"} => pc[v] = pc'[v] /\ using'[v] = using[v]
    BY <1>5 DEF WriteTmp, GoTo, Return
  <2> QED
    BY <1>5, <2>2, <2>3 DEF WriteTmp
<1>6. ASSUME NEW w \in Writers, RenameTmp(w) \/ RemoveTmp(w) PROVE KeyHeld' /\ key' = key
  BY <1>6 DEF RenameTmp, RemoveTmp, GoTo, Return
<1>7. CASE OpenBin \/ ReadBin \/ UNCHANGED vars
  BY <1>7 DEF OpenBin, ReadBin, vars, files, saveVars
<1>8. CASE Crash
  BY <1>8 DEF Crash, files
<1> QED
  BY <1>1, <1>2, <1>3, <1>4, <1>5, <1>6, <1>7, <1>8 DEF Next

(* From a start with a key (every start on Windows, every one but the      *)
(* first on macOS) the key never changes and opens the store, however many *)
(* writers there are: it is only while the first key is being made that    *)
(* two of them can lose a store.                                           *)
THEOREM KeyOnceMadeStays == Spec /\ key # NoKey => []KeyFits /\ [][UNCHANGED key]_vars
<1>1. Init /\ key # NoKey => KeyHeld
  BY DEF Init, KeyHeld
<1>2. TypeOK /\ KeyHeld /\ [Next]_vars => KeyHeld' /\ [UNCHANGED key]_vars
  BY KeyHeldStep
<1>3. TypeOK /\ KeyHeld => KeyFits
  BY DEF TypeOK, KeyHeld, KeyFits, Names
<1> QED
  BY <1>1, <1>2, <1>3, StoreTypes, PTL DEF Spec

-----------------------------------------------------------------------------
(* Refinement *)

LEMMA AtomicInit == OneWriter /\ Init => Atomic!Init
<1> SUFFICES ASSUME OneWriter, Init PROVE Atomic!Init
  OBVIOUS
<1>1. StoreInv
  BY StoreInit
<1> QED
  BY <1>1, WriterIsOnly
  DEF Init, StoreInv, FilesComplete, Content, Atomic!Init

(* Every step of the writer, the reader and the crash is one of            *)
(* AtomicStore, or changes nothing that it shows.                          *)
LEMMA AtomicStep ==
  OneWriter /\ StoreInv /\ [Next]_vars => [Atomic!Next]_(Atomic!vars)
<1> SUFFICES ASSUME OneWriter, StoreInv, [Next]_vars
             PROVE  Atomic!Next \/ UNCHANGED Atomic!vars
  OBVIOUS
<1> DEFINE w == OnlyWriter
<1>w. Writers = {w}
  BY WriterIsOnly
<1>i. TypeOK /\ FilesComplete /\ WriterKnows(w)
  BY DEF StoreInv
<1> DEFINE Idle == pc[w] = "idle"
           Saving == IF Idle THEN NoFile ELSE value[w]
           Refused == /\ Saving # NoFile /\ Saving' = NoFile
                      /\ answer'[w] = "err"
                      /\ UNCHANGED <<Content(bin), Content(reader), loaded>>
           Same == UNCHANGED <<Content(bin), Saving, answer[w], Content(reader), loaded>>
<1>r. Refused => Atomic!Next
  BY DEF Atomic!Next, Atomic!Refuse
<1>s. Same => UNCHANGED Atomic!vars
  BY DEF Atomic!vars
<1>v. value[w] \in Values /\ value[w] # NoFile
  BY <1>i, <1>w, NoFileAssumption DEF TypeOK
<1>1. ASSUME NEW v \in Values, SaveStored(w, v) PROVE Atomic!Next
  <2>1. Atomic!Save(v)
    BY <1>1, <1>w, <1>i DEF SaveStored, files, TypeOK, Content, Atomic!Save
  <2> QED
    BY <2>1 DEF Atomic!Next
<1>2. CASE FindKey(w)
  <2>1. Refused \/ Same
    BY <1>2, <1>w, <1>i, <1>v DEF FindKey, TakeKey, Return, files, TypeOK, Content
  <2> QED
    BY <2>1, <1>r, <1>s
<1>3. CASE SetKey(w)
  <2>1. Refused \/ Same
    BY <1>3, <1>w, <1>i, <1>v DEF SetKey, GoTo, Return, files, TypeOK, Content
  <2> QED
    BY <2>1, <1>r, <1>s
<1>4. CASE OpenTmp(w)
  <2>1. CASE UNCHANGED <<tmp, data, handle>> /\ Return(w, "err")
    <3>1. Refused
      BY <1>4, <2>1, <1>w, <1>i, <1>v DEF OpenTmp, Return, TypeOK, Content
    <3> QED
      BY <3>1, <1>r
  <2>2. ASSUME NEW f \in IF tmp = NoFile THEN Unused ELSE {tmp},
               data' = [data EXCEPT ![f] = "empty"], GoTo(w, "write")
        PROVE  UNCHANGED Atomic!vars
    <3>1. f \in Inodes /\ f # bin /\ f # reader
      BY <1>i, NoFileAssumption DEF Unused, Open, TypeOK, FilesComplete, Names
    <3>2. Same
      BY <1>4, <2>2, <3>1, <1>w, <1>i DEF OpenTmp, GoTo, TypeOK, Names, Content
    <3> QED
      BY <3>2, <1>s
  <2> QED
    BY <1>4, <2>1, <2>2 DEF OpenTmp
<1>5. CASE WriteTmp(w)
  <2>1. handle[w] = tmp /\ tmp \in Inodes /\ tmp # bin /\ tmp # reader
    BY <1>5, <1>w, <1>i, NoFileAssumption
    DEF WriteTmp, TypeOK, Names, FilesComplete, WriterKnows
  <2>2. UNCHANGED <<Content(bin), Content(reader), loaded>>
    BY <1>5, <2>1, <1>i DEF WriteTmp, TypeOK, Names, Content
  <2>3. Refused \/ Same
    BY <1>5, <2>2, <1>w, <1>i, <1>v DEF WriteTmp, GoTo, Return, TypeOK
  <2> QED
    BY <2>3, <1>r, <1>s
<1>6. CASE RenameTmp(w)
  <2>1. CASE tmp # NoFile /\ bin' = tmp /\ Return(w, "ok")
    <3>1. Content(bin)' = value[w]
      BY <1>6, <2>1, <1>w, <1>i DEF RenameTmp, WriterKnows, Content
    <3>2. Atomic!Replace
      BY <1>6, <2>1, <3>1, <1>w, <1>i, <1>v
      DEF RenameTmp, Return, TypeOK, Content, Atomic!Replace
    <3> QED
      BY <3>2 DEF Atomic!Next
  <2>2. CASE GoTo(w, "remove") /\ UNCHANGED <<bin, tmp>>
    <3>1. Same
      BY <1>6, <2>2, <1>w, <1>i DEF RenameTmp, GoTo, TypeOK, Content
    <3> QED
      BY <3>1, <1>s
  <2> QED
    BY <1>6, <2>1, <2>2 DEF RenameTmp
<1>7. CASE RemoveTmp(w)
  <2>1. Refused
    BY <1>7, <1>w, <1>i, <1>v DEF RemoveTmp, Return, TypeOK, Content
  <2> QED
    BY <2>1, <1>r
<1>8. CASE OpenBin
  <2>1. Atomic!StartLoad
    BY <1>8, <1>i, NoFileAssumption
    DEF OpenBin, files, saveVars, FilesComplete, Content, Atomic!StartLoad
  <2> QED
    BY <2>1 DEF Atomic!Next
<1>9. CASE ReadBin
  <2>1. Atomic!EndLoad \/ Atomic!FailLoad
    BY <1>9, <1>i, NoFileAssumption
    DEF ReadBin, files, saveVars, FilesComplete, Content, Atomic!EndLoad, Atomic!FailLoad
  <2> QED
    BY <2>1 DEF Atomic!Next
<1>10. CASE Crash
  <2>1. Atomic!Crash
    BY <1>10, <1>w DEF Crash, files, Content, Atomic!Crash
  <2> QED
    BY <2>1 DEF Atomic!Next
<1>11. CASE UNCHANGED vars
  BY <1>11, <1>s DEF vars, files, saveVars, Content
<1> QED
  BY <1>1, <1>2, <1>3, <1>4, <1>5, <1>6, <1>7, <1>8, <1>9, <1>10, <1>11, <1>w DEF Next

(* With one writer SaveStored and LoadStored implement AtomicStore: a save *)
(* replaces the whole store or answers an error, on either system, and a   *)
(* load returns the store it opened, wherever the process dies.            *)
THEOREM StoreIsAtomic == ASSUME OneWriter PROVE Spec => ReplacesAtomically
BY AtomicInit, AtomicStep, StoreInvariant, PTL DEF Spec, ReplacesAtomically, Atomic!Spec

=============================================================================
