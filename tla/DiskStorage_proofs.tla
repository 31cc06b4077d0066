-------------------------- MODULE DiskStorage_proofs --------------------------
(***************************************************************************)
(* The disk storage implements the atomic one, removes what it made, and   *)
(* finds what was stored: for any objects, parts, versions, part sizes and *)
(* callers, and however many calls and kills.                              *)
(***************************************************************************)
EXTENDS DiskStorage, TLAPS

Values == Versions \cup Sizes \cup {NoFile}
Temps == (Callers \cup {Dead}) \X Files
Dirs == [made : BOOLEAN, files : [Files -> Values], temps : SUBSET Temps]
Calls == [op : {"save", "discard", "discardPart"},
          at : {"start", "made", "open", "whole", "removing"},
          of : Objects, file : Files, new : Values]

\* What the settings file says while the storage is being opened.
SettingsAgree ==
    /\ partSize \in Sizes /\ settings \in Sizes \cup {NoFile, Torn}
    /\ up = "checked" => settings \in {NoFile, partSize}
    /\ up = "opened" => settings \in {Torn, partSize}
    /\ up = "up" => settings = partSize

\* A call writes what belongs in its file, and runs in a storage that is up.
CallOK(d) ==
    d = Idle \/ /\ d \in Calls /\ up = "up"
                /\ d.op = "save" => \/ d.file = Meta /\ d.new \in Versions
                                    \/ d.file \in Parts /\ d.new = partSize
                /\ d.op = "discardPart" => d.file \in Parts

Counted == crashes \in Nat /\ leaks \in Nat

StoreInv ==
    /\ SettingsAgree
    /\ home \in [Objects -> Dirs]
    /\ call \in [Callers -> Calls \cup {Idle}]
    /\ \A c \in Callers : CallOK(call[c])
    /\ Counted

-----------------------------------------------------------------------------
(* Directories *)

LEMMA EmptyDir == NoDir \in Dirs /\ NoDir.files = None
BY DEF NoDir, Dirs, None, Values, Temps

LEMMA DirOperators ==
    ASSUME NEW dir \in Dirs, NEW f \in Files, NEW v \in Values, NEW t \in Temps
    PROVE  /\ WithFile(dir, f, v) \in Dirs
           /\ WithFile(dir, f, v).files = [dir.files EXCEPT ![f] = v]
           /\ WithFile(dir, f, v).temps = dir.temps
           /\ WithTemp(dir, t) \in Dirs
           /\ WithTemp(dir, t).files = dir.files
           /\ WithTemp(dir, t).temps = dir.temps \cup {t}
           /\ WithoutTemp(dir, t) \in Dirs
           /\ WithoutTemp(dir, t).files = dir.files
           /\ WithoutTemp(dir, t).temps = dir.temps \ {t}
           /\ [dir EXCEPT !.made = TRUE] \in Dirs
           /\ [dir EXCEPT !.made = TRUE].files = dir.files
           /\ [dir EXCEPT !.made = TRUE].temps = dir.temps
BY DEF WithFile, WithTemp, WithoutTemp, Dirs

LEMMA OrphanedDir ==
    ASSUME NEW dir \in Dirs
    PROVE  Orphaned(dir) \in Dirs /\ Orphaned(dir).files = dir.files
BY DEF Orphaned, Dirs, Temps

LEMMA ChangedDir ==
    ASSUME home \in [Objects -> Dirs], NEW o \in Objects, NEW dir \in Dirs, Changed(o, dir)
    PROVE  /\ home' \in [Objects -> Dirs]
           /\ home'[o] = dir
           /\ \A x \in Objects \ {o} : home'[x] = home[x]
BY DEF Changed

-----------------------------------------------------------------------------
(* Calls *)

\* The goroutine whose call makes a step, and what is known of it.
LEMMA RunningCall ==
    ASSUME StoreInv, NEW c \in Callers, NEW op, NEW at, At(c, op, at), op # "none"
    PROVE  /\ call[c] \in Calls /\ call[c].op = op /\ call[c].at = at
           /\ up = "up" /\ settings = partSize /\ partSize \in Sizes
           /\ call[c].of \in Objects /\ call[c].file \in Files /\ call[c].new \in Values
           /\ home[call[c].of] \in Dirs
           /\ Temp(c) \in Temps
           /\ op = "save" => \/ call[c].file = Meta /\ call[c].new \in Versions
                             \/ call[c].file \in Parts /\ call[c].new = partSize
           /\ op = "discardPart" => call[c].file \in Parts
<1>1. call[c] \in Calls
  BY DEF StoreInv, At, Idle
<1>2. CallOK(call[c]) /\ call[c] # Idle
  BY DEF StoreInv, At, Idle
<1>3. call[c].op = op /\ call[c].at = at
  BY DEF At
<1>4. up = "up" /\ settings = partSize /\ partSize \in Sizes
  BY <1>2 DEF StoreInv, CallOK, SettingsAgree
<1>5. call[c].of \in Objects /\ call[c].file \in Files /\ call[c].new \in Values
  BY <1>1 DEF Calls
<1>6. home[call[c].of] \in Dirs
  BY <1>5 DEF StoreInv
<1>7. Temp(c) \in Temps
  BY <1>5 DEF Temp, Temps
<1>8. /\ op = "save" => \/ call[c].file = Meta /\ call[c].new \in Versions
                        \/ call[c].file \in Parts /\ call[c].new = partSize
      /\ op = "discardPart" => call[c].file \in Parts
  BY <1>2, <1>3 DEF CallOK
<1>9. QED  BY <1>1, <1>3, <1>4, <1>5, <1>6, <1>7, <1>8

\* Going on with a call, and ending it, keeps what is known of all calls.
LEMMA CallsGoOn ==
    ASSUME StoreInv, NEW c \in Callers, UNCHANGED config,
           \/ Return(c)
           \/ /\ call[c] \in Calls
              /\ \E at \in {"start", "made", "open", "whole", "removing"} : To(c, at)
           \/ UNCHANGED call
    PROVE  /\ call' \in [Callers -> Calls \cup {Idle}]
           /\ \A d \in Callers : CallOK(call[d])'
<1>1. CASE Return(c)
  BY <1>1 DEF Return, StoreInv, CallOK, config
<1>2. CASE /\ call[c] \in Calls
           /\ \E at \in {"start", "made", "open", "whole", "removing"} : To(c, at)
  <2>1. PICK at \in {"start", "made", "open", "whole", "removing"} : To(c, at)
    BY <1>2
  <2>2. /\ call' = [call EXCEPT ![c] = [call[c] EXCEPT !.at = at]]
        /\ [call[c] EXCEPT !.at = at] \in Calls
        /\ [call[c] EXCEPT !.at = at].op = call[c].op
        /\ [call[c] EXCEPT !.at = at].file = call[c].file
        /\ [call[c] EXCEPT !.at = at].new = call[c].new
    BY <1>2, <2>1 DEF To, Calls, StoreInv
  <2>3. CallOK(call[c]) /\ call[c] # Idle
    BY <1>2 DEF StoreInv, Calls, Idle
  <2>4. QED  BY <2>2, <2>3 DEF StoreInv, CallOK, config
<1>3. CASE UNCHANGED call
  BY <1>3 DEF StoreInv, CallOK, config
<1>4. QED  BY <1>1, <1>2, <1>3

\* A step of a call changes the directory of its object to another one, or none.
LEMMA StepChanges ==
    ASSUME StoreInv, NEW c \in Callers, Step(c), UNCHANGED config
    PROVE  /\ UNCHANGED home \/ \E dir \in Dirs : Changed(call[c].of, dir) /\ call[c].of \in Objects
           /\ \/ Return(c)
              \/ /\ call[c] \in Calls
                 /\ \E at \in {"start", "made", "open", "whole", "removing"} : To(c, at)
              \/ UNCHANGED call
           /\ leaks' \in Nat
<1>1. CASE MakeDir(c)
  BY <1>1, RunningCall, DirOperators DEF MakeDir, StoreInv, Counted
<1>2. CASE CreateTemp(c)
  BY <1>2, RunningCall, DirOperators DEF CreateTemp, StoreInv, Counted
<1>3. CASE CopyWhole(c)
  BY <1>3, RunningCall DEF CopyWhole, StoreInv, Counted
<1>4. CASE CopyFails(c)
  BY <1>4, RunningCall, DirOperators DEF CopyFails, StoreInv, Counted
<1>5. CASE CloseFails(c)
  <2>1. /\ At(c, "save", "open") /\ Return(c) /\ leaks' \in Nat
        /\ Changed(call[c].of, IF Temp(c) \in home[call[c].of].temps
                    THEN WithTemp(WithoutTemp(home[call[c].of], Temp(c)), <<Dead, call[c].file>>)
                    ELSE home[call[c].of])
    BY <1>5 DEF CloseFails, StoreInv, Counted
  <2>2. /\ call[c].of \in Objects /\ home[call[c].of] \in Dirs /\ Temp(c) \in Temps
        /\ <<Dead, call[c].file>> \in Temps
    BY <2>1, RunningCall DEF Temps
  <2>3. WithTemp(WithoutTemp(home[call[c].of], Temp(c)), <<Dead, call[c].file>>) \in Dirs
    BY <2>2, DirOperators DEF WithTemp, WithoutTemp, Dirs
  <2>4. QED  BY <2>1, <2>2, <2>3
<1>6. CASE RenameTemp(c)
  <2>1. /\ At(c, "save", "whole") /\ Return(c) /\ leaks' = leaks
        /\ Changed(call[c].of, IF Temp(c) \in home[call[c].of].temps
                    THEN WithFile(WithoutTemp(home[call[c].of], Temp(c)), call[c].file, call[c].new)
                    ELSE home[call[c].of])
    BY <1>6 DEF RenameTemp
  <2>2. /\ call[c].of \in Objects /\ home[call[c].of] \in Dirs /\ Temp(c) \in Temps
        /\ call[c].file \in Files /\ call[c].new \in Values
    BY <2>1, RunningCall
  <2>3. WithFile(WithoutTemp(home[call[c].of], Temp(c)), call[c].file, call[c].new) \in Dirs
    BY <2>2, DirOperators DEF WithFile, WithoutTemp, Dirs
  <2>4. QED  BY <2>1, <2>2, <2>3 DEF StoreInv, Counted
<1>7. CASE RemovePart(c)
  <2>1. /\ call[c].of \in Objects /\ home[call[c].of] \in Dirs
        /\ call[c].file \in Files /\ NoFile \in Values
    BY <1>7, RunningCall DEF RemovePart, Values
  <2>2. WithFile(home[call[c].of], call[c].file, NoFile) \in Dirs
    BY <2>1 DEF WithFile, Dirs
  <2>3. QED  BY <1>7, <2>1, <2>2 DEF RemovePart, StoreInv, Counted
<1>8. CASE MoveAway(c)
  BY <1>8, RunningCall, EmptyDir DEF MoveAway, StoreInv, Counted
<1>9. CASE RemoveAll(c)
  BY <1>9 DEF RemoveAll, StoreInv, Counted
<1>10. QED  BY <1>1, <1>2, <1>3, <1>4, <1>5, <1>6, <1>7, <1>8, <1>9 DEF Step

-----------------------------------------------------------------------------
(* The invariant is inductive *)

LEMMA InitStoreInv == Init => StoreInv
BY EmptyDir, DiskAssumption DEF Init, StoreInv, SettingsAgree, CallOK, Counted

\* A kill leaves the directories, whose temporary files now belong to nobody.
LEMMA CrashStoreInv ==
    ASSUME StoreInv, Crash, UNCHANGED <<settings, calls, leaks>>
    PROVE  StoreInv'
<1>1. home' \in [Objects -> Dirs]
  BY OrphanedDir DEF Crash, StoreInv
<1>2. SettingsAgree'
  BY DEF Crash, StoreInv, SettingsAgree
<1>3. call' = [c \in Callers |-> Idle] /\ crashes' = crashes + 1
  BY DEF Crash
<1>4. QED  BY <1>1, <1>2, <1>3 DEF StoreInv, CallOK, Counted

LEMMA BegunCall ==
    ASSUME NEW c \in Callers, NEW o \in Objects, NEW f \in Files, NEW v \in Values,
           NEW op \in {"save", "discard", "discardPart"}, Begin(c, op, o, f, v),
           op = "save" => (f = Meta /\ v \in Versions) \/ (f \in Parts /\ v = partSize),
           op = "discardPart" => f \in Parts
    PROVE  \E d \in Calls : call' = [call EXCEPT ![c] = d] /\ CallOK(d)
<1> DEFINE d == [op |-> op, at |-> "start", of |-> o, file |-> f, new |-> v]
<1>1. d \in Calls
  BY DEF Calls
<1>2. CallOK(d)
  BY <1>1 DEF Begin, CallOK
<1>3. call' = [call EXCEPT ![c] = d]
  BY DEF Begin
<1>4. QED  BY <1>1, <1>2, <1>3

LEMMA NextStoreInv ==
    ASSUME StoreInv, [Next]_vars
    PROVE  StoreInv'
<1>1. CASE Start /\ UNCHANGED <<disk, call, counters>>
  <2>1. SettingsAgree'
    BY <1>1 DEF Start, CheckSettings, OpenSettings, WriteSettings, StoreInv, SettingsAgree
  <2>2. up # "up"
    BY <1>1 DEF Start, CheckSettings, OpenSettings, WriteSettings
  <2>3. \A c \in Callers : call[c] = Idle
    BY <2>2 DEF StoreInv, CallOK
  <2>4. QED  BY <1>1, <2>1, <2>3 DEF StoreInv, CallOK, Counted, disk, counters
<1>2. ASSUME NEW c \in Callers, Call(c), UNCHANGED <<config, disk, crashes, leaks>>
      PROVE  StoreInv'
  <2>1. PICK o \in Objects : SaveMetadata(c, o) \/ SavePart(c, o) \/ Discard(c, o) \/ DiscardPart(c, o)
    BY <1>2 DEF Call
  <2>2. up = "up" /\ partSize \in Sizes /\ UNCHANGED <<config, home, crashes, leaks>>
    BY <1>2, <2>1 DEF SaveMetadata, SavePart, Discard, DiscardPart, Begin, StoreInv,
                      SettingsAgree, disk
  <2>3. PICK d \in Calls : call' = [call EXCEPT ![c] = d] /\ CallOK(d)
    <3>1. CASE SaveMetadata(c, o)
      BY <3>1, BegunCall DEF SaveMetadata, Files, Values
    <3>2. CASE SavePart(c, o)
      BY <3>2, <2>2, BegunCall DEF SavePart, Files, Values
    <3>3. CASE Discard(c, o)
      BY <3>3, BegunCall DEF Discard, Files, Values
    <3>4. CASE DiscardPart(c, o)
      BY <3>4, BegunCall DEF DiscardPart, Files, Values
    <3>5. QED  BY <2>1, <3>1, <3>2, <3>3, <3>4
  <2>4. CallOK(d)'
    BY <2>2, <2>3 DEF CallOK, config
  <2>5. QED  BY <2>2, <2>3, <2>4 DEF StoreInv, CallOK, SettingsAgree, Counted, config
<1>3. ASSUME NEW c \in Callers, Step(c), UNCHANGED <<config, leftover, walk, calls, crashes>>
      PROVE  StoreInv'
  <2>1. UNCHANGED config
    BY <1>3
  <2>2. home' \in [Objects -> Dirs]
    BY <1>3, <2>1, StepChanges, ChangedDir DEF StoreInv
  <2>3. /\ call' \in [Callers -> Calls \cup {Idle}]
        /\ \A d \in Callers : CallOK(call[d])'
    BY <1>3, <2>1, StepChanges, CallsGoOn
  <2>4. Counted'
    BY <1>3, <2>1, StepChanges DEF StoreInv, Counted
  <2>5. SettingsAgree'
    BY <2>1 DEF StoreInv, SettingsAgree, config
  <2>6. QED  BY <2>2, <2>3, <2>4, <2>5 DEF StoreInv
<1>4. CASE Iterate /\ UNCHANGED <<config, disk, call, counters>>
  BY <1>4 DEF StoreInv, SettingsAgree, CallOK, Counted, config, disk, counters
<1>5. CASE Crash /\ UNCHANGED <<settings, calls, leaks>>
  BY <1>5, CrashStoreInv
<1>6. CASE UNCHANGED vars
  BY <1>6 DEF StoreInv, SettingsAgree, CallOK, Counted, vars, config, disk, counters
<1>7. QED  BY <1>1, <1>2, <1>3, <1>4, <1>5, <1>6 DEF Next

LEMMA StoreInvHolds == Spec => []StoreInv
BY InitStoreInv, NextStoreInv, PTL DEF Spec

-----------------------------------------------------------------------------
(* What is stored *)

Stored == [o \in Objects |-> home[o].files]
Size == IF settings \in Sizes THEN settings ELSE NoFile

\* Changing one directory changes what is stored of one object.
LEMMA StoredChanges ==
    ASSUME home \in [Objects -> Dirs], NEW o \in Objects, NEW dir \in Dirs, Changed(o, dir)
    PROVE  /\ dir.files = home[o].files => Stored' = Stored
           /\ \A f \in Files, v \in Values :
                 dir.files = [home[o].files EXCEPT ![f] = v] => Stored' = [Stored EXCEPT ![o][f] = v]
           /\ dir.files = None => Stored' = [Stored EXCEPT ![o] = None]
<1>1. \A x \in Objects : home'[x].files = IF x = o THEN dir.files ELSE home[x].files
  BY DEF Changed
<1>2. Stored' = [x \in Objects |-> IF x = o THEN dir.files ELSE home[x].files]
  BY <1>1 DEF Stored
<1>3. dir.files = home[o].files => Stored' = Stored
  BY <1>2 DEF Stored
<1>4. ASSUME NEW f \in Files, NEW v \in Values, dir.files = [home[o].files EXCEPT ![f] = v]
      PROVE  Stored' = [Stored EXCEPT ![o][f] = v]
  BY <1>2, <1>4 DEF Stored
<1>5. dir.files = None => Stored' = [Stored EXCEPT ![o] = None]
  BY <1>2 DEF Stored
<1>6. QED  BY <1>3, <1>4, <1>5

\* The steps of the atomic storage, of what is stored.
LEMMA AbstractSteps ==
    ASSUME Size' = Size, NEW o \in Objects
    PROVE  /\ \A v \in Versions : Stored' = [Stored EXCEPT ![o][Meta] = v] => Storage!Next
           /\ \A f \in Parts :
                 /\ Size # NoFile /\ Stored' = [Stored EXCEPT ![o][f] = Size] => Storage!Next
                 /\ Stored' = [Stored EXCEPT ![o][f] = NoFile] => Storage!Next
           /\ Stored' = [Stored EXCEPT ![o] = None] => Storage!Next
<1>1. ASSUME NEW v \in Versions, Stored' = [Stored EXCEPT ![o][Meta] = v] PROVE Storage!Next
  BY <1>1 DEF Storage!Next, Storage!SaveMetadata, Stored, Size
<1>2. ASSUME NEW f \in Parts, Size # NoFile, Stored' = [Stored EXCEPT ![o][f] = Size] PROVE Storage!Next
  BY <1>2 DEF Storage!Next, Storage!SavePart, Stored, Size
<1>3. ASSUME NEW f \in Parts, Stored' = [Stored EXCEPT ![o][f] = NoFile] PROVE Storage!Next
  BY <1>3 DEF Storage!Next, Storage!DiscardPart, Stored, Size
<1>4. ASSUME Stored' = [Stored EXCEPT ![o] = None] PROVE Storage!Next
  BY <1>4 DEF Storage!Next, Storage!Discard, Storage!Nothing, None, Files, Stored, Size
<1>5. QED  BY <1>1, <1>2, <1>3, <1>4

\* A step of a call stores one file, removes one, takes an object away, or none of it.
LEMMA StepStores ==
    ASSUME StoreInv, NEW c \in Callers, Step(c), UNCHANGED <<config, leftover, walk, calls, crashes>>
    PROVE  Size' = Size /\ (Storage!Next \/ Stored' = Stored)
<1>1. Size' = Size
  BY DEF config, Size
<1>2. home \in [Objects -> Dirs]
  BY DEF StoreInv
<1>3. CASE MakeDir(c) \/ CreateTemp(c) \/ CopyFails(c)
  <2> DEFINE o == call[c].of
  <2>1. At(c, "save", "start") \/ At(c, "save", "made") \/ At(c, "save", "open")
    BY <1>3 DEF MakeDir, CreateTemp, CopyFails
  <2>2. o \in Objects /\ home[o] \in Dirs /\ Temp(c) \in Temps
    BY <2>1, RunningCall
  <2>3. \A dir \in Dirs : dir.files = home[o].files /\ Changed(o, dir) => Stored' = Stored
    BY <1>2, <2>2, StoredChanges
  <2>4. CASE MakeDir(c)
    BY <1>1, <2>2, <2>3, <2>4, DirOperators DEF MakeDir, Dirs
  <2>5. CASE CreateTemp(c)
    BY <1>1, <2>2, <2>3, <2>5 DEF CreateTemp, WithTemp, Dirs, Stored
  <2>6. CASE CopyFails(c)
    BY <1>1, <2>2, <2>3, <2>6 DEF CopyFails, WithoutTemp, Dirs
  <2>7. QED  BY <1>3, <2>4, <2>5, <2>6
<1>4. CASE CloseFails(c)
  <2> DEFINE o == call[c].of
             dir == IF Temp(c) \in home[o].temps
                    THEN WithTemp(WithoutTemp(home[o], Temp(c)), <<Dead, call[c].file>>)
                    ELSE home[o]
  <2>1. At(c, "save", "open") /\ Changed(o, dir)
    BY <1>4 DEF CloseFails
  <2>2. /\ o \in Objects /\ home[o] \in Dirs /\ Temp(c) \in Temps
        /\ <<Dead, call[c].file>> \in Temps
    BY <2>1, RunningCall DEF Temps
  <2>3. dir \in Dirs /\ dir.files = home[o].files
    BY <2>2 DEF WithTemp, WithoutTemp, Dirs
  <2> HIDE DEF dir
  <2>4. QED  BY <1>1, <1>2, <2>1, <2>2, <2>3, StoredChanges
<1>5. CASE CopyWhole(c) \/ RemoveAll(c)
  BY <1>1, <1>5 DEF CopyWhole, RemoveAll, Stored
<1>6. CASE RenameTemp(c)
  <2> DEFINE o == call[c].of
             f == call[c].file
             new == WithFile(WithoutTemp(home[o], Temp(c)), f, call[c].new)
  <2>1. At(c, "save", "whole") /\ Changed(o, IF Temp(c) \in home[o].temps THEN new ELSE home[o])
    BY <1>6 DEF RenameTemp
  <2>2. /\ o \in Objects /\ home[o] \in Dirs /\ Temp(c) \in Temps
        /\ f \in Files /\ call[c].new \in Values
        /\ settings = partSize /\ partSize \in Sizes
        /\ (f = Meta /\ call[c].new \in Versions) \/ (f \in Parts /\ call[c].new = partSize)
    BY <2>1, RunningCall
  <2>3. new \in Dirs /\ new.files = [home[o].files EXCEPT ![f] = call[c].new]
    BY <2>2 DEF WithFile, WithoutTemp, Dirs
  <2> HIDE DEF new
  <2>4. CASE Temp(c) \notin home[o].temps
    BY <1>1, <1>2, <2>1, <2>2, <2>4, StoredChanges
  <2>5. CASE Temp(c) \in home[o].temps
    <3>1. Stored' = [Stored EXCEPT ![o][f] = call[c].new]
      BY <1>2, <2>1, <2>2, <2>3, <2>5, StoredChanges
    <3>2. CASE f = Meta /\ call[c].new \in Versions
      BY <1>1, <2>2, <3>1, <3>2, AbstractSteps
    <3>3. CASE f \in Parts /\ call[c].new = partSize
      <4>1. Size = partSize /\ Size # NoFile
        BY <2>2, DiskAssumption DEF Size
      <4>2. QED  BY <1>1, <2>2, <3>1, <3>3, <4>1, AbstractSteps
    <3>4. QED  BY <1>1, <2>2, <3>2, <3>3
  <2>6. QED  BY <2>4, <2>5
<1>7. CASE RemovePart(c)
  <2> DEFINE o == call[c].of
             f == call[c].file
  <2>1. /\ o \in Objects /\ home[o] \in Dirs /\ f \in Parts /\ f \in Files /\ NoFile \in Values
        /\ Changed(o, WithFile(home[o], f, NoFile))
    BY <1>7, RunningCall DEF RemovePart, Values
  <2>2. /\ WithFile(home[o], f, NoFile) \in Dirs
        /\ WithFile(home[o], f, NoFile).files = [home[o].files EXCEPT ![f] = NoFile]
    BY <2>1 DEF WithFile, Dirs
  <2>3. Stored' = [Stored EXCEPT ![o][f] = NoFile]
    BY <1>2, <2>1, <2>2, StoredChanges
  <2>4. QED  BY <1>1, <2>1, <2>3, AbstractSteps
<1>8. CASE MoveAway(c)
  <2> DEFINE o == call[c].of
  <2>1. o \in Objects /\ (UNCHANGED home \/ Changed(o, NoDir))
    BY <1>8, RunningCall DEF MoveAway
  <2>2. CASE UNCHANGED home
    BY <1>1, <2>2 DEF Stored
  <2>3. CASE Changed(o, NoDir)
    <3>1. Stored' = [Stored EXCEPT ![o] = None]
      BY <1>2, <2>1, <2>3, EmptyDir, StoredChanges
    <3>2. QED  BY <1>1, <2>1, <3>1, AbstractSteps
  <2>4. QED  BY <2>1, <2>2, <2>3
<1>9. QED  BY <1>3, <1>4, <1>5, <1>6, <1>7, <1>8 DEF Step

\* Writing the settings for the first time opens the storage; nothing else is seen
\* of a start.
LEMMA StartOpens ==
    ASSUME StoreInv, Start, UNCHANGED <<disk, call, counters>>
    PROVE  Stored' = Stored /\ (Storage!Open \/ Size' = Size)
<1>1. Stored' = Stored
  BY DEF Stored, disk
<1>2. SettingsAgree
  BY DEF StoreInv
<1>3. CASE CheckSettings
  BY <1>1, <1>3 DEF CheckSettings, Size
<1>4. CASE OpenSettings
  BY <1>1, <1>2, <1>4, DiskAssumption DEF OpenSettings, Size
<1>5. CASE WriteSettings
  <2>1. settings' = partSize /\ partSize \in Sizes /\ (settings = Torn \/ settings = partSize)
    BY <1>2, <1>5 DEF WriteSettings, SettingsAgree
  <2>2. CASE settings = partSize
    BY <1>1, <2>1, <2>2 DEF Size
  <2>3. CASE settings = Torn
    <3>1. Size = NoFile /\ Size' = partSize
      BY <2>1, <2>3, DiskAssumption DEF Size
    <3>2. QED  BY <1>1, <2>1, <3>1 DEF Storage!Open, Size, Stored
  <2>4. QED  BY <2>1, <2>2, <2>3
<1>6. QED  BY <1>1, <1>3, <1>4, <1>5 DEF Start

\* Every behaviour of the disk storage is one of the atomic storage: each file and each
\* object is stored, replaced or gone at one instant, whatever the callers do together
\* and wherever the process is killed (storage/disk/impl.go).
THEOREM DiskImplementsStorage == Spec => ImplementsStorage
<1>1. Init => Storage!Init
  BY EmptyDir, DiskAssumption DEF Init, Storage!Init, Storage!Nothing, None, Files
<1>2. ASSUME StoreInv, [Next]_vars
      PROVE  [Storage!Next]_<<Stored, Size>>
  <2>1. CASE Start /\ UNCHANGED <<disk, call, counters>>
    BY <1>2, <2>1, StartOpens DEF Storage!Next
  <2>2. ASSUME NEW c \in Callers, Call(c), UNCHANGED <<config, disk, crashes, leaks>>
        PROVE  UNCHANGED <<Stored, Size>>
    BY <2>2 DEF Stored, Size, config, disk
  <2>3. ASSUME NEW c \in Callers, Step(c), UNCHANGED <<config, leftover, walk, calls, crashes>>
        PROVE  [Storage!Next]_<<Stored, Size>>
    BY <1>2, <2>3, StepStores
  <2>4. CASE Iterate /\ UNCHANGED <<config, disk, call, counters>>
    BY <2>4 DEF Stored, Size, config, disk
  <2>5. CASE Crash /\ UNCHANGED <<settings, calls, leaks>>
    <3>1. \A o \in Objects : home'[o].files = home[o].files
      BY <1>2, <2>5, OrphanedDir DEF Crash, StoreInv
    <3>2. QED  BY <2>5, <3>1 DEF Stored, Size
  <2>6. CASE UNCHANGED vars
    BY <2>6 DEF vars, config, disk, Stored, Size
  <2>7. QED  BY <1>2, <2>1, <2>2, <2>3, <2>4, <2>5, <2>6 DEF Next
<1>3. StoreInv /\ [Next]_vars => [Storage!Next]_<<[o \in Objects |-> home[o].files], IF settings \in Sizes THEN settings ELSE NoFile>>
  BY <1>2 DEF Stored, Size
<1>4. QED  BY <1>1, <1>3, StoreInvHolds, PTL DEF Spec, ImplementsStorage, Storage!Spec

-----------------------------------------------------------------------------
(* What is left behind *)

\* A directory that is not there has nothing in it.
Made == \A o \in Objects : ~home[o].made => home[o] = NoDir

LEMMA StepMade ==
    ASSUME StoreInv, Made, NEW c \in Callers, Step(c)
    PROVE  Made'
<1> DEFINE o == call[c].of
<1>1. home \in [Objects -> Dirs]
  BY DEF StoreInv
<1>2. ASSUME NEW x \in Objects, NEW dir \in Dirs, Changed(x, dir), ~dir.made => dir = NoDir
      PROVE  Made'
  BY <1>1, <1>2, ChangedDir DEF Made
<1>3. CASE MakeDir(c)
  <2>1. o \in Objects /\ home[o] \in Dirs /\ Changed(o, [home[o] EXCEPT !.made = TRUE])
    BY <1>3, RunningCall DEF MakeDir
  <2>2. [home[o] EXCEPT !.made = TRUE] \in Dirs /\ [home[o] EXCEPT !.made = TRUE].made
    BY <2>1 DEF Dirs
  <2>3. QED  BY <1>2, <2>1, <2>2
<1>4. CASE CreateTemp(c)
  <2>1. o \in Objects /\ home[o] \in Dirs /\ Temp(c) \in Temps
    BY <1>4, RunningCall DEF CreateTemp
  <2>2. CASE home[o].made
    <3>1. /\ Changed(o, WithTemp(home[o], Temp(c)))
          /\ WithTemp(home[o], Temp(c)) \in Dirs /\ WithTemp(home[o], Temp(c)).made
      BY <1>4, <2>1, <2>2 DEF CreateTemp, WithTemp, Dirs
    <3>2. QED  BY <1>2, <2>1, <3>1
  <2>3. CASE ~home[o].made
    BY <1>4, <2>3 DEF CreateTemp, Made
  <2>4. QED  BY <2>2, <2>3
<1>5. CASE CopyFails(c)
  <2>1. /\ o \in Objects /\ home[o] \in Dirs /\ Temp(c) \in Temps
        /\ Changed(o, WithoutTemp(home[o], Temp(c)))
    BY <1>5, RunningCall DEF CopyFails
  <2>2. /\ WithoutTemp(home[o], Temp(c)) \in Dirs
        /\ WithoutTemp(home[o], Temp(c)).made = home[o].made
    BY <2>1 DEF WithoutTemp, Dirs
  <2>3. WithoutTemp(NoDir, Temp(c)) = NoDir
    <3>1. NoDir.temps \ {Temp(c)} = NoDir.temps
      BY DEF NoDir
    <3>2. QED  BY <3>1 DEF WithoutTemp, NoDir
  <2>4. QED  BY <1>2, <2>1, <2>2, <2>3 DEF Made
<1>6. CASE CloseFails(c)
  <2> DEFINE new == WithTemp(WithoutTemp(home[o], Temp(c)), <<Dead, call[c].file>>)
  <2>1. /\ o \in Objects /\ home[o] \in Dirs /\ Temp(c) \in Temps /\ call[c].file \in Files
        /\ Changed(o, IF Temp(c) \in home[o].temps THEN new ELSE home[o])
    BY <1>6, RunningCall DEF CloseFails
  <2>2. new \in Dirs /\ new.made = home[o].made
    <3>1. <<Dead, call[c].file>> \in Temps
      BY <2>1 DEF Temps
    <3>2. QED  BY <2>1, <3>1 DEF WithTemp, WithoutTemp, Dirs
  <2>3. Temp(c) \in home[o].temps => home[o].made
    BY <2>1 DEF Made, NoDir
  <2> HIDE DEF new
  <2>4. QED  BY <1>2, <2>1, <2>2, <2>3 DEF Made
<1>7. CASE RenameTemp(c)
  <2> DEFINE new == WithFile(WithoutTemp(home[o], Temp(c)), call[c].file, call[c].new)
  <2>1. /\ o \in Objects /\ home[o] \in Dirs /\ Temp(c) \in Temps /\ call[c].file \in Files
        /\ call[c].new \in Values
        /\ Changed(o, IF Temp(c) \in home[o].temps THEN new ELSE home[o])
    BY <1>7, RunningCall DEF RenameTemp
  <2>2. new \in Dirs /\ new.made = home[o].made
    BY <2>1 DEF WithFile, WithoutTemp, Dirs
  <2>3. Temp(c) \in home[o].temps => home[o].made
    BY <2>1 DEF Made, NoDir
  <2> HIDE DEF new
  <2>4. QED  BY <1>2, <2>1, <2>2, <2>3 DEF Made
<1>8. CASE RemovePart(c)
  <2>1. /\ o \in Objects /\ home[o] \in Dirs /\ call[c].file \in Files
        /\ Changed(o, WithFile(home[o], call[c].file, NoFile))
    BY <1>8, RunningCall DEF RemovePart
  <2>2. /\ WithFile(home[o], call[c].file, NoFile) \in Dirs
        /\ WithFile(home[o], call[c].file, NoFile).made = home[o].made
        /\ home[o] = NoDir => WithFile(home[o], call[c].file, NoFile) = NoDir
    BY <2>1 DEF WithFile, Dirs, NoDir, None, Values
  <2>3. QED  BY <1>2, <2>1, <2>2 DEF Made
<1>9. CASE MoveAway(c)
  <2>1. o \in Objects /\ (UNCHANGED home \/ Changed(o, NoDir))
    BY <1>9, RunningCall DEF MoveAway
  <2>2. QED  BY <1>2, <2>1, EmptyDir DEF Made
<1>10. CASE CopyWhole(c) \/ RemoveAll(c)
  BY <1>10 DEF CopyWhole, RemoveAll, Made
<1>11. QED  BY <1>3, <1>4, <1>5, <1>6, <1>7, <1>8, <1>9, <1>10 DEF Step

\* A temporary file belongs to the call that saves under it, or to nobody.
TempsOwned ==
    \A o \in Objects : \A t \in home[o].temps :
        \/ t[1] = Dead /\ leaks + crashes > 0
        \/ t[1] # Dead /\ call[t[1]].op = "save" /\ call[t[1]].of = o /\ call[t[1]].file = t[2]

\* A call that ends leaves no temporary file of its own.
LEMMA EndOwned ==
    ASSUME StoreInv, TempsOwned, NEW c \in Callers, call[c].op = "save", Return(c),
           leaks' = leaks, crashes' = crashes,
           NEW o \in Objects, o = call[c].of, NEW dir \in Dirs, Changed(o, dir),
           dir.temps \subseteq home[o].temps \ {Temp(c)}
    PROVE  TempsOwned'
<1> SUFFICES ASSUME NEW x \in Objects, NEW t \in home'[x].temps
             PROVE  \/ t[1] = Dead /\ leaks' + crashes' > 0
                    \/ /\ t[1] # Dead /\ call'[t[1]].op = "save"
                       /\ call'[t[1]].of = x /\ call'[t[1]].file = t[2]
  BY DEF TempsOwned
<1>1. home \in [Objects -> Dirs] /\ home[x] \in Dirs
  BY DEF StoreInv
<1>2. t \in home[x].temps /\ (x = o => t # Temp(c))
  BY <1>1, ChangedDir
<1>3. t \in Temps
  BY <1>1, <1>2 DEF Dirs
<1>4. CASE t[1] = Dead
  BY <1>2, <1>4, DiskAssumption DEF TempsOwned, StoreInv, Counted
<1>5. CASE t[1] # Dead
  <2>1. t[1] \in Callers /\ t = <<t[1], t[2]>>
    BY <1>3, <1>5 DEF Temps
  <2>2. call[t[1]].op = "save" /\ call[t[1]].of = x /\ call[t[1]].file = t[2]
    BY <1>2, <1>5 DEF TempsOwned
  <2>3. t[1] # c
    BY <1>2, <2>1, <2>2 DEF Temp
  <2>4. call'[t[1]] = call[t[1]]
    BY <2>1, <2>3 DEF Return, StoreInv
  <2>5. QED  BY <1>5, <2>2, <2>4
<1>6. QED  BY <1>4, <1>5

\* Other steps add no temporary file and leave the saves as they are.
LEMMA OthersOwned ==
    ASSUME StoreInv, TempsOwned, leaks' = leaks, crashes' = crashes,
           \A o \in Objects : home'[o].temps \subseteq home[o].temps,
           \A c \in Callers : call[c].op = "save" =>
               call'[c].op = "save" /\ call'[c].of = call[c].of /\ call'[c].file = call[c].file
    PROVE  TempsOwned'
<1> SUFFICES ASSUME NEW x \in Objects, NEW t \in home'[x].temps
             PROVE  \/ t[1] = Dead /\ leaks' + crashes' > 0
                    \/ /\ t[1] # Dead /\ call'[t[1]].op = "save"
                       /\ call'[t[1]].of = x /\ call'[t[1]].file = t[2]
  BY DEF TempsOwned
<1>1. t \in home[x].temps /\ t \in Temps
  BY DEF StoreInv, Dirs
<1>2. CASE t[1] = Dead
  BY <1>1, <1>2, DiskAssumption DEF TempsOwned
<1>3. CASE t[1] # Dead
  BY <1>1, <1>3 DEF TempsOwned, Temps
<1>4. QED  BY <1>2, <1>3

LEMMA StepOwned ==
    ASSUME StoreInv, Made, TempsOwned, NEW c \in Callers, Step(c), UNCHANGED <<config, crashes>>
    PROVE  TempsOwned'
<1> DEFINE o == call[c].of
<1>1. home \in [Objects -> Dirs] /\ call \in [Callers -> Calls \cup {Idle}]
  BY DEF StoreInv
<1>2. CASE MakeDir(c)
  <2>1. o \in Objects /\ home[o] \in Dirs /\ call[c] \in Calls
    BY <1>2, RunningCall DEF MakeDir
  <2>2. \A x \in Objects : home'[x].temps = home[x].temps
    BY <1>1, <1>2, <2>1 DEF MakeDir, Changed, Dirs
  <2>3. call'[c].op = call[c].op /\ call'[c].of = call[c].of /\ call'[c].file = call[c].file
    BY <1>1, <1>2, <2>1 DEF MakeDir, To, Calls
  <2>4. \A d \in Callers \ {c} : call'[d] = call[d]
    BY <1>1, <1>2 DEF MakeDir, To
  <2>5. QED  BY <1>2, <2>2, <2>3, <2>4, OthersOwned DEF MakeDir
<1>3. CASE CreateTemp(c)
  <2>1. /\ o \in Objects /\ home[o] \in Dirs /\ call[c] \in Calls /\ Temp(c) \in Temps
        /\ call[c].op = "save"
    BY <1>3, RunningCall DEF CreateTemp
  <2>2. CASE home[o].made
    <3>1. /\ home'[o].temps = home[o].temps \cup {Temp(c)}
          /\ \A x \in Objects \ {o} : home'[x] = home[x]
      BY <1>1, <1>3, <2>1, <2>2 DEF CreateTemp, Changed, WithTemp, Dirs
    <3>2. call'[c].op = call[c].op /\ call'[c].of = call[c].of /\ call'[c].file = call[c].file
      BY <1>1, <1>3, <2>1, <2>2 DEF CreateTemp, To, Calls
    <3>3. \A d \in Callers \ {c} : call'[d] = call[d]
      BY <1>1, <1>3, <2>2 DEF CreateTemp, To
    <3>4. SUFFICES ASSUME NEW x \in Objects, NEW t \in home'[x].temps
                   PROVE  \/ t[1] = Dead /\ leaks' + crashes' > 0
                          \/ /\ t[1] # Dead /\ call'[t[1]].op = "save"
                             /\ call'[t[1]].of = x /\ call'[t[1]].file = t[2]
      BY DEF TempsOwned
    <3>5. CASE t \in home[x].temps
      <4>1. t \in Temps
        BY <1>1, <3>5 DEF Dirs
      <4>2. CASE t[1] = Dead
        BY <1>3, <3>5, <4>1, <4>2, DiskAssumption DEF CreateTemp, TempsOwned
      <4>3. CASE t[1] # Dead
        BY <3>2, <3>3, <3>5, <4>1, <4>3 DEF TempsOwned, Temps
      <4>4. QED  BY <4>2, <4>3
    <3>6. CASE t \notin home[x].temps
      <4>1. x = o /\ t = Temp(c)
        BY <3>1, <3>6
      <4>2. QED  BY <2>1, <3>2, <4>1, DiskAssumption DEF Temp
    <3>7. QED  BY <3>5, <3>6
  <2>3. CASE ~home[o].made
    <3>1. home[o].temps = {}
      BY <2>1, <2>3 DEF Made, NoDir
    <3>2. UNCHANGED home /\ Return(c) /\ leaks' = leaks
      BY <1>3, <2>3 DEF CreateTemp
    <3>3. Changed(o, home[o])
      BY <1>1, <3>2 DEF Changed
    <3>4. QED  BY <2>1, <3>1, <3>2, <3>3, EndOwned
  <2>4. QED  BY <2>2, <2>3
<1>4. CASE CopyWhole(c)
  <2>1. call[c] \in Calls
    BY <1>4, RunningCall DEF CopyWhole
  <2>2. call'[c].op = call[c].op /\ call'[c].of = call[c].of /\ call'[c].file = call[c].file
    BY <1>1, <1>4, <2>1 DEF CopyWhole, To, Calls
  <2>3. \A d \in Callers \ {c} : call'[d] = call[d]
    BY <1>1, <1>4 DEF CopyWhole, To
  <2>4. QED  BY <1>4, <2>2, <2>3, OthersOwned DEF CopyWhole
<1>5. CASE CopyFails(c)
  <2>1. /\ o \in Objects /\ home[o] \in Dirs /\ call[c].op = "save" /\ Temp(c) \in Temps
        /\ Return(c) /\ leaks' = leaks /\ Changed(o, WithoutTemp(home[o], Temp(c)))
    BY <1>5, RunningCall DEF CopyFails
  <2>2. /\ WithoutTemp(home[o], Temp(c)) \in Dirs
        /\ WithoutTemp(home[o], Temp(c)).temps = home[o].temps \ {Temp(c)}
    BY <2>1 DEF WithoutTemp, Dirs
  <2>3. QED  BY <2>1, <2>2, EndOwned
<1>6. CASE CloseFails(c)
  <2> DEFINE dead == <<Dead, call[c].file>>
             dir == IF Temp(c) \in home[o].temps
                    THEN WithTemp(WithoutTemp(home[o], Temp(c)), dead) ELSE home[o]
  <2>1. /\ o \in Objects /\ home[o] \in Dirs /\ call[c].op = "save" /\ Temp(c) \in Temps
        /\ call[c].file \in Files
        /\ Return(c) /\ leaks' = leaks + 1 /\ Changed(o, dir)
    BY <1>6, RunningCall DEF CloseFails
  <2>2. dir \in Dirs /\ dir.temps \subseteq (home[o].temps \ {Temp(c)}) \cup {dead}
    <3>1. dead \in Temps
      BY <2>1 DEF Temps
    <3>2. QED  BY <2>1, <3>1 DEF WithTemp, WithoutTemp, Dirs
  <2> HIDE DEF dir
  <2>3. SUFFICES ASSUME NEW x \in Objects, NEW t \in home'[x].temps
                 PROVE  \/ t[1] = Dead /\ leaks' + crashes' > 0
                        \/ /\ t[1] # Dead /\ call'[t[1]].op = "save"
                           /\ call'[t[1]].of = x /\ call'[t[1]].file = t[2]
    BY DEF TempsOwned
  <2>4. leaks' + crashes' > 0
    BY <2>1 DEF StoreInv, Counted
  <2>5. t \in (home[x].temps \ (IF x = o THEN {Temp(c)} ELSE {})) \cup {dead}
    BY <1>1, <2>1, <2>2, ChangedDir
  <2>6. CASE t[1] = Dead
    BY <2>4, <2>6
  <2>7. CASE t[1] # Dead
    <3>1. t \in home[x].temps /\ (x = o => t # Temp(c)) /\ t \in Temps
      BY <1>1, <2>5, <2>7 DEF Dirs
    <3>2. t[1] \in Callers /\ t = <<t[1], t[2]>>
      BY <3>1, <2>7 DEF Temps
    <3>3. call[t[1]].op = "save" /\ call[t[1]].of = x /\ call[t[1]].file = t[2]
      BY <3>1, <2>7 DEF TempsOwned
    <3>4. t[1] # c
      BY <3>1, <3>2, <3>3 DEF Temp
    <3>5. call'[t[1]] = call[t[1]]
      BY <1>1, <2>1, <3>2, <3>4 DEF Return
    <3>6. QED  BY <2>7, <3>3, <3>5
  <2>8. QED  BY <2>6, <2>7
<1>7. CASE RenameTemp(c)
  <2> DEFINE new == WithFile(WithoutTemp(home[o], Temp(c)), call[c].file, call[c].new)
             dir == IF Temp(c) \in home[o].temps THEN new ELSE home[o]
  <2>1. /\ o \in Objects /\ home[o] \in Dirs /\ call[c].op = "save" /\ Temp(c) \in Temps
        /\ call[c].file \in Files /\ call[c].new \in Values
        /\ Return(c) /\ leaks' = leaks /\ Changed(o, dir)
    BY <1>7, RunningCall DEF RenameTemp
  <2>2. new \in Dirs /\ new.temps = home[o].temps \ {Temp(c)}
    BY <2>1 DEF WithFile, WithoutTemp, Dirs
  <2> HIDE DEF new
  <2>3. dir \in Dirs /\ dir.temps \subseteq home[o].temps \ {Temp(c)}
    BY <2>1, <2>2
  <2> HIDE DEF dir
  <2>4. QED  BY <2>1, <2>3, EndOwned
<1>8. CASE RemovePart(c)
  <2>1. /\ o \in Objects /\ home[o] \in Dirs /\ call[c].op = "discardPart" /\ call[c].file \in Files
        /\ Return(c) /\ leaks' = leaks /\ Changed(o, WithFile(home[o], call[c].file, NoFile))
    BY <1>8, RunningCall DEF RemovePart
  <2>2. \A x \in Objects : home'[x].temps = home[x].temps
    BY <1>1, <2>1 DEF WithFile, Changed, Dirs
  <2>3. \A d \in Callers \ {c} : call'[d] = call[d]
    BY <1>1, <2>1 DEF Return
  <2>4. QED  BY <2>1, <2>2, <2>3, OthersOwned
<1>9. CASE MoveAway(c)
  <2>1. /\ o \in Objects /\ call[c] \in Calls /\ call[c].op = "discard" /\ leaks' = leaks
        /\ UNCHANGED home \/ Changed(o, NoDir)
        /\ To(c, "removing") \/ Return(c)
    BY <1>9, RunningCall DEF MoveAway
  <2>2. \A x \in Objects : home'[x].temps \subseteq home[x].temps
    BY <1>1, <2>1 DEF Changed, NoDir
  <2>3. \A d \in Callers \ {c} : call'[d] = call[d]
    BY <1>1, <2>1 DEF To, Return
  <2>4. QED  BY <2>1, <2>2, <2>3, OthersOwned
<1>10. CASE RemoveAll(c)
  <2>1. call[c].op = "discard" /\ leaks' = leaks /\ UNCHANGED home
    BY <1>10 DEF RemoveAll, At
  <2>2. \A d \in Callers \ {c} : call'[d] = call[d]
    BY <1>1, <1>10 DEF RemoveAll, Return
  <2>3. QED  BY <2>1, <2>2, OthersOwned
<1>11. QED  BY <1>2, <1>3, <1>4, <1>5, <1>6, <1>7, <1>8, <1>9, <1>10 DEF Step

\* A renamed directory belongs to the Discard that removes it.
Removing ==
    /\ moved = [c \in Callers |-> moved[c]]
    /\ \A c \in Callers : moved[c] # NoDir => At(c, "discard", "removing")

LEMMA StepRemoving ==
    ASSUME StoreInv, Removing, NEW c \in Callers, Step(c)
    PROVE  Removing'
<1>1. call \in [Callers -> Calls \cup {Idle}]
  BY DEF StoreInv
<1>2. CASE MoveAway(c)
  <2>1. At(c, "discard", "start") /\ call[c] \in Calls
    BY <1>2, RunningCall DEF MoveAway
  <2>2. CASE To(c, "removing") /\ moved' = [moved EXCEPT ![c] = home[call[c].of]]
    <3>1. At(c, "discard", "removing")'
      BY <1>1, <2>1, <2>2 DEF To, At, Calls
    <3>2. \A d \in Callers \ {c} : call'[d] = call[d] /\ moved'[d] = moved[d]
      BY <1>1, <2>2 DEF To, Removing
    <3>3. moved' = [d \in Callers |-> moved'[d]]
      BY <2>2 DEF Removing
    <3>4. QED  BY <3>1, <3>2, <3>3 DEF Removing, At
  <2>3. CASE Return(c) /\ UNCHANGED moved
    <3>1. moved[c] = NoDir
      BY <2>1 DEF Removing, At
    <3>2. \A d \in Callers \ {c} : call'[d] = call[d]
      BY <1>1, <2>3 DEF Return
    <3>3. QED  BY <2>3, <3>1, <3>2 DEF Removing, At
  <2>4. QED  BY <1>2, <2>2, <2>3 DEF MoveAway
<1>3. CASE RemoveAll(c)
  <2>1. CASE UNCHANGED call
    <3>1. moved' = [d \in Callers |-> moved'[d]] /\ \A d \in Callers \ {c} : moved'[d] = moved[d]
      BY <1>3 DEF RemoveAll, Removing
    <3>2. At(c, "discard", "removing")'
      BY <1>3, <2>1 DEF RemoveAll, At
    <3>3. QED  BY <2>1, <3>1, <3>2 DEF Removing, At
  <2>2. CASE moved' = [moved EXCEPT ![c] = NoDir] /\ Return(c)
    <3>1. /\ moved' = [d \in Callers |-> moved'[d]] /\ moved'[c] = NoDir
          /\ \A d \in Callers \ {c} : moved'[d] = moved[d] /\ call'[d] = call[d]
      BY <1>1, <2>2 DEF Removing, Return
    <3>2. QED  BY <3>1 DEF Removing, At
  <2>3. QED  BY <1>3, <2>1, <2>2 DEF RemoveAll
<1>4. CASE \/ MakeDir(c) \/ CreateTemp(c) \/ CopyWhole(c) \/ CopyFails(c) \/ CloseFails(c)
           \/ RenameTemp(c) \/ RemovePart(c)
  <2>1. call[c].op # "discard" /\ UNCHANGED moved
    BY <1>4 DEF MakeDir, CreateTemp, CopyWhole, CopyFails, CloseFails, RenameTemp, RemovePart, At
  <2>2. \A d \in Callers \ {c} : call'[d] = call[d]
    BY <1>1, <1>4 DEF MakeDir, CreateTemp, CopyWhole, CopyFails, CloseFails, RenameTemp,
                      RemovePart, To, Return
  <2>3. QED  BY <2>1, <2>2 DEF Removing, At
<1>5. QED  BY <1>2, <1>3, <1>4 DEF Step

LeftInv == StoreInv /\ Made /\ TempsOwned /\ Removing

LEMMA NextLeftInv ==
    ASSUME LeftInv, [Next]_vars
    PROVE  LeftInv'
<1> USE DEF LeftInv
<1>1. StoreInv'
  BY NextStoreInv
<1>2. CASE UNCHANGED <<disk, call, counters>>
  BY <1>1, <1>2 DEF Made, TempsOwned, Removing, At, disk, counters
<1>3. ASSUME NEW c \in Callers, Call(c), UNCHANGED <<config, disk, crashes, leaks>>
      PROVE  LeftInv'
  <2>1. Made' /\ UNCHANGED <<home, moved, crashes, leaks>>
    BY <1>3 DEF Made, disk
  <2>2. call[c] = Idle /\ \A d \in Callers \ {c} : call'[d] = call[d]
    BY <1>3 DEF Call, SaveMetadata, SavePart, Discard, DiscardPart, Begin, StoreInv
  <2>3. TempsOwned'
    BY <2>1, <2>2, OthersOwned DEF Idle
  <2>4. Removing'
    BY <2>1, <2>2 DEF Removing, At, Idle
  <2>5. QED  BY <1>1, <2>1, <2>3, <2>4
<1>4. ASSUME NEW c \in Callers, Step(c), UNCHANGED <<config, leftover, walk, calls, crashes>>
      PROVE  LeftInv'
  BY <1>1, <1>4, StepMade, StepOwned, StepRemoving
<1>5. CASE Crash /\ UNCHANGED <<settings, calls, leaks>>
  <2>1. leaks' + crashes' > 0
    BY <1>5 DEF Crash, StoreInv, Counted
  <2>2. \A o \in Objects : home'[o] = Orphaned(home[o]) /\ home[o] \in Dirs
    BY <1>5 DEF Crash, StoreInv
  <2>3. Made'
    <3>1. Orphaned(NoDir) = NoDir
      <4>1. {<<Dead, t[2]>> : t \in NoDir.temps} = NoDir.temps
        BY DEF NoDir
      <4>2. QED  BY <4>1 DEF Orphaned, NoDir
    <3>2. \A o \in Objects : Orphaned(home[o]).made = home[o].made
      BY <2>2 DEF Orphaned, Dirs
    <3>3. QED  BY <2>2, <3>1, <3>2 DEF Made
  <2>4. TempsOwned'
    <3>1. ASSUME NEW o \in Objects, NEW t \in home'[o].temps PROVE t[1] = Dead
      <4>1. home'[o].temps = {<<Dead, x[2]>> : x \in home[o].temps}
        BY <2>2 DEF Orphaned, Dirs
      <4>2. QED  BY <3>1, <4>1
    <3>2. QED  BY <2>1, <3>1 DEF TempsOwned
  <2>5. Removing'
    BY <1>5 DEF Crash, Removing
  <2>6. QED  BY <1>1, <2>3, <2>4, <2>5
<1>6. QED  BY <1>2, <1>3, <1>4, <1>5 DEF Next, vars

LEMMA LeftInvHolds == Spec => []LeftInv
<1>1. Init => LeftInv
  BY InitStoreInv DEF Init, LeftInv, Made, TempsOwned, Removing, NoDir
<1>2. QED  BY <1>1, NextLeftInv, PTL DEF Spec

\* The temporary files are those of saves that run, or that failed to encode or close or
\* were killed, and the renamed directories those of Discards that run, whatever was
\* discarded in the middle of what (storage/disk/impl.go).
THEOREM DiskNoLeftovers == Spec => []NoLeftovers
<1>1. LeftInv => NoLeftovers
  BY DEF LeftInv, TempsOwned, Removing, NoLeftovers
<1>2. QED  BY <1>1, LeftInvHolds, PTL

-----------------------------------------------------------------------------
(* What a start finds *)

WithMeta == {x \in Objects : home[x].files[Meta] # NoFile}
Whole(o) == <<o, home[o].files[Meta], PartsListed(home[o])>>

\* The fields of the iteration.
WalkOK == walk = [at |-> walk.at, todo |-> walk.todo, next |-> walk.next,
                  quiet |-> walk.quiet, found |-> walk.found]

\* Until a call is made, an object with metadata is still to be read, or is being read,
\* or was found with all its parts, and nothing else was found.
Found ==
    /\ \A e \in walk.todo : e[1] = "home" => e[2] \in Objects /\ e = <<"home", e[2]>>
    /\ walk.found \subseteq {Whole(o) : o \in WithMeta}
    /\ walk.at # "glob" => \A o \in WithMeta :
          \/ <<"home", o>> \in walk.todo \/ Whole(o) \in walk.found
          \/ walk.at = "parts" /\ walk.next.of = o
    /\ walk.at = "parts" =>
          walk.next.of \in WithMeta /\ walk.next.meta = home[walk.next.of].files[Meta]
    /\ walk.at = "done" => walk.todo = {}

WalkInv == /\ WalkOK
           /\ walk.quiet => Found /\ \A c \in Callers : call[c] = Idle

LEMMA IterateFound ==
    ASSUME LeftInv, WalkOK, Found, Iterate, UNCHANGED <<config, disk, call, counters>>
    PROVE  Found'
<1>1. home' = home /\ WithMeta' = WithMeta /\ \A o \in Objects : Whole(o)' = Whole(o)
  BY DEF disk, WithMeta, Whole, PartsListed
<1>2. \A o \in WithMeta : o \in Objects /\ home[o].made
  BY DEF WithMeta, LeftInv, Made, NoDir, None, Files
<1>3. {Whole(o) : o \in WithMeta}' = {Whole(o) : o \in WithMeta}
  BY <1>1, <1>2
<1>4. CASE Glob
  <2>1. /\ walk.at = "glob" /\ walk'.at = "next" /\ walk'.todo = Listed
        /\ walk'.found = walk.found
    BY <1>4 DEF Glob, WalkOK
  <2>2. \A e \in Listed : e[1] = "home" => e[2] \in Objects /\ e = <<"home", e[2]>>
    BY DEF Listed
  <2>3. \A o \in WithMeta : <<"home", o>> \in Listed
    BY <1>2 DEF Listed
  <2>4. QED  BY <1>1, <1>2, <1>3, <2>1, <2>2, <2>3 DEF Found
<1>5. ASSUME NEW e \in walk.todo, ReadMetadata(e) PROVE Found'
  <2>1. /\ walk.at = "next" /\ walk'.found = walk.found /\ walk'.todo = walk.todo \ {e}
        /\ HasMetadata(e) => /\ walk'.at = "parts"
                             /\ walk'.next = [of |-> ObjectOf(e), meta |-> FilesIn(e)[Meta]]
        /\ ~HasMetadata(e) => walk'.at = "next"
    BY <1>5 DEF ReadMetadata, WalkOK
  <2>2. CASE HasMetadata(e)
    <3>1. e[1] = "home" /\ FilesIn(e)[Meta] # NoFile
      BY <2>2 DEF HasMetadata, NameMatches
    <3>2. PICK o \in Objects : e = <<"home", o>>
      BY <3>1 DEF Found
    <3>3. FilesIn(e) = home[o].files /\ ObjectOf(e) = o
      BY <3>2 DEF FilesIn, ObjectOf
    <3>4. o \in WithMeta
      BY <3>1, <3>3 DEF WithMeta
    <3>5. /\ walk'.at = "parts" /\ walk'.next.of = o
          /\ walk'.next.meta = home[o].files[Meta]
      BY <2>1, <2>2, <3>3
    <3>6. \A x \in WithMeta : \/ <<"home", x>> \in walk'.todo \/ Whole(x) \in walk'.found
                              \/ walk'.next.of = x
      BY <2>1, <3>2, <3>5 DEF Found
    <3>7. QED  BY <1>1, <1>2, <1>3, <2>1, <3>4, <3>5, <3>6 DEF Found
  <2>3. CASE ~HasMetadata(e)
    <3>1. \A x \in WithMeta : e # <<"home", x>>
      <4>1. ASSUME NEW x \in WithMeta, e = <<"home", x>> PROVE FALSE
        <5>1. FilesIn(e) = home[x].files /\ e[1] = "home"
          BY <4>1 DEF FilesIn
        <5>2. QED  BY <2>3, <4>1, <5>1 DEF HasMetadata, NameMatches, WithMeta
      <4>2. QED  BY <4>1
    <3>2. walk'.at = "next"
      BY <2>1, <2>3
    <3>3. \A x \in WithMeta : <<"home", x>> \in walk'.todo \/ Whole(x) \in walk'.found
      BY <2>1, <3>1 DEF Found
    <3>4. QED  BY <1>1, <1>2, <1>3, <2>1, <3>2, <3>3 DEF Found
  <2>4. QED  BY <2>2, <2>3
<1>6. CASE Report
  <2> DEFINE o == walk.next.of
  <2>1. walk.at = "parts" /\ o \in WithMeta /\ home[o].made
    BY <1>2, <1>6 DEF Report, Found
  <2>2. <<o, walk.next.meta, PartsListed(home[o])>> = Whole(o)
    BY <2>1 DEF Found, Whole
  <2>3. walk'.at = "next" /\ walk'.todo = walk.todo /\ walk'.found = walk.found \cup {Whole(o)}
    BY <1>6, <2>1, <2>2 DEF Report, WalkOK
  <2>4. \A x \in WithMeta : <<"home", x>> \in walk'.todo \/ Whole(x) \in walk'.found
    BY <2>1, <2>3 DEF Found
  <2>5. QED  BY <1>1, <1>2, <1>3, <2>1, <2>3, <2>4 DEF Found
<1>7. CASE WalkEnds
  <2>1. /\ walk.at = "next" /\ walk.todo = {} /\ walk'.at = "done" /\ walk'.todo = walk.todo
        /\ walk'.found = walk.found
    BY <1>7 DEF WalkEnds, WalkOK
  <2>2. QED  BY <1>1, <1>2, <1>3, <2>1 DEF Found
<1>8. QED  BY <1>4, <1>5, <1>6, <1>7 DEF Iterate

LEMMA NextWalkInv ==
    ASSUME LeftInv, WalkInv, [Next]_vars
    PROVE  WalkInv'
<1>1. StoreInv /\ call \in [Callers -> Calls \cup {Idle}]
  BY DEF LeftInv, StoreInv
<1>2. CASE Start /\ UNCHANGED <<disk, call, counters>>
  <2>1. \A c \in Callers : call'[c] = Idle
    BY <1>1, <1>2 DEF Start, CheckSettings, OpenSettings, WriteSettings, StoreInv, CallOK
  <2>2. CASE WriteSettings
    BY <2>1, <2>2 DEF WriteSettings, WalkInv, WalkOK, Found, NoWalk
  <2>3. CASE CheckSettings \/ OpenSettings
    BY <1>2, <2>1, <2>3 DEF CheckSettings, OpenSettings, WalkInv, WalkOK, Found, Whole, WithMeta,
                            PartsListed, disk
  <2>4. QED  BY <1>2, <2>2, <2>3 DEF Start
<1>3. ASSUME NEW c \in Callers, Call(c) PROVE WalkInv'
  <2>1. walk' = [walk EXCEPT !.quiet = FALSE]
    BY <1>3 DEF Call, SaveMetadata, SavePart, Discard, DiscardPart, Begin
  <2>2. QED  BY <2>1 DEF WalkInv, WalkOK
<1>4. ASSUME NEW c \in Callers, Step(c), UNCHANGED <<config, leftover, walk, calls, crashes>>
      PROVE  WalkInv'
  <2>1. call[c] # Idle
    BY <1>4 DEF Step, MakeDir, CreateTemp, CopyWhole, CopyFails, CloseFails, RenameTemp,
                RemovePart, MoveAway, RemoveAll, At, Idle
  <2>2. ~walk.quiet
    BY <2>1 DEF WalkInv
  <2>3. QED  BY <1>4, <2>2 DEF WalkInv, WalkOK
<1>5. CASE Iterate /\ UNCHANGED <<config, disk, call, counters>>
  <2>1. WalkOK' /\ walk'.quiet = walk.quiet
    BY <1>5 DEF Iterate, Glob, ReadMetadata, Report, WalkEnds, WalkInv, WalkOK
  <2>2. QED  BY <1>5, <2>1, IterateFound DEF WalkInv
<1>6. CASE Crash
  BY <1>6 DEF Crash, WalkInv, WalkOK, NoWalk
<1>7. CASE UNCHANGED vars
  BY <1>7 DEF vars, disk, WalkInv, WalkOK, Found, Whole, WithMeta, PartsListed
<1>8. QED  BY <1>2, <1>3, <1>4, <1>5, <1>6, <1>7 DEF Next

\* What a start finds before anything is called is every object with metadata and all
\* of its parts, and nothing that a killed process left half written, half removed or
\* renamed (Iterate, GetAvailableParts of storage/disk/impl.go).
THEOREM DiskRecoversExactly == Spec => []RecoversExactly
<1>1. Init => WalkInv
  BY DEF Init, WalkInv, WalkOK, NoWalk
<1>2. LeftInv /\ WalkInv /\ [Next]_vars => WalkInv'
  BY NextWalkInv
<1>3. ASSUME WalkInv, walk.at = "done", walk.quiet
      PROVE  walk.found = {Whole(o) : o \in WithMeta}
  BY <1>3 DEF WalkInv, Found
<1>4. WalkInv => RecoversExactly
  BY <1>3 DEF RecoversExactly, Whole, WithMeta
<1>5. QED  BY <1>1, <1>2, <1>4, LeftInvHolds, PTL DEF Spec
=============================================================================
