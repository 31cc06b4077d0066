----------------------------- MODULE DiskStorage -----------------------------
(***************************************************************************)
(* The disk storage of a cache zone (storage/disk): one directory per      *)
(* object, a file for the metadata and one per part.  Files are written    *)
(* under a random temporary name and renamed, a directory is renamed       *)
(* before it is removed; each system call of that is a step, the process   *)
(* may be killed between any two, and starts over on what is on the disk.  *)
(*                                                                         *)
(* Abstracted: the two levels of fan-out directories, which are never      *)
(* removed; the contents of a part, of which only the part size it was cut *)
(* to is kept; random names, taken to be distinct; a failure of the disk   *)
(* other than in the copying, encoding or closing of a file; a callback of *)
(* Iterate that ends the iteration.  A wrong variant of a definition stands *)
(* before it, commented `Mutant'.                                          *)
(***************************************************************************)
EXTENDS Naturals, FiniteSets

CONSTANTS Objects, Parts, Meta, Versions, Sizes, NoFile,
          Callers,      \* the goroutines that call the storage
          Dead,         \* who owns what a killed process left
          Torn,         \* a file that is only partly written
          MaxCalls,     \* bound: calls of the storage
          MaxCrashes    \* bound: kills of the process

ASSUME DiskAssumption ==
    /\ Meta \notin Parts
    /\ NoFile \notin Versions \cup Sizes \cup {Torn}
    /\ Torn \notin Versions \cup Sizes
    /\ Dead \notin Callers
    /\ MaxCalls \in Nat /\ MaxCrashes \in Nat

VARIABLES
    settings,   \* the settings file: NoFile, Torn (created, not written), or its part size
    up,         \* "down", "checked", "opened" (in saveSettingsOnDisk) or "up"
    partSize,   \* the part size of the configuration
    home,       \* home[o]: the directory of the object o
    moved,      \* moved[c]: the renamed directory that c is removing
    leftover,   \* the renamed directories that killed processes left
    call,       \* call[c]: the call of the goroutine c
    walk,       \* the iteration over the directories
    calls, crashes, leaks   \* counters; leaks: failed writes that leave their file

config == <<settings, up, partSize>>
disk == <<home, moved, leftover>>
counters == <<calls, crashes, leaks>>
vars == <<config, disk, call, walk, counters>>

Files == Parts \cup {Meta}
None == [f \in Files |-> NoFile]
NoDir == [made |-> FALSE, files |-> None, temps |-> {}]
Idle == [op |-> "none", at |-> "start"]
NoNext == [of |-> NoFile, meta |-> NoFile]
NoWalk == [at |-> "off", todo |-> {}, next |-> NoNext, quiet |-> FALSE, found |-> {}]

Contents(f) == IF f = Meta THEN Versions ELSE Sizes

TypeOK ==
    /\ settings \in Sizes \cup {NoFile, Torn}
    /\ up \in {"down", "checked", "opened", "up"}
    /\ partSize \in Sizes
    /\ \A o \in Objects : /\ home[o].made \in BOOLEAN
                          /\ home[o].temps \subseteq (Callers \cup {Dead}) \X Files
                          /\ \A f \in Files : home[o].files[f] \in Contents(f) \cup {NoFile}
                          /\ ~home[o].made => home[o] = NoDir
    /\ \A c \in Callers : /\ call[c].op \in {"none", "save", "discard", "discardPart"}
                          /\ call[c].at \in {"start", "made", "open", "whole", "removing"}
                          /\ DOMAIN moved[c].files = Files
    /\ calls \in 0..MaxCalls /\ crashes \in 0..MaxCrashes /\ leaks \in Nat

----------------------------------------------------------------------------
(* Opening the storage: New, saveSettingsOnDisk.                            *)

Init ==
    /\ settings = NoFile /\ up = "down" /\ partSize \in Sizes
    /\ home = [o \in Objects |-> NoDir]
    /\ moved = [c \in Callers |-> NoDir] /\ leftover = {}
    /\ call = [c \in Callers |-> Idle] /\ walk = NoWalk
    /\ calls = 0 /\ crashes = 0 /\ leaks = 0

\* checkPreviousDiskSettings: a file that cannot be decoded, or of another
\* part size, refuses the configuration.
CheckSettings ==
    /\ up = "down"
    /\ settings \in {NoFile, partSize}
    /\ up' = "checked"
    /\ UNCHANGED <<settings, partSize, walk>>

OpenSettings ==
    /\ up = "checked"
    /\ up' = "opened"
    /\ settings' = IF settings = NoFile THEN Torn ELSE settings
    /\ UNCHANGED <<partSize, walk>>

\* The loader of the zone starts its iteration as soon as the zone is there.
WriteSettings ==
    /\ up = "opened"
    /\ up' = "up"
    /\ settings' = partSize
    /\ walk' = [NoWalk EXCEPT !.at = "glob", !.quiet = TRUE]
    /\ UNCHANGED partSize

----------------------------------------------------------------------------
(* The calls.                                                               *)

Begin(c, op, o, f, v) ==
    /\ up = "up" /\ call[c] = Idle /\ calls < MaxCalls
    /\ call' = [call EXCEPT ![c] = [op |-> op, at |-> "start", of |-> o, file |-> f, new |-> v]]
    /\ calls' = calls + 1
    /\ walk' = [walk EXCEPT !.quiet = FALSE]

SaveMetadata(c, o) == \E v \in Versions : Begin(c, "save", o, Meta, v)
SavePart(c, o) == \E p \in Parts : Begin(c, "save", o, p, partSize)
Discard(c, o) == Begin(c, "discard", o, Meta, NoFile)
DiscardPart(c, o) == \E p \in Parts : Begin(c, "discardPart", o, p, NoFile)

At(c, op, at) == call[c].op = op /\ call[c].at = at
To(c, at) == call' = [call EXCEPT ![c].at = at]
Return(c) == call' = [call EXCEPT ![c] = Idle]
Temp(c) == <<c, call[c].file>>
Changed(o, dir) == home' = [home EXCEPT ![o] = dir]
WithFile(dir, f, v) == [dir EXCEPT !.files[f] = v]
WithTemp(dir, t) == [dir EXCEPT !.temps = @ \cup {t}]
WithoutTemp(dir, t) == [dir EXCEPT !.temps = @ \ {t}]

\* createFile: MkdirAll and OpenFile are two calls, and a Discard may rename
\* the directory away between them.
MakeDir(c) ==
    /\ At(c, "save", "start")
    /\ Changed(call[c].of, [home[call[c].of] EXCEPT !.made = TRUE])
    /\ To(c, "made")
    /\ UNCHANGED <<moved, leaks>>

\* Mutant: the file is written under its own name.
CreateInPlace(c) ==
    LET o == call[c].of IN
    /\ At(c, "save", "made")
    /\ IF home[o].made THEN /\ Changed(o, WithFile(WithTemp(home[o], Temp(c)), call[c].file, Torn))
                            /\ To(c, "open")
                       ELSE UNCHANGED home /\ Return(c)
    /\ UNCHANGED <<moved, leaks>>

CreateTemp(c) ==
    LET o == call[c].of IN
    /\ At(c, "save", "made")
    /\ IF home[o].made THEN Changed(o, WithTemp(home[o], Temp(c))) /\ To(c, "open")
                       ELSE UNCHANGED home /\ Return(c)
    /\ UNCHANGED <<moved, leaks>>

\* The contents are copied or encoded and the file is closed.
CopyWhole(c) ==
    /\ At(c, "save", "open")
    /\ To(c, "whole")
    /\ UNCHANGED <<home, moved, leaks>>

\* The reader of a part fails or gives too much: the temporary file is removed,
\* by its path, which a Discard may have renamed away.
CopyFails(c) ==
    LET o == call[c].of IN
    /\ At(c, "save", "open") /\ call[c].file # Meta
    /\ Changed(o, WithoutTemp(home[o], Temp(c)))
    /\ Return(c)
    /\ UNCHANGED <<moved, leaks>>

\* The encoding of metadata or the closing of a file fails: it is left there.
CloseFails(c) ==
    LET o == call[c].of IN
    /\ At(c, "save", "open")
    /\ Changed(o, IF Temp(c) \in home[o].temps
                  THEN WithTemp(WithoutTemp(home[o], Temp(c)), <<Dead, call[c].file>>)
                  ELSE home[o])
    /\ leaks' = leaks + 1
    /\ Return(c)
    /\ UNCHANGED moved

\* The final rename, which fails when the temporary file is no longer there.
RenameTemp(c) ==
    LET o == call[c].of IN
    /\ At(c, "save", "whole")
    /\ Changed(o, IF Temp(c) \in home[o].temps
                  THEN WithFile(WithoutTemp(home[o], Temp(c)), call[c].file, call[c].new)
                  ELSE home[o])
    /\ Return(c)
    /\ UNCHANGED <<moved, leaks>>

RemovePart(c) ==
    LET o == call[c].of IN
    /\ At(c, "discardPart", "start")
    /\ Changed(o, WithFile(home[o], call[c].file, NoFile))
    /\ Return(c)
    /\ UNCHANGED <<moved, leaks>>

\* Mutant: the directory is renamed and then left there.
MoveAwayOnly(c) ==
    LET o == call[c].of IN
    /\ At(c, "discard", "start") /\ home[o].made
    /\ moved' = [moved EXCEPT ![c] = home[o]]
    /\ Changed(o, NoDir)
    /\ Return(c)
    /\ UNCHANGED leaks

\* Discard: the rename, and then RemoveAll, file by file in any order.
MoveAway(c) ==
    LET o == call[c].of IN
    /\ At(c, "discard", "start")
    /\ IF home[o].made
       THEN /\ moved' = [moved EXCEPT ![c] = home[o]]
            /\ Changed(o, NoDir)
            /\ To(c, "removing")
       ELSE Return(c) /\ UNCHANGED <<home, moved>>
    /\ UNCHANGED leaks

RemoveAll(c) ==
    /\ At(c, "discard", "removing")
    /\ \/ \E f \in Files : /\ moved[c].files[f] # NoFile
                           /\ moved' = [moved EXCEPT ![c] = WithFile(@, f, NoFile)]
                           /\ UNCHANGED call
       \/ /\ moved[c].files = None
          /\ moved' = [moved EXCEPT ![c] = NoDir]
          /\ Return(c)
    /\ UNCHANGED <<home, leaks>>

----------------------------------------------------------------------------
(* Iterate, which the loader of the zone runs beside the calls.             *)

\* Glob and ReadDir: every directory there is, renamed ones included.
Listed == {<<"home", o>> : o \in {x \in Objects : home[x].made}}
          \cup {<<"moved", c>> : c \in {x \in Callers : moved[x] # NoDir}}
          \cup {<<"left", d>> : d \in leftover}

Glob ==
    /\ walk.at = "glob"
    /\ walk' = [walk EXCEPT !.at = "next", !.todo = Listed]

FilesIn(entry) == CASE entry[1] = "home" -> home[entry[2]].files
                    [] entry[1] = "moved" -> moved[entry[2]].files
                    [] entry[1] = "left" -> entry[2].files

\* Mutant: the name of the directory is not compared with the object in its metadata.
AnyName(entry) == entry \in Listed

\* getObjectMetadata: the directory must bear the name of the object whose
\* metadata it holds, as a renamed one does not.
NameMatches(entry) == entry[1] = "home"

HasMetadata(entry) == NameMatches(entry) /\ FilesIn(entry)[Meta] # NoFile

\* The object that the metadata of a directory is of.
ObjectOf(entry) == CASE entry[1] = "home" -> entry[2]
                     [] entry[1] = "moved" -> call[entry[2]].of
                     [] entry[1] = "left" -> entry[2].of

ReadMetadata(entry) ==
    /\ walk.at = "next" /\ entry \in walk.todo
    /\ walk' = IF HasMetadata(entry)
               THEN [walk EXCEPT !.todo = @ \ {entry}, !.at = "parts",
                                 !.next = [of |-> ObjectOf(entry), meta |-> FilesIn(entry)[Meta]]]
               ELSE [walk EXCEPT !.todo = @ \ {entry}]

\* getPartNumberFromFile: a name that is not exactly that of a part, such as a
\* temporary one, is no part.
PartsListed(dir) == {p \in Parts : dir.files[p] # NoFile}

\* GetAvailableParts, by the path of the object, and then the callback.
Report ==
    LET o == walk.next.of IN
    /\ walk.at = "parts"
    /\ walk' = [walk EXCEPT !.at = "next", !.next = NoNext,
                            !.found = IF home[o].made
                                      THEN @ \cup {<<o, walk.next.meta, PartsListed(home[o])>>}
                                      ELSE @]

WalkEnds ==
    /\ walk.at = "next" /\ walk.todo = {}
    /\ walk' = [walk EXCEPT !.at = "done"]

----------------------------------------------------------------------------
\* The process is killed; it comes back with any part size in its configuration.
Orphaned(dir) == [dir EXCEPT !.temps = {<<Dead, t[2]>> : t \in @}]

Crash ==
    /\ up # "down" /\ crashes < MaxCrashes
    /\ crashes' = crashes + 1
    /\ up' = "down" /\ partSize' \in Sizes
    /\ home' = [o \in Objects |-> Orphaned(home[o])]
    /\ leftover' = leftover \cup {[of |-> call[c].of, files |-> moved[c].files] :
                                    c \in {x \in Callers : moved[x] # NoDir}}
    /\ moved' = [c \in Callers |-> NoDir]
    /\ call' = [c \in Callers |-> Idle] /\ walk' = NoWalk

Start == CheckSettings \/ OpenSettings \/ WriteSettings

Call(c) == \E o \in Objects : SaveMetadata(c, o) \/ SavePart(c, o) \/ Discard(c, o) \/ DiscardPart(c, o)

Step(c) == \/ MakeDir(c) \/ CreateTemp(c) \/ CopyWhole(c) \/ CopyFails(c) \/ CloseFails(c)
           \/ RenameTemp(c) \/ RemovePart(c) \/ MoveAway(c) \/ RemoveAll(c)

Iterate == Glob \/ (\E entry \in walk.todo : ReadMetadata(entry)) \/ Report \/ WalkEnds

Next == \/ Start /\ UNCHANGED <<disk, call, counters>>
        \/ \E c \in Callers : Call(c) /\ UNCHANGED <<config, disk, crashes, leaks>>
        \/ \E c \in Callers : Step(c) /\ UNCHANGED <<config, leftover, walk, calls, crashes>>
        \/ Iterate /\ UNCHANGED <<config, disk, call, counters>>
        \/ Crash /\ UNCHANGED <<settings, calls, leaks>>

Spec == Init /\ [][Next]_vars

----------------------------------------------------------------------------
(* A file or an object is stored, replaced or gone at one instant, whatever *)
(* the calls that run together and wherever the process is killed, and a    *)
(* part is of the part size of the first start (disk/impl.go).              *)
Storage == INSTANCE ObjectStorage WITH
    stored <- [o \in Objects |-> home[o].files],
    size <- IF settings \in Sizes THEN settings ELSE NoFile
ImplementsStorage == Storage!Spec

(* Whatever the calls do to the directories of one another, each removes    *)
(* what it made: a temporary file is of a save that runs, but for those that *)
(* a failed encoding or closing or a kill left, and a renamed directory is   *)
(* of a Discard that is still removing it.  A refused part, a rename that    *)
(* failed after a Discard and a Discard in the middle of a save leave        *)
(* nothing (disk/impl.go).                                                  *)
NoLeftovers ==
    /\ \A o \in Objects : \A t \in home[o].temps :
           \/ t[1] = Dead /\ leaks + crashes > 0
           \/ t[1] # Dead /\ call[t[1]].op = "save" /\ call[t[1]].of = o /\ call[t[1]].file = t[2]
    /\ \A c \in Callers : moved[c] # NoDir => At(c, "discard", "removing")

(* A start finds every object that has metadata, with exactly its parts:    *)
(* what killed processes left half written, half removed or renamed is      *)
(* neither taken for an object nor for a part of one (disk/impl.go).        *)
RecoversExactly ==
    walk.at = "done" /\ walk.quiet =>
        walk.found = {<<o, home[o].files[Meta], PartsListed(home[o])>> :
                        o \in {x \in Objects : home[x].files[Meta] # NoFile}}

=============================================================================
