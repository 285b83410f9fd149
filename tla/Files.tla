--------------------------------- MODULE Files ----------------------------------
(***************************************************************************)
(* Dir::sync() makes a directory like another one: it purges what is not    *)
(* there, then copies what differs through temporary files that are renamed *)
(* (File::sync, copy and rename).  Every system call is a step, most can    *)
(* fail, and the program may be killed between any two.  What is in the     *)
(* subdirectories is left out: there sync() runs the same code on other     *)
(* names.                                                                   *)
(* The versions of a file have the same size, two chunks, so that only its  *)
(* time tells them apart.                                                   *)
(***************************************************************************)
EXTENDS Integers, Sequences

CONSTANTS
  Names,         \* what the source may hold; none is the temporary name of another one
  MaxVersion,    \* bound: changes of the source
  MaxClock       \* bound: seconds

ASSUME FilesAssumption == MaxVersion \in Nat /\ MaxClock \in Nat

VARIABLES
  src, dst,      \* the entries: [kind, text, time]; text is the version of each chunk
  clock,         \* the second of the file system
  versions,      \* changes of the source so far
  phase,         \* "idle", "purge", "sync", "copy", "erase" or "rename"
  todo,          \* what readdir() has still to return, unless it fails
  cur,           \* the name that is copied
  synced,        \* what the last sync() returned; FALSE too when the source has changed
  excused,       \* history: names that sync() takes for the same although they are not, as the
                 \* source was changed in the second of the copy, or a failure went unnoticed
  shortened      \* history: names whose copy has lost its end when it was closed

filesVars == <<src, dst, clock, versions, phase, todo, cur, synced, excused, shortened>>

Chunks == 2

Absent == [kind |-> "none", text |-> <<>>, time |-> 0]
File(text) == [kind |-> "file", text |-> text, time |-> clock]
Directory == [kind |-> "dir", text |-> <<>>, time |-> clock]
Full(v) == [i \in 1..Chunks |-> v]

(* Mutant: copied in place. *)
TempOfItself(d) == d

TempOf(d) == <<d[1], "tmp">>
DestNames == {<<n>> : n \in Names} \cup {TempOf(<<n>>) : n \in Names}
Source(d) == IF \E n \in Names : d = <<n>> THEN src[d[1]] ELSE Absent

FilesInit ==
  /\ src \in [Names -> {Absent, [kind |-> "file", text |-> Full(0), time |-> 0]}]
  /\ dst = [d \in DestNames |-> Absent]
  /\ clock = 0 /\ versions = 0 /\ phase = "idle" /\ todo = {} /\ cur \in {<<n>> : n \in Names}
  /\ synced = FALSE /\ excused = {} /\ shortened = {}

Tick ==
  /\ clock < MaxClock /\ clock' = clock + 1
  /\ UNCHANGED <<src, dst, versions, phase, todo, cur, synced, excused, shortened>>

(* Somebody else changes the source while no sync() runs. *)
Modify(n) ==
  /\ phase = "idle" /\ versions < MaxVersion /\ versions' = versions + 1
  /\ \E entry \in {Absent, Directory, File(Full(versions + 1))} : src' = [src EXCEPT ![n] = entry]
  /\ excused' = IF dst[<<n>>].kind = "file" /\ dst[<<n>>].time = clock
                  THEN excused \cup {<<n>>} ELSE excused
  /\ synced' = FALSE
  /\ UNCHANGED <<dst, clock, phase, todo, cur, shortened>>

EndSync(result) == phase' = "idle" /\ synced' = result /\ todo' = {}
Next(d) == todo' = todo \ {d} /\ UNCHANGED synced

Sync ==
  /\ phase = "idle" /\ phase' = "purge" /\ synced' = FALSE
  /\ todo' = {d \in DestNames : dst[d].kind # "none"}
  /\ UNCHANGED <<src, dst, clock, versions, cur, excused, shortened>>

Same(d) == dst[d].kind = Source(d).kind /\ dst[d].text = Source(d).text

(* What is passed over is excused, if there was something to do. *)
PassOver(ds) ==
  excused' = excused \cup {d \in ds :
    IF phase = "purge" THEN dst[d].kind \notin {"none", Source(d).kind} ELSE ~Same(d)}

(* Iterator: when opendir() fails nothing is listed, and when readdir() fails *)
(* nothing more.                                                              *)
ListingFails ==
  /\ phase \in {"purge", "sync"} /\ todo # {} /\ todo' = {}
  /\ PassOver(todo)
  /\ UNCHANGED <<src, dst, clock, versions, phase, cur, synced, shortened>>

(* What File::refresh() says of an entry: when stat() fails, that it is none. *)
Seen(entry) == {entry, Absent}

(* File::erase() or Dir::erase() of what the source does not have, or has as  *)
(* something else.                                                            *)
Purge(d) ==
  /\ phase = "purge" /\ d \in todo
  /\ \E s \in Seen(Source(d)), f \in Seen(dst[d]) :
       LET keep == s.kind # "none" /\ (s.kind = "file" <=> f.kind = "file")
       IN  \/ keep /\ PassOver({d}) /\ Next(d) /\ UNCHANGED <<dst, phase, shortened>>
           \/ /\ ~keep /\ Next(d) /\ UNCHANGED phase
              /\ dst' = [dst EXCEPT ![d] = Absent]
              /\ excused' = excused \ {d} /\ shortened' = shortened \ {d}
           \/ ~keep /\ EndSync(FALSE) /\ UNCHANGED <<dst, excused, shortened>>
  /\ UNCHANGED <<src, clock, versions, cur>>

Purged ==
  /\ phase = "purge" /\ todo = {} /\ phase' = "sync"
  /\ todo' = {<<n>> : n \in {m \in Names : src[m].kind # "none"}}
  /\ UNCHANGED <<src, dst, clock, versions, cur, synced, excused, shortened>>

(* sync() of a subdirectory.  What create() returns is ignored, and so is a   *)
(* file that was not purged.  When stat() fails the subdirectory is taken for *)
(* a file, which is not copied.                                               *)
SyncDir(d) ==
  /\ phase = "sync" /\ d \in todo /\ Source(d).kind = "dir"
  /\ \/ /\ dst[d].kind # "file" /\ dst' = [dst EXCEPT ![d] = Directory]
        /\ excused' = excused \ {d} /\ Next(d) /\ UNCHANGED phase
     \/ PassOver({d}) /\ Next(d) /\ UNCHANGED <<dst, phase>>
     \/ EndSync(FALSE) /\ UNCHANGED <<dst, excused>>
  /\ UNCHANGED <<src, clock, versions, cur, shortened>>

(* File::sync(): copied if it is missing, or has another size or an older     *)
(* time, or when a stat() fails.                                              *)
Stale(d) ==
  \E f \in Seen(dst[d]), s \in Seen(Source(d)) :
    f.kind = "none" \/ Len(f.text) # Len(s.text) \/ f.time < s.time

UpToDate(d) ==
  /\ dst[d].kind # "none" /\ Len(dst[d].text) = Len(Source(d).text)
  /\ dst[d].time >= Source(d).time

(* A directory that was not purged gets the file into it. *)
SyncFile(d) ==
  /\ phase = "sync" /\ d \in todo /\ Source(d).kind = "file"
  /\ \/ UpToDate(d) /\ Next(d) /\ UNCHANGED <<dst, phase, cur, excused>>
     \/ dst[d].kind = "dir" /\ PassOver({d}) /\ Next(d) /\ UNCHANGED <<dst, phase, cur>>
     \/ /\ Stale(d) /\ cur' = d /\ phase' = "copy"
        /\ dst' = [dst EXCEPT ![TempOf(d)] = File(<<>>)] /\ Next(d) /\ UNCHANGED excused
     \/ Stale(d) /\ EndSync(FALSE) /\ UNCHANGED <<dst, cur, excused>>
  /\ UNCHANGED <<src, clock, versions, shortened>>

Temp == dst[TempOf(cur)]
Write(text) == dst' = [dst EXCEPT ![TempOf(cur)] = File(text)]

CopyChunk ==
  /\ phase = "copy" /\ Len(Temp.text) < Chunks
  /\ \/ /\ Write(Append(Temp.text, Source(cur).text[Len(Temp.text) + 1]))
        /\ UNCHANGED <<phase, todo, synced>>
     \/ dst' = [dst EXCEPT ![TempOf(cur)] = Absent] /\ EndSync(FALSE)
  /\ UNCHANGED <<src, clock, versions, cur, excused, shortened>>

(* The stream is closed, and whether the last chunk was written is not asked. *)
CloseTemp ==
  /\ phase = "copy" /\ Len(Temp.text) = Chunks /\ phase' = "erase"
  /\ \/ UNCHANGED dst
     \/ Write(SubSeq(Temp.text, 1, Chunks - 1))
  /\ UNCHANGED <<src, clock, versions, todo, cur, synced, excused, shortened>>

(* File::rename() erases the destination first, in vain or not. *)
EraseDest ==
  /\ phase = "erase" /\ phase' = "rename"
  /\ \/ dst' = [dst EXCEPT ![cur] = Absent]
     \/ dst' = dst
  /\ UNCHANGED <<src, clock, versions, todo, cur, synced, excused, shortened>>

Rename ==
  /\ phase = "rename"
  /\ \/ /\ dst[cur].kind # "dir"
        /\ dst' = [dst EXCEPT ![TempOf(cur)] = Absent, ![cur] = Temp]
        /\ LET amiss == {d \in {cur} : Temp.text # Source(cur).text}
           IN  excused' = (excused \ {cur}) \cup amiss /\ shortened' = (shortened \ {cur}) \cup amiss
        /\ phase' = "sync" /\ UNCHANGED <<todo, synced>>
     \/ EndSync(FALSE) /\ UNCHANGED <<dst, excused, shortened>>
  /\ UNCHANGED <<src, clock, versions, cur>>

SyncReturns ==
  /\ phase = "sync" /\ todo = {} /\ EndSync(TRUE)
  /\ UNCHANGED <<src, dst, clock, versions, cur, excused, shortened>>

Crash ==
  /\ phase # "idle" /\ EndSync(FALSE)
  /\ UNCHANGED <<src, dst, clock, versions, cur, excused, shortened>>

FilesNext ==
  \/ Tick \/ Sync \/ ListingFails \/ Purged \/ CopyChunk \/ CloseTemp \/ EraseDest \/ Rename \/ SyncReturns \/ Crash
  \/ \E n \in Names : Modify(n)
  \/ \E d \in DestNames : Purge(d) \/ SyncDir(d) \/ SyncFile(d)

Plain == {<<n>> : n \in Names}

(* A reader of the destination never finds part of a file, or a mixture of    *)
(* two versions, whenever a sync() failed or was killed, unless the end of    *)
(* the copy was lost unseen.  When sync() returns true the directories are    *)
(* the same and no temporary file is left, but for the names that it has      *)
(* passed over (excused).                                                     *)
SyncKeepsWhole ==
  /\ \A d \in Plain \ shortened :
       dst[d].kind = "file" => \E v \in 0..versions : dst[d].text = Full(v)
  /\ synced => \A d \in DestNames \ excused : Same(d)

--------------------------------------------------------------------------------
(* SyncKeepsWhole with what makes it inductive (ComponentProofs). *)

FilesSpec == FilesInit /\ [][FilesNext]_filesVars

FileEntries == [kind : {"none", "file", "dir"}, text : Seq(Nat), time : Nat]
Whole(entry) == \E v \in 0..versions : entry.text = Full(v)

FilesTypeOK ==
  /\ src \in [Names -> FileEntries] /\ dst \in [DestNames -> FileEntries]
  /\ clock \in Nat /\ versions \in Nat
  /\ phase \in {"idle", "purge", "sync", "copy", "erase", "rename"}
  /\ todo \subseteq DestNames /\ cur \in Plain /\ synced \in BOOLEAN
  /\ excused \subseteq DestNames /\ shortened \subseteq Plain

(* Only files have a text, the source's are whole, and so are the copies,    *)
(* which have the source's text unless they are older than the source.       *)
TextsInv ==
  /\ \A n \in Names :
       /\ src[n].time <= clock
       /\ IF src[n].kind = "file" THEN Whole(src[n]) ELSE src[n].text = <<>>
  /\ \A d \in DestNames :
       dst[d].time <= clock /\ (dst[d].kind # "file" => dst[d].text = <<>>)
  /\ \A d \in Plain \ shortened : dst[d].kind = "file" => Whole(dst[d])
  /\ \A d \in Plain \ excused :
       dst[d].kind = "file" /\ Source(d).kind = "file" /\ Source(d).time <= dst[d].time =>
         dst[d].text = Source(d).text

(* The entries that purge has left, and those that are not to be copied. *)
InCopy == IF phase \in {"copy", "erase", "rename"} THEN {cur, TempOf(cur)} ELSE {}

ProgressInv ==
  /\ phase = "purge" =>
       \A d \in DestNames \ todo : dst[d].kind \in {"none", Source(d).kind} \/ d \in excused
  /\ phase \notin {"idle", "purge"} =>
       /\ todo \subseteq Plain /\ todo \cap InCopy = {}
       /\ \A d \in DestNames \ InCopy : d \in todo \/ d \in excused \/ Same(d)
  /\ InCopy # {} => Source(cur).kind = "file" /\ Temp.kind = "file"
  /\ synced => phase = "idle" /\ \A d \in DestNames \ excused : Same(d)

FilesIInv == FilesTypeOK /\ TextsInv /\ ProgressInv
================================================================================
