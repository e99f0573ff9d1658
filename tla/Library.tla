------------------------------ MODULE Library ------------------------------
(***************************************************************************)
(* The levels and characters a player has on disk, over many runs of the   *)
(* program.  At its start the program lists the files, takes the sum of    *)
(* each from a cache or from the file, and makes the preview of those that *)
(* have none; the cache and the settings are only written when it ends.    *)
(* A preview is found by the sum of its file, a level by the sum too.      *)
(*                                                                         *)
(* The database of the levels stands for that of the characters, which is  *)
(* built by the same steps after it.  The program may be killed at any     *)
(* time, and the files change while it does not start up.                  *)
(***************************************************************************)
EXTENDS Naturals, Sequences, SequencesExt

CONSTANTS
  Paths,       \* where a level may be
  Contents,    \* what may be in a file
  Sum,         \* the sum of the bytes of each of them; two may have the same
  Unreadable,  \* the contents no level can be loaded from
  MaxVersion,  \* bound: versions of the program
  MaxChanges   \* bound: changes of the files

VARIABLES
  files,     \* what is at each path
  store,     \* what the program keeps on disk: cache, previews, config
  prog,      \* the program: phase, version, entries, cache, next, ...
  history    \* the contents that have been there, and how often files changed

vars == <<files, store, prog, history>>

None == "none"
Torn == "torn"
Sums == {Sum[c] : c \in Contents}
Off(version) == [phase |-> "off", version |-> version, entries |-> <<>>, cache |-> [p \in Paths |-> 0],
                 regenerate |-> FALSE, next |-> 1, level |-> 0]

Init ==
  /\ files \in [Paths -> Contents \union {None}]
  /\ store = [cache |-> [p \in Paths |-> 0], previews |-> [s \in Sums |-> None],
              config |-> [version |-> 0, level |-> 0]]
  /\ prog = Off(1)
  /\ history = [there |-> {files[p] : p \in Paths} \ {None}, changes |-> 0]

-----------------------------------------------------------------------------
(* The start of the program *)

\* Without settings, or with those of another version, nothing that is cached
\* is used.
Regenerate(version) == store.config.version # version

ReadConfig(version) ==
  [Off(version) EXCEPT !.phase = "settings", !.level = store.config.level, !.regenerate = Regenerate(version)]

Start ==
  /\ prog.phase = "off"
  /\ prog' = ReadConfig(prog.version)
  /\ UNCHANGED <<files, store, history>>

\* Mutation: the cache is read whether or not it is to be made anew.
CreateKept == [prog EXCEPT !.cache = store.cache]

\* pp2_create_database
CreateDatabase == [prog EXCEPT !.cache = IF prog.regenerate THEN @ ELSE store.cache]

\* pp2_database_add_file: the file is only read when the cache does not know it.
AddFile(pr, p) ==
  LET sum == IF pr.cache[p] # 0 THEN pr.cache[p] ELSE Sum[files[p]]
  IN [pr EXCEPT !.entries = Append(@, [path |-> p, sum |-> sum]), !.cache[p] = sum]

\* The files are added in the order in which the directory returns them.
AddFiles ==
  /\ prog.phase = "settings"
  /\ \E order \in SetToSeqs({p \in Paths : files[p] # None}) :
       prog' = [FoldLeft(AddFile, CreateDatabase, order) EXCEPT !.phase = "previews"]
  /\ UNCHANGED <<files, store, history>>

Entry == prog.entries[prog.next]
ToMake ==
  /\ prog.phase = "previews" /\ prog.next <= Len(prog.entries)
  /\ prog.regenerate \/ store.previews[Entry.sum] = None

HasPreview ==
  /\ prog.phase = "previews" /\ prog.next <= Len(prog.entries) /\ ~ToMake
  /\ prog' = [prog EXCEPT !.next = @ + 1]
  /\ UNCHANGED <<files, store, history>>

\* One level that cannot be loaded and the program does not start.
LoadFails ==
  /\ ToMake /\ files[Entry.path] \in Unreadable
  /\ prog' = Off(prog.version)
  /\ UNCHANGED <<files, store, history>>

\* The preview is written into the file it is read from.
BeginPreview ==
  /\ ToMake /\ files[Entry.path] \notin Unreadable
  /\ prog' = [prog EXCEPT !.phase = "writing"]
  /\ store' = [store EXCEPT !.previews[Entry.sum] = Torn]
  /\ UNCHANGED <<files, history>>

EndPreview ==
  /\ prog.phase = "writing"
  /\ prog' = [prog EXCEPT !.phase = "previews", !.next = @ + 1]
  /\ store' = [store EXCEPT !.previews[Entry.sum] = files[Entry.path]]
  /\ UNCHANGED <<files, history>>

\* pp2_database_find_entry
FindEntry(sum) == SelectInSeq(prog.entries, LAMBDA e : e.sum = sum)

\* The level of the settings, or else the first; with no level at all the first
\* is read all the same, and the program ends.
Run ==
  /\ prog.phase = "previews" /\ prog.next > Len(prog.entries)
  /\ prog' = IF prog.entries = <<>> THEN Off(prog.version)
             ELSE [prog EXCEPT !.phase = "running",
                               !.level = IF FindEntry(@) = 0 THEN prog.entries[1].sum ELSE @]
  /\ UNCHANGED <<files, store, history>>

-----------------------------------------------------------------------------
(* The program runs, and ends *)

Select(sum) ==
  /\ prog.phase = "running" /\ FindEntry(sum) # 0
  /\ prog' = [prog EXCEPT !.level = sum]
  /\ UNCHANGED <<files, store, history>>

\* pp2_exit: the settings are saved first, then the caches.
SaveConfig ==
  /\ prog.phase = "running"
  /\ store' = [store EXCEPT !.config = [version |-> prog.version, level |-> prog.level]]
  /\ prog' = [prog EXCEPT !.phase = "ending"]
  /\ UNCHANGED <<files, history>>

DestroyDatabase ==
  /\ prog.phase = "ending"
  /\ store' = [store EXCEPT !.cache = prog.cache]
  /\ prog' = Off(prog.version)
  /\ UNCHANGED <<files, history>>

Killed ==
  /\ prog.phase # "off"
  /\ prog' = Off(prog.version)
  /\ UNCHANGED <<files, store, history>>

\* Somebody puts a file there, takes it away or saves another level in it.
Change(p, c) ==
  /\ prog.phase \in {"off", "running"} /\ history.changes < MaxChanges
  /\ files[p] # c
  /\ files' = [files EXCEPT ![p] = c]
  /\ history' = [there |-> history.there \union ({c} \ {None}), changes |-> history.changes + 1]
  /\ UNCHANGED <<store, prog>>

\* A new version, whose previews are not those of the old one.
Upgrade ==
  /\ prog.phase = "off" /\ prog.version < MaxVersion
  /\ prog' = Off(prog.version + 1)
  /\ UNCHANGED <<files, store, history>>

Next ==
  \/ Start \/ AddFiles \/ HasPreview \/ LoadFails \/ BeginPreview \/ EndPreview
  \/ Run \/ SaveConfig \/ DestroyDatabase \/ Killed \/ Upgrade
  \/ \E s \in Sums : Select(s)
  \/ \E p \in Paths, c \in Contents \union {None} : Change(p, c)

Spec == Init /\ [][Next]_vars

-----------------------------------------------------------------------------

\* What a running program shows for a level is a preview of that level, whatever
\* came and went in the runs before and however they ended: except for a file
\* saved over another one after its sum was taken, for one that has the sum of
\* a file that was there before, and for one whose preview was being written
\* when the program was killed.
PreviewIsOfLevel ==
  prog.phase = "running" =>
    \A e \in ToSet(prog.entries) :
      LET c == files[e.path]
          p == store.previews[e.sum]
      IN \/ c = None \/ e.sum # Sum[c]
         \/ \E d \in history.there : d # c /\ Sum[d] = Sum[c]
         \/ p \in {c, Torn}
=============================================================================
