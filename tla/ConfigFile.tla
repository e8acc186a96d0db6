----------------------------- MODULE ConfigFile -----------------------------
(***************************************************************************)
(* Who creates, edits and reads redcli.json: the commands init, edit and   *)
(* run as processes that share a file system with each other and with the  *)
(* user, any of which may die between two of its steps.  Sources:          *)
(* rle4k_config_search_dirs .. rle4k_open_in_editor of                     *)
(* src/redcli/rle4k_config.h and the three rle4k_cmd_* of                  *)
(* src/redcli/main.cpp.                                                    *)
(*                                                                         *)
(* A file is the pieces of it that have reached the disk; a piece that has *)
(* not is a "hole".  What the pieces say is the business of ConfigScan.    *)
(***************************************************************************)
EXTENDS Integers, Sequences

CONSTANTS
  Processes,     \* commands that are started, once each
  Commands,      \* subset of {"init", "edit", "run"}
  Pieces,        \* pieces a redcli.json is written in
  KnowsExeDir,   \* GetModuleFileName is there (Windows)
  Where,         \* the directory each search name leads to
  MaxSaves       \* bound on what the user does

SearchNames == {".", "..", "exe", "exe/..", "exe/../..", "docs", "../docs"}
Directory   == {Where[n] : n \in SearchNames}

ASSUME ConfigFileAssumption ==
  /\ Commands \subseteq {"init", "edit", "run"}
  /\ Pieces \in Nat \ {0} /\ MaxSaves \in Nat
  /\ KnowsExeDir \in BOOLEAN
  /\ DOMAIN Where = SearchNames
  /\ "user" \notin Processes

VARIABLES
  disk,      \* directory -> its redcli.json, Absent when there is none
  creator,   \* history: directory -> who opened that file for writing
  quiet,     \* history: commands since whose start nobody else changed a file
  appeared,  \* history: process -> directories that got a file after its last look there
  pc,        \* process -> the step it is at
  command,   \* process -> its command
  probe,     \* process -> place in the search order
  path,      \* process -> the directory it works on
  written,   \* process -> pieces written
  exit,      \* process -> its exit code, -1 before the end
  loaded,    \* process -> what run loaded
  saves      \* history: steps of the user

local == <<command, probe, path, written, exit, loaded>>
files == <<disk, creator, quiet, saves>>
vars  == <<files, appeared, pc, local>>

Absent == <<>>
Piece  == {"hole", "builtin", "user"}
Whole(who) == [i \in 1 .. Pieces |-> who]
Empty  == Whole("hole")
Exists(d) == disk[d] # Absent
Partial(d) == \E i \in DOMAIN disk[d] : disk[d][i] = "hole"

\* Faulty: the directory of the program is not searched.
SearchOrder_NoExe == <<".", "..", "docs", "../docs">>

\* rle4k_config_search_dirs
SearchOrder ==
  IF KnowsExeDir THEN <<".", "..", "exe", "exe/..", "exe/../..", "docs", "../docs">>
  ELSE <<".", "..", "docs", "../docs">>

\* rle4k_default_config_dest
Destination == IF KnowsExeDir THEN Where["exe"] ELSE Where["."]

AtWork == {p \in Processes : pc[p] \notin {"idle", "done", "dead"}}

Init ==
  /\ disk \in [Directory -> {Absent, Whole("user")}]
  /\ creator = [d \in Directory |-> "user"]
  /\ quiet = {}
  /\ appeared = [p \in Processes |-> {}]
  /\ pc = [p \in Processes |-> "idle"]
  /\ command \in [Processes -> Commands]
  /\ probe = [p \in Processes |-> 1]
  /\ path = [p \in Processes |-> Where["."]]
  /\ written = [p \in Processes |-> 0]
  /\ exit = [p \in Processes |-> -1]
  /\ loaded = [p \in Processes |-> Absent]
  /\ saves = 0

At(p, label)   == pc[p] = label
Goto(p, label) == pc' = [pc EXCEPT ![p] = label]
Exit(p, code)  == Goto(p, "done") /\ exit' = [exit EXCEPT ![p] = code]
Unmoved        == UNCHANGED <<files, appeared>>

\* p looks whether there is a redcli.json in directory d ...
Look(p, d) == appeared' = [appeared EXCEPT ![p] = @ \ {d}]

\* ... and does not see those that come later.
Appear == appeared' = [p \in Processes |-> appeared[p] \cup {d \in Directory : ~Exists(d) /\ Exists(d)'}]

Start(p) ==
  /\ At(p, "idle")
  /\ Goto(p, IF command[p] = "init" THEN "check" ELSE "resolve")
  /\ quiet' = quiet \cup {p}
  /\ UNCHANGED <<disk, creator, saves, appeared, local>>

\* Faulty: no look for a file that is there.
InitCheck_Not(p) ==
  /\ At(p, "check")
  /\ Goto(p, "create")
  /\ Unmoved /\ UNCHANGED local

\* rle4k_cmd_init: does redcli.json exist in the working directory?
InitCheck(p) ==
  /\ At(p, "check")
  /\ IF Exists(Where["."]) THEN Exit(p, 0) ELSE Goto(p, "create") /\ exit' = exit
  /\ Look(p, Where["."])
  /\ UNCHANGED files /\ UNCHANGED <<command, probe, path, written, loaded>>

\* rle4k_resolve_config_path, one directory: the first hit is taken.  When there
\* is none, edit will create one (rle4k_ensure_config_file), run does without.
Resolve(p) ==
  /\ At(p, "resolve")
  /\ IF probe[p] > Len(SearchOrder)
     THEN IF command[p] = "edit"
          THEN Goto(p, "create") /\ path' = [path EXCEPT ![p] = Destination]
               /\ UNCHANGED <<probe, exit, appeared>>
          ELSE Exit(p, 0) /\ UNCHANGED <<probe, path, appeared>>
     ELSE /\ probe' = [probe EXCEPT ![p] = @ + 1]
          /\ LET d == Where[SearchOrder[probe[p]]]
             IN  IF Exists(d)
                 THEN path' = [path EXCEPT ![p] = d] /\ Goto(p, IF command[p] = "edit" THEN "open" ELSE "load")
                 ELSE UNCHANGED <<path, pc>>
          /\ Look(p, Where[SearchOrder[probe[p]]])
          /\ exit' = exit
  /\ UNCHANGED files /\ UNCHANGED <<command, written, loaded>>

\* rle4k_write_default_config: the file is opened and truncated ...
Create(p) ==
  /\ At(p, "create")
  /\ \/ /\ Exit(p, 1)                                   \* it cannot be opened
        /\ UNCHANGED <<disk, creator, quiet, appeared>>
     \/ /\ disk' = [disk EXCEPT ![path[p]] = Empty]
        /\ quiet' = quiet \cap {p}
        /\ creator' = [creator EXCEPT ![path[p]] = p]
        /\ Appear
        /\ Goto(p, "write") /\ exit' = exit
  /\ UNCHANGED <<command, probe, path, written, loaded, saves>>

\* A piece written into a file that another may have replaced or removed: what
\* is removed is written to all the same, and gone when it is closed.
Over(file, i) == IF file = Absent THEN Absent ELSE [file EXCEPT ![i] = "builtin"]

\* ... the pieces are written in order ...
Write(p) ==
  /\ At(p, "write") /\ written[p] < Pieces
  /\ written' = [written EXCEPT ![p] = @ + 1]
  /\ disk' = [disk EXCEPT ![path[p]] = Over(@, written'[p])]
  /\ quiet' = quiet \cap {p}
  /\ UNCHANGED <<creator, appeared, pc, command, probe, path, exit, loaded, saves>>

\* Faulty: the stream is not looked at after the flush.
WriteFails_Unnoticed(p) ==
  /\ At(p, "write") /\ written[p] < Pieces
  /\ IF command[p] = "init" THEN Exit(p, 0) ELSE Goto(p, "open") /\ exit' = exit
  /\ Unmoved /\ UNCHANGED <<command, probe, path, written, loaded>>

\* ... a failure is noticed at the latest after the flush ...
WriteFails(p) ==
  /\ At(p, "write") /\ written[p] < Pieces
  /\ Exit(p, 1)
  /\ Unmoved /\ UNCHANGED <<command, probe, path, written, loaded>>

\* ... and else init has done its work and edit goes on.
Written(p) ==
  /\ At(p, "write") /\ written[p] = Pieces
  /\ IF command[p] = "init" THEN Exit(p, 0) ELSE Goto(p, "open") /\ exit' = exit
  /\ Unmoved /\ UNCHANGED <<command, probe, path, written, loaded>>

\* rle4k_open_in_editor: std::system returns when the editor does.
OpenEditor(p) ==
  /\ At(p, "open")
  /\ (Goto(p, "editor") /\ exit' = exit) \/ Exit(p, 1)
  /\ Unmoved /\ UNCHANGED <<command, probe, path, written, loaded>>

\* The user saves the file in the editor, or leaves without.
CloseEditor(p) ==
  /\ At(p, "editor")
  /\ disk' \in {disk, [disk EXCEPT ![path[p]] = Whole("user")]}
  /\ creator' = [creator EXCEPT ![path[p]] = IF disk' = disk THEN @ ELSE "user"]
  /\ quiet' = IF disk' = disk THEN quiet ELSE quiet \cap {p}
  /\ Appear
  /\ Exit(p, 0)
  /\ UNCHANGED <<command, probe, path, written, loaded, saves>>

\* load_config opens the file it found; one that is gone, or cannot be read,
\* leaves the defaults.
Load(p) ==
  /\ At(p, "load")
  /\ loaded' \in {loaded, [loaded EXCEPT ![p] = disk[path[p]]]}
  /\ Exit(p, 0)
  /\ Unmoved /\ UNCHANGED <<command, probe, path, written>>

\* A command is killed between two of its steps.
Crash(p) ==
  /\ p \in AtWork
  /\ Goto(p, "dead")
  /\ Unmoved /\ UNCHANGED local

\* The user writes a redcli.json of his own, or removes one.
UserSaves ==
  /\ saves < MaxSaves
  /\ \E d \in Directory, f \in {Absent, Whole("user")} :
       /\ f # disk[d]
       /\ disk' = [disk EXCEPT ![d] = f]
       /\ creator' = [creator EXCEPT ![d] = "user"]
  /\ saves' = saves + 1
  /\ quiet' = {}
  /\ Appear
  /\ UNCHANGED <<pc, local>>

Step(p) ==
  \/ InitCheck(p) \/ Resolve(p) \/ Create(p) \/ Write(p) \/ WriteFails(p) \/ Written(p)
  \/ OpenEditor(p) \/ Load(p)

AllOver ==
  /\ \A p \in Processes : pc[p] \in {"done", "dead"}
  /\ UNCHANGED vars

Next ==
  \/ \E p \in Processes : Start(p) \/ Step(p) \/ CloseEditor(p) \/ Crash(p)
  \/ UserSaves
  \/ AllOver

Spec == Init /\ [][Next]_vars
-----------------------------------------------------------------------------
\* p is writing the file of directory d, was killed while it did, or could not.
Accountable(p, d) ==
  /\ creator[d] = p /\ path[p] = d /\ written[p] < Pieces
  /\ pc[p] \in {"write", "dead"} \/ exit[p] = 1

\* A redcli.json with a piece missing is being written by the command that created
\* it, or that command was killed or ended with exit code 1: no command that
\* reports success leaves a damaged file, whoever else is at work.
DamageIsConfined ==
  \A d \in Directory : Partial(d) => \E p \in Processes : Accountable(p, d)

\* The user saves over, or removes, a redcli.json.
UserChanges == saves' # saves \/ \E p \in Processes : At(p, "editor") /\ ~At(p, "editor")'

\* p opens or goes on writing the redcli.json of directory d.
Writes(p, d) == path[p] = d /\ (pc'[p] # pc[p] \/ written'[p] # written[p])

\* src/docs/redcli.help.md:38, "never overwrite": only the user, and the command
\* that created it, ever change what a redcli.json holds.
NeverOverwritten ==
  [][\A d \in Directory :
       Exists(d) /\ disk'[d] # disk[d] =>
         UserChanges \/ \E p \in Processes : Writes(p, d) /\ creator[d] = p]_vars

\* What becomes of "never overwrite" with looking and opening in two steps
\* (main.cpp:463, rle4k_config.h:295 and :313): a file that is there when a command
\* looks into its directory is not opened for writing by that command.  A file is
\* lost only if it appears after the look, through the user or another command.
FoundIsKept ==
  [][\A d \in Directory :
       Exists(d) /\ disk'[d] # disk[d] =>
         UserChanges \/ \E p \in Processes : Writes(p, d) /\ (At(p, "write") \/ d \in appeared[p])]_vars

\* The first redcli.json that a search meets is that of directory d.
FoundFirst(d) ==
  /\ Exists(d)
  /\ \E i \in 1 .. Len(SearchOrder) :
       /\ Where[SearchOrder[i]] = d
       /\ \A j \in 1 .. i - 1 : ~Exists(Where[SearchOrder[j]])

\* Unless others change files while it is at work, the file that init or edit
\* leaves behind is the one the next run will find, and run reads that file or
\* none.
CommandsAgreeOnFile ==
  [][\A p \in quiet :
       ~At(p, "done") /\ At(p, "done")' /\ exit'[p] = 0 =>
         IF command[p] # "run" THEN FoundFirst(path[p])'
         ELSE loaded'[p] # Absent => FoundFirst(path[p]) /\ loaded'[p] = disk[path[p]]]_vars
=============================================================================
