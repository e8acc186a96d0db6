-------------------------- MODULE ConfigFileProofs --------------------------
(***************************************************************************)
(* redcli.json under any number of commands, a user, failed writes and     *)
(* crashes, on every layout of directories: damage is confined, a file     *)
(* that a command finds is kept by it, and commands that nobody disturbs   *)
(* mean the same file.                                                     *)
(***************************************************************************)
EXTENDS ConfigFile, TLAPS

\* Every variable has its type.
FileTypes ==
  /\ disk \in [Directory -> {Absent} \cup [1 .. Pieces -> Piece]]
  /\ creator \in [Directory -> Processes \cup {"user"}]
  /\ quiet \subseteq Processes
  /\ pc \in [Processes -> {"idle", "check", "resolve", "create", "write", "open", "editor",
                          "load", "done", "dead"}]
  /\ command \in [Processes -> {"init", "edit", "run"}]
  /\ probe \in [Processes -> 1 .. Len(SearchOrder) + 1]
  /\ path \in [Processes -> Directory]
  /\ written \in [Processes -> 0 .. Pieces]
  /\ exit \in [Processes -> -1 .. 1]
  /\ loaded \in [Processes -> {Absent} \cup [1 .. Pieces -> Piece]]
  /\ saves \in Nat

\* Steps that only some commands come to, and what a command has at each.
CommandInv(p) ==
  /\ pc[p] # "done" => exit[p] = -1 /\ loaded[p] = Absent
  /\ pc[p] = "idle" => probe[p] = 1
  /\ pc[p] \in {"idle", "check", "resolve", "create"} => written[p] = 0
  /\ pc[p] \in {"idle", "check"} \/ command[p] = "init" => path[p] = Where["."]
  /\ pc[p] = "check" => command[p] = "init"
  /\ pc[p] = "resolve" => command[p] # "init"
  /\ pc[p] \in {"create", "write"} => command[p] # "run"
  /\ pc[p] \in {"open", "editor"} => command[p] = "edit"
  /\ pc[p] = "load" => command[p] = "run"

\* What a command has written of the file it created is not missing from it.
ContentInv(p) ==
  \A d \in Directory :
    creator[d] = p /\ path[p] = d /\ Exists(d) =>
      \A i \in 1 .. written[p] : disk[d][i] # "hole"

\* No redcli.json before place i of the search.
NoneBefore(i) == \A j \in 1 .. i - 1 : ~Exists(Where[SearchOrder[j]])

\* The search comes to directory d at place i, and not before.
ComesFirst(d, i) ==
  /\ Where[SearchOrder[i]] = d
  /\ \A j \in 1 .. i - 1 : Where[SearchOrder[j]] # d

\* What a command has seen still holds while nobody else changes a file.
SeenInv(p) ==
  p \in quiet =>
    /\ pc[p] = "resolve" => NoneBefore(probe[p])
    /\ pc[p] = "create" =>
         /\ ~Exists(path[p])
         /\ \E i \in 1 .. Len(SearchOrder) : ComesFirst(path[p], i) /\ NoneBefore(i)
    /\ pc[p] = "write" => creator[path[p]] = p
    /\ pc[p] \in {"write", "open", "editor", "load"} => FoundFirst(path[p])

FileInv ==
  /\ FileTypes /\ DamageIsConfined
  /\ \A p \in Processes : CommandInv(p) /\ ContentInv(p) /\ SeenInv(p)

-----------------------------------------------------------------------------
(* Facts about the search *)

\* The search names known directories; what edit may create is among them, and
\* the working directory comes first.
LEMMA SearchFacts ==
  /\ Len(SearchOrder) \in Nat \ {0}
  /\ \A i \in 1 .. Len(SearchOrder) : Where[SearchOrder[i]] \in Directory
  /\ Where["."] \in Directory /\ SearchOrder[1] = "."
  /\ Destination \in Directory
  /\ ComesFirst(Where["."], 1)
  /\ \E i \in 1 .. Len(SearchOrder) : ComesFirst(Destination, i)
  <1>1. CASE KnowsExeDir
    <2>1. /\ Len(SearchOrder) = 7
          /\ SearchOrder[1] = "." /\ SearchOrder[2] = ".." /\ SearchOrder[3] = "exe"
          /\ SearchOrder[4] = "exe/.." /\ SearchOrder[5] = "exe/../.."
          /\ SearchOrder[6] = "docs" /\ SearchOrder[7] = "../docs"
      BY <1>1 DEF SearchOrder
    <2>2. \A i \in 1 .. 7 : i = 1 \/ i = 2 \/ i = 3 \/ i = 4 \/ i = 5 \/ i = 6 \/ i = 7
      OBVIOUS
    <2>3. Destination = Where["exe"]
      BY <1>1 DEF Destination
    <2>4. \E i \in 1 .. 3 : ComesFirst(Destination, i)
      <3>1. CASE Where["."] = Where["exe"]
        BY <3>1, <2>1, <2>3 DEF ComesFirst
      <3>2. CASE Where["."] # Where["exe"] /\ Where[".."] = Where["exe"]
        <4>1. \A j \in 1 .. 1 : j = 1
          OBVIOUS
        <4>2. ComesFirst(Destination, 2)
          BY <3>2, <4>1, <2>1, <2>3 DEF ComesFirst
        <4> QED BY <4>2
      <3>3. CASE Where["."] # Where["exe"] /\ Where[".."] # Where["exe"]
        <4>1. \A j \in 1 .. 2 : j = 1 \/ j = 2
          OBVIOUS
        <4>2. ComesFirst(Destination, 3)
          BY <3>3, <4>1, <2>1, <2>3 DEF ComesFirst
        <4> QED BY <4>2
      <3> QED BY <3>1, <3>2, <3>3
    <2>5. ComesFirst(Where["."], 1)
      BY <2>1 DEF ComesFirst
    <2>6. \E i \in 1 .. Len(SearchOrder) : ComesFirst(Destination, i)
      BY <2>1, <2>4
    <2> QED BY <2>1, <2>2, <2>3, <2>5, <2>6 DEF Directory, SearchNames
  <1>2. CASE ~KnowsExeDir
    <2>1. /\ Len(SearchOrder) = 4
          /\ SearchOrder[1] = "." /\ SearchOrder[2] = ".." /\ SearchOrder[3] = "docs"
          /\ SearchOrder[4] = "../docs"
      BY <1>2 DEF SearchOrder
    <2>2. \A i \in 1 .. 4 : i = 1 \/ i = 2 \/ i = 3 \/ i = 4
      OBVIOUS
    <2>3. Destination = Where["."]
      BY <1>2 DEF Destination
    <2>4. ComesFirst(Where["."], 1)
      BY <2>1 DEF ComesFirst
    <2> QED BY <2>1, <2>2, <2>3, <2>4 DEF Directory, SearchNames
  <1> QED BY <1>1, <1>2

\* A file that was opened has its pieces; a missing file has none.
LEMMA FileFacts ==
  /\ \A who \in Piece : Whole(who) \in [1 .. Pieces -> Piece]
  /\ \A f \in [1 .. Pieces -> Piece] : f # Absent
  /\ DOMAIN Absent = {}
  <1>1. Pieces \in Nat \ {0}
    BY ConfigFileAssumption
  <1>2. \A who \in Piece : Whole(who) \in [1 .. Pieces -> Piece]
    BY <1>1 DEF Whole
  <1>3. DOMAIN Absent = {}
    BY DEF Absent
  <1>4. \A f \in [1 .. Pieces -> Piece] : f # Absent
    <2> SUFFICES ASSUME NEW f \in [1 .. Pieces -> Piece] PROVE DOMAIN f # DOMAIN Absent
      OBVIOUS
    <2>1. 1 \in DOMAIN f
      BY <1>1
    <2> QED BY <2>1, <1>3
  <1> QED BY <1>2, <1>3, <1>4

\* A step of one command leaves alone what the invariant says of another: either
\* no file changes, or the other has been disturbed.
LEMMA OthersUndisturbed ==
  ASSUME NEW v \in Processes, CommandInv(v), ContentInv(v), SeenInv(v),
         pc'[v] = pc[v], command'[v] = command[v], probe'[v] = probe[v], path'[v] = path[v],
         written'[v] = written[v], exit'[v] = exit[v], loaded'[v] = loaded[v],
         \A d \in Directory :
           creator'[d] = v /\ disk'[d] # Absent =>
             /\ creator[d] = v /\ disk[d] # Absent
             /\ \A i \in 1 .. written[v] : disk[d][i] # "hole" => disk'[d][i] # "hole",
         v \in quiet' => v \in quiet /\ disk' = disk /\ creator' = creator
  PROVE  CommandInv(v)' /\ ContentInv(v)' /\ SeenInv(v)'
  <1>1. CommandInv(v)'
    BY DEF CommandInv
  <1>2. ContentInv(v)'
    BY DEF ContentInv, Exists
  <1>3. SeenInv(v)'
    BY DEF SeenInv, FoundFirst, NoneBefore, Exists
  <1> QED BY <1>1, <1>2, <1>3

\* p is the only command that takes a step.
OnlyOf(p) ==
  \A v \in Processes \ {p} :
    /\ pc'[v] = pc[v] /\ command'[v] = command[v] /\ probe'[v] = probe[v]
    /\ path'[v] = path[v] /\ written'[v] = written[v] /\ exit'[v] = exit[v]
    /\ loaded'[v] = loaded[v]

\* A step that changes no file keeps the invariant when it keeps the part of the
\* command that takes it, and that command does not give up writing unnoticed.
LEMMA NoFileChanged ==
  ASSUME FileInv, NEW p \in Processes, OnlyOf(p), UNCHANGED <<disk, creator, written>>,
         quiet' \subseteq quiet \cup {p}, FileTypes',
         pc[p] \notin {"done", "dead"}, path'[p] = path[p] \/ pc[p] = "resolve",
         pc[p] = "write" /\ written[p] < Pieces => pc'[p] = "dead" \/ exit'[p] = 1,
         CommandInv(p)', SeenInv(p)'
  PROVE  FileInv'
  <1>1. ASSUME NEW v \in Processes, v # p PROVE CommandInv(v)' /\ ContentInv(v)' /\ SeenInv(v)'
    <2>1. CommandInv(v) /\ ContentInv(v) /\ SeenInv(v)
      BY DEF FileInv
    <2> QED BY <1>1, <2>1, OthersUndisturbed DEF OnlyOf
  <1>2. ContentInv(p)'
    <2> SUFFICES ASSUME NEW d \in Directory, creator[d] = p, path'[p] = d, Exists(d),
                        NEW i \in 1 .. written[p]
                 PROVE  disk[d][i] # "hole"
      BY DEF ContentInv, Exists
    <2>1. CASE path'[p] = path[p]
      BY <2>1 DEF FileInv, ContentInv
    <2>2. CASE pc[p] = "resolve"
      <3>1. written[p] = 0
        BY <2>2 DEF FileInv, CommandInv
      <3> QED BY <3>1
    <2> QED BY <2>1, <2>2
  <1>3. DamageIsConfined'
    <2> SUFFICES ASSUME NEW d \in Directory, Partial(d)'
                 PROVE  \E q \in Processes : Accountable(q, d)'
      BY DEF DamageIsConfined
    <2>0. Partial(d)
      BY DEF Partial
    <2>1. PICK q \in Processes : Accountable(q, d)
      BY <2>0 DEF FileInv, DamageIsConfined
    <2>2. CASE q # p
      <3>1. Accountable(q, d)'
        BY <2>1, <2>2 DEF OnlyOf, Accountable
      <3> QED BY <3>1
    <2>3. CASE q = p
      <3>1. pc[p] = "write"
        BY <2>1, <2>3 DEF FileInv, CommandInv, Accountable
      <3>2. Accountable(q, d)'
        BY <2>1, <2>3, <3>1 DEF Accountable
      <3> QED BY <3>2
    <2> QED BY <2>2, <2>3
  <1> QED BY <1>1, <1>2, <1>3 DEF FileInv

-----------------------------------------------------------------------------
(* Steps that change no file *)

\* A command begins with nothing seen or written.
LEMMA StartPreserves ==
  ASSUME FileInv, NEW p \in Processes, Start(p)
  PROVE  FileInv'
  <1> USE DEF Start, At, Goto, local
  <1>1. FileTypes'
    BY DEF FileInv, FileTypes
  <1>2. OnlyOf(p)
    BY DEF OnlyOf, FileInv, FileTypes
  <1>3. CommandInv(p)'
    BY DEF FileInv, FileTypes, CommandInv
  <1>4. SeenInv(p)'
    <2>2. pc'[p] \in {"check", "resolve"}
      BY DEF FileInv, FileTypes
    <2>3. probe[p] = 1
      BY DEF FileInv, CommandInv
    <2> QED BY <2>2, <2>3 DEF SeenInv, NoneBefore
  <1>5. pc[p] = "idle" /\ UNCHANGED <<disk, creator, written, path>> /\ quiet' \subseteq quiet \cup {p}
    OBVIOUS
  <1> HIDE DEF Start, At, Goto, local
  <1> QED BY <1>1, <1>2, <1>3, <1>4, <1>5, NoFileChanged

\* init looks into the working directory.
LEMMA InitCheckPreserves ==
  ASSUME FileInv, NEW p \in Processes, InitCheck(p)
  PROVE  FileInv'
  <1> USE DEF InitCheck, At, Goto, Exit, Unmoved, files
  <1>1. FileTypes'
    <2>1. CASE Exists(Where["."])
      <3>1. pc' = [pc EXCEPT ![p] = "done"] /\ exit' = [exit EXCEPT ![p] = 0]
        BY <2>1
      <3>2. exit' \in [Processes -> -1 .. 1]
        BY <3>1 DEF FileInv, FileTypes
      <3> QED BY <3>1, <3>2 DEF FileInv, FileTypes
    <2>2. CASE ~Exists(Where["."])
      BY <2>2 DEF FileInv, FileTypes
    <2> QED BY <2>1, <2>2
  <1>2. OnlyOf(p)
    BY DEF OnlyOf, FileInv, FileTypes
  <1>3. CommandInv(p)'
    BY DEF FileInv, FileTypes, CommandInv
  <1>4. SeenInv(p)'
    <2>1. CASE pc'[p] = "create"
      <3>1. path'[p] = Where["."] /\ ~Exists(Where["."]) /\ disk' = disk
        BY <2>1 DEF FileInv, FileTypes, CommandInv
      <3>2. 1 \in 1 .. Len(SearchOrder) /\ ComesFirst(Where["."], 1)
        BY SearchFacts
      <3>3. NoneBefore(1)'
        BY DEF NoneBefore
      <3> QED BY <2>1, <3>1, <3>2, <3>3 DEF SeenInv, Exists
    <2>2. CASE pc'[p] = "done"
      BY <2>2 DEF SeenInv
    <2> QED BY <2>1, <2>2 DEF FileInv, FileTypes
  <1>5. pc[p] = "check" /\ UNCHANGED <<disk, creator, written, path, quiet>>
    OBVIOUS
  <1> HIDE DEF InitCheck, At, Goto, Exit, Unmoved, files
  <1> QED BY <1>1, <1>2, <1>3, <1>4, <1>5, NoFileChanged

\* The search goes one directory further, finds a file, or is over.
LEMMA ResolvePreserves ==
  ASSUME FileInv, NEW p \in Processes, Resolve(p)
  PROVE  FileInv'
  <1> USE DEF Resolve, At, Goto, Exit, Unmoved, files
  <1>0. /\ pc[p] = "resolve" /\ UNCHANGED <<disk, creator, written, quiet>>
        /\ probe[p] \in 1 .. Len(SearchOrder) + 1 /\ Len(SearchOrder) \in Nat \ {0}
    BY SearchFacts DEF FileInv, FileTypes
  <1>a. CASE probe[p] > Len(SearchOrder) /\ command[p] = "edit"
    <2>0. /\ pc' = [pc EXCEPT ![p] = "create"] /\ path' = [path EXCEPT ![p] = Destination]
          /\ UNCHANGED <<probe, exit, command, loaded>>
      BY <1>a
    <2>1. FileTypes'
      BY <1>0, <2>0, SearchFacts DEF FileInv, FileTypes
    <2>2. OnlyOf(p)
      BY <1>0, <2>0 DEF OnlyOf, FileInv, FileTypes
    <2>3. CommandInv(p)'
      BY <1>0, <1>a, <2>0 DEF FileInv, FileTypes, CommandInv
    <2>4. SeenInv(p)'
      <3> SUFFICES ASSUME p \in quiet PROVE SeenInv(p)'
        BY <1>0 DEF SeenInv
      <3>1. \A j \in 1 .. Len(SearchOrder) : ~Exists(Where[SearchOrder[j]])
        BY <1>0, <1>a DEF FileInv, SeenInv, NoneBefore
      <3>2. PICK i \in 1 .. Len(SearchOrder) : ComesFirst(Destination, i)
        BY SearchFacts
      <3>3. /\ pc'[p] = "create" /\ path'[p] = Destination
        BY <2>0, SearchFacts DEF FileInv, FileTypes
      <3>4. ~Exists(path[p])' /\ NoneBefore(i)'
        BY <1>0, <3>1, <3>2, <3>3 DEF Exists, NoneBefore, ComesFirst
      <3> QED BY <3>2, <3>3, <3>4 DEF SeenInv
    <2> HIDE DEF Resolve, At, Goto, Exit, Unmoved, files
    <2> QED BY <1>0, <2>1, <2>2, <2>3, <2>4, NoFileChanged
  <1>b. CASE probe[p] > Len(SearchOrder) /\ command[p] # "edit"
    <2>0. /\ pc' = [pc EXCEPT ![p] = "done"] /\ exit' = [exit EXCEPT ![p] = 0]
          /\ UNCHANGED <<probe, path, command, loaded>>
      BY <1>b
    <2>1. FileTypes'
      BY <1>0, <2>0 DEF FileInv, FileTypes
    <2>2. OnlyOf(p)
      BY <1>0, <2>0 DEF OnlyOf, FileInv, FileTypes
    <2>3. CommandInv(p)' /\ SeenInv(p)'
      BY <1>0, <2>0 DEF FileInv, FileTypes, CommandInv, SeenInv
    <2> HIDE DEF Resolve, At, Goto, Exit, Unmoved, files
    <2> QED BY <1>0, <2>0, <2>1, <2>2, <2>3, NoFileChanged
  <1>c. CASE probe[p] <= Len(SearchOrder)
    <2> DEFINE d == Where[SearchOrder[probe[p]]]
    <2>0. /\ probe' = [probe EXCEPT ![p] = @ + 1] /\ UNCHANGED <<exit, command, loaded>>
          /\ IF Exists(d)
             THEN /\ path' = [path EXCEPT ![p] = d]
                  /\ pc' = [pc EXCEPT ![p] = IF command[p] = "edit" THEN "open" ELSE "load"]
             ELSE UNCHANGED <<path, pc>>
      BY <1>c, <1>0
    <2>1. d \in Directory
      BY <1>0, <1>c, SearchFacts
    <2>2. FileTypes'
      <3>1. probe' \in [Processes -> 1 .. Len(SearchOrder) + 1]
        BY <1>0, <1>c, <2>0 DEF FileInv, FileTypes
      <3>2. path' \in [Processes -> Directory]
        BY <2>0, <2>1 DEF FileInv, FileTypes
      <3>3. pc' \in [Processes -> {"idle", "check", "resolve", "create", "write", "open",
                                  "editor", "load", "done", "dead"}]
        BY <2>0 DEF FileInv, FileTypes
      <3> QED BY <1>0, <2>0, <3>1, <3>2, <3>3 DEF FileInv, FileTypes
    <2>3. OnlyOf(p)
      BY <1>0, <2>0 DEF OnlyOf, FileInv, FileTypes
    <2>4. CommandInv(p)'
      BY <1>0, <2>0, <2>1 DEF FileInv, FileTypes, CommandInv
    <2>5. SeenInv(p)'
      <3> SUFFICES ASSUME p \in quiet PROVE SeenInv(p)'
        BY <1>0 DEF SeenInv
      <3>1. NoneBefore(probe[p])
        BY <1>0 DEF FileInv, SeenInv
      <3>2. CASE Exists(d)
        <4>1. pc'[p] \in {"open", "load"} /\ path'[p] = d
          BY <2>0, <2>1, <3>2 DEF FileInv, FileTypes
        <4>2. FoundFirst(d)
          <5> HIDE DEF Resolve, At, Goto, Exit, Unmoved, files
          <5>1. probe[p] \in 1 .. Len(SearchOrder)
            BY <1>0, <1>c
          <5> QED BY <3>1, <3>2, <5>1 DEF FoundFirst, NoneBefore
        <4>3. FoundFirst(path[p])'
          BY <4>1, <4>2, <1>0 DEF FoundFirst, Exists
        <4> QED BY <4>1, <4>3 DEF SeenInv
      <3>3. CASE ~Exists(d)
        <4>1. pc'[p] = "resolve" /\ probe'[p] = probe[p] + 1
          BY <1>0, <2>0, <3>3 DEF FileInv, FileTypes
        <4>2. NoneBefore(probe[p])'
          BY <4>1, <1>0, <3>1, <3>3 DEF NoneBefore, Exists
        <4> QED BY <4>1, <4>2 DEF SeenInv
      <3> QED BY <3>2, <3>3
    <2>6. path'[p] = path[p] \/ pc[p] = "resolve"
      BY <1>0
    <2> HIDE DEF d, Resolve, At, Goto, Exit, Unmoved, files
    <2> QED BY <1>0, <2>2, <2>3, <2>4, <2>5, <2>6, NoFileChanged
  <1> QED BY <1>0, <1>a, <1>b, <1>c

\* A command ends without having changed a file.
LEMMA EndPreserves ==
  ASSUME FileInv, NEW p \in Processes, pc[p] \notin {"idle", "done", "dead"},
         NEW c \in {0, 1}, NEW f \in {Absent} \cup [1 .. Pieces -> Piece],
         pc' = [pc EXCEPT ![p] = "done"], exit' = [exit EXCEPT ![p] = c],
         loaded' \in {loaded, [loaded EXCEPT ![p] = f]},
         UNCHANGED <<files, command, probe, path, written>>,
         pc[p] = "write" /\ written[p] < Pieces => c = 1
  PROVE  FileInv'
  <1> USE DEF files
  <1>1. FileTypes'
    <2>1. exit' \in [Processes -> -1 .. 1]
      BY DEF FileInv, FileTypes
    <2>2. loaded' \in [Processes -> {Absent} \cup [1 .. Pieces -> Piece]]
      BY DEF FileInv, FileTypes
    <2>3. pc' \in [Processes -> {"idle", "check", "resolve", "create", "write", "open", "editor",
                               "load", "done", "dead"}]
      BY DEF FileInv, FileTypes
    <2> QED BY <2>1, <2>2, <2>3 DEF FileInv, FileTypes
  <1>2. OnlyOf(p)
    BY DEF OnlyOf, FileInv, FileTypes
  <1>3. pc'[p] = "done" /\ exit'[p] = c
    BY DEF FileInv, FileTypes
  <1>4. CommandInv(p)' /\ SeenInv(p)'
    BY <1>3 DEF FileInv, CommandInv, SeenInv
  <1> QED BY <1>1, <1>2, <1>3, <1>4, NoFileChanged

\* A command goes on to the editor, or is killed.
LEMMA MovePreserves ==
  ASSUME FileInv, NEW p \in Processes, pc[p] \notin {"idle", "done", "dead"},
         NEW l \in {"open", "editor", "dead"}, pc' = [pc EXCEPT ![p] = l],
         UNCHANGED <<files, local>>,
         l # "dead" => /\ command[p] = "edit" /\ pc[p] \in {"write", "open"}
                       /\ pc[p] = "write" => written[p] = Pieces
  PROVE  FileInv'
  <1> USE DEF files, local
  <1>1. FileTypes'
    BY DEF FileInv, FileTypes
  <1>2. OnlyOf(p)
    BY DEF OnlyOf, FileInv, FileTypes
  <1>3. pc'[p] = l
    BY DEF FileInv, FileTypes
  <1>4. CommandInv(p)'
    BY <1>3 DEF FileInv, CommandInv
  <1>5. SeenInv(p)'
    <2> SUFFICES ASSUME p \in quiet, l # "dead" PROVE FoundFirst(path[p])'
      BY <1>3 DEF SeenInv
    <2>1. FoundFirst(path[p])
      BY DEF FileInv, SeenInv
    <2> QED BY <2>1 DEF FoundFirst, Exists
  <1>6. pc[p] = "write" /\ written[p] < Pieces => pc'[p] = "dead"
    BY <1>3, ConfigFileAssumption
  <1> QED BY <1>1, <1>2, <1>4, <1>5, <1>6, NoFileChanged

\* A failed write leaves damage for which its command is accountable.
LEMMA WriteFailsPreserves ==
  ASSUME FileInv, NEW p \in Processes, WriteFails(p)
  PROVE  FileInv'
  BY EndPreserves DEF WriteFails, At, Goto, Exit, Unmoved

\* A complete file is closed.
LEMMA WrittenPreserves ==
  ASSUME FileInv, NEW p \in Processes, Written(p)
  PROVE  FileInv'
  <1> USE DEF Written, At, Goto, Exit, Unmoved
  <1>1. CASE command[p] = "init"
    BY <1>1, EndPreserves, ConfigFileAssumption
  <1>2. CASE command[p] # "init"
    <2>1. command[p] = "edit"
      BY <1>2 DEF FileInv, FileTypes, CommandInv
    <2> QED BY <1>2, <2>1, MovePreserves DEF local
  <1> QED BY <1>1, <1>2

\* edit hands the file that it has found or made to the editor.
LEMMA OpenEditorPreserves ==
  ASSUME FileInv, NEW p \in Processes, OpenEditor(p)
  PROVE  FileInv'
  <1> USE DEF OpenEditor, At, Goto, Exit, Unmoved
  <1>1. CASE Goto(p, "editor") /\ exit' = exit
    <2>1. command[p] = "edit"
      BY DEF FileInv, CommandInv
    <2> QED BY <1>1, <2>1, MovePreserves DEF local
  <1>2. CASE Exit(p, 1)
    BY <1>2, EndPreserves
  <1> QED BY <1>1, <1>2

\* run reads what is there.
LEMMA LoadPreserves ==
  ASSUME FileInv, NEW p \in Processes, Load(p)
  PROVE  FileInv'
  <1>1. disk[path[p]] \in {Absent} \cup [1 .. Pieces -> Piece]
    BY DEF FileInv, FileTypes
  <1> QED BY <1>1, EndPreserves DEF Load, At, Goto, Exit, Unmoved

\* A killed command leaves what it has written.
LEMMA CrashPreserves ==
  ASSUME FileInv, NEW p \in Processes, Crash(p)
  PROVE  FileInv'
  BY MovePreserves DEF Crash, AtWork, At, Goto, Unmoved

-----------------------------------------------------------------------------
(* Steps that change a file *)

\* The file that is opened for writing is the one of the command that opens it;
\* a command that has not been disturbed creates it, and no earlier one is there.
LEMMA CreatePreserves ==
  ASSUME FileInv, NEW p \in Processes, Create(p)
  PROVE  FileInv'
  <1> USE DEF Create, At, Goto, Exit
  <1>1. CASE Exit(p, 1) /\ UNCHANGED <<disk, creator, quiet>>
    BY <1>1, EndPreserves DEF files
  <1>2. CASE ~(Exit(p, 1) /\ UNCHANGED <<disk, creator, quiet>>)
    <2>0. /\ pc[p] = "create" /\ pc' = [pc EXCEPT ![p] = "write"]
          /\ disk' = [disk EXCEPT ![path[p]] = Empty]
          /\ creator' = [creator EXCEPT ![path[p]] = p] /\ quiet' = quiet \cap {p}
          /\ UNCHANGED <<command, probe, path, written, exit, loaded, saves>>
      BY <1>2
    <2>1. path[p] \in Directory /\ written[p] = 0 /\ Pieces \in Nat \ {0}
      BY <2>0, ConfigFileAssumption DEF FileInv, FileTypes, CommandInv
    <2>2. Empty \in [1 .. Pieces -> Piece] /\ Empty # Absent
      BY FileFacts DEF Empty, Piece
    <2>3. /\ pc'[p] = "write" /\ creator'[path[p]] = p /\ disk'[path[p]] = Empty
          /\ \A d \in Directory \ {path[p]} : creator'[d] = creator[d] /\ disk'[d] = disk[d]
      BY <2>0, <2>1 DEF FileInv, FileTypes
    <2> HIDE DEF Create, At, Goto, Exit
    <2>4. FileTypes'
      BY <2>0, <2>1, <2>2 DEF FileInv, FileTypes
    <2>5. ASSUME NEW v \in Processes, v # p PROVE CommandInv(v)' /\ ContentInv(v)' /\ SeenInv(v)'
      <3>1. CommandInv(v) /\ ContentInv(v) /\ SeenInv(v) /\ v \notin quiet' /\ pc'[v] = pc[v]
        BY <2>0, <2>5 DEF FileInv, FileTypes
      <3> QED BY <2>0, <2>3, <2>5, <3>1, OthersUndisturbed
    <2>6. CommandInv(p)' /\ ContentInv(p)'
      BY <2>0, <2>1, <2>3 DEF FileInv, CommandInv, ContentInv
    <2>7. SeenInv(p)'
      <3> SUFFICES ASSUME p \in quiet PROVE FoundFirst(path[p])'
        BY <2>0, <2>3 DEF SeenInv
      <3>1. PICK i \in 1 .. Len(SearchOrder) : ComesFirst(path[p], i) /\ NoneBefore(i)
        BY <2>0 DEF FileInv, SeenInv
      <3>2. \A j \in 1 .. i - 1 : j \in 1 .. Len(SearchOrder)
        BY SearchFacts
      <3>3. NoneBefore(i)'
        BY <2>3, <3>1, <3>2, SearchFacts DEF NoneBefore, ComesFirst, Exists
      <3>4. Exists(path[p])' /\ path'[p] = path[p]
        BY <2>0, <2>2, <2>3 DEF Exists
      <3> QED BY <3>1, <3>3, <3>4 DEF FoundFirst, NoneBefore, ComesFirst
    <2>8. DamageIsConfined'
      <3> SUFFICES ASSUME NEW d \in Directory, Partial(d)'
                   PROVE  \E q \in Processes : Accountable(q, d)'
        BY DEF DamageIsConfined
      <3>1. CASE d = path[p]
        <4>1. Accountable(p, d)'
          BY <2>0, <2>1, <2>3, <3>1 DEF Accountable
        <4> QED BY <4>1
      <3>2. CASE d # path[p]
        <4>1. PICK q \in Processes : Accountable(q, d)
          BY <2>3, <3>2 DEF FileInv, DamageIsConfined, Partial
        <4>2. Accountable(q, d)'
          BY <2>0, <2>3, <3>2, <4>1 DEF Accountable
        <4> QED BY <4>2
      <3> QED BY <3>1, <3>2
    <2> QED BY <2>4, <2>5, <2>6, <2>7, <2>8 DEF FileInv
  <1> QED BY <1>1, <1>2

\* A piece that is written closes its hole; with the last one no hole is left.
LEMMA WritePreserves ==
  ASSUME FileInv, NEW p \in Processes, Write(p)
  PROVE  FileInv'
  <1>0. /\ pc[p] = "write" /\ written[p] < Pieces
        /\ written' = [written EXCEPT ![p] = written[p] + 1]
        /\ disk' = [disk EXCEPT ![path[p]] = Over(disk[path[p]], written'[p])]
        /\ quiet' = quiet \cap {p}
        /\ UNCHANGED <<creator, pc, command, probe, path, exit, loaded, saves>>
    BY DEF Write, At
  <1>1. /\ path[p] \in Directory /\ written[p] \in Nat /\ Pieces \in Nat \ {0}
        /\ written'[p] = written[p] + 1 /\ written[p] + 1 \in 1 .. Pieces
    BY <1>0, ConfigFileAssumption DEF FileInv, FileTypes
  <1>2. /\ disk[path[p]] \in {Absent} \cup [1 .. Pieces -> Piece]
        /\ \A d \in Directory \ {path[p]} : disk'[d] = disk[d]
        /\ disk'[path[p]] = Over(disk[path[p]], written[p] + 1)
    BY <1>0, <1>1 DEF FileInv, FileTypes
  <1>3. /\ Over(disk[path[p]], written[p] + 1) \in {Absent} \cup [1 .. Pieces -> Piece]
        /\ Over(disk[path[p]], written[p] + 1) = Absent <=> disk[path[p]] = Absent
    <2>1. CASE disk[path[p]] = Absent
      BY <2>1 DEF Over
    <2>2. CASE disk[path[p]] # Absent
      <3>1. Over(disk[path[p]], written[p] + 1) = [disk[path[p]] EXCEPT ![written[p] + 1] = "builtin"]
        BY <2>2 DEF Over
      <3>2. Over(disk[path[p]], written[p] + 1) \in [1 .. Pieces -> Piece]
        BY <1>1, <1>2, <2>2, <3>1 DEF Piece
      <3> QED BY <2>2, <3>2, FileFacts
    <2> QED BY <2>1, <2>2
  <1>4. \A d \in Directory : Exists(d)' <=> Exists(d)
    BY <1>2, <1>3 DEF Exists
  <1>5. /\ Exists(path[p]) => disk'[path[p]][written[p] + 1] # "hole"
        /\ \A d \in Directory : Exists(d) =>
             \A i \in 1 .. Pieces : disk[d][i] # "hole" => disk'[d][i] # "hole"
    <2>1. CASE ~Exists(path[p])
      BY <1>2, <2>1
    <2>2. CASE Exists(path[p])
      <3>1. /\ disk[path[p]] \in [1 .. Pieces -> Piece]
            /\ disk'[path[p]] = [disk[path[p]] EXCEPT ![written[p] + 1] = "builtin"]
        BY <1>2, <2>2 DEF Over, Exists
      <3>2. \A i \in 1 .. Pieces : disk'[path[p]][i] = IF i = written[p] + 1 THEN "builtin"
                                                    ELSE disk[path[p]][i]
        BY <1>1, <3>1
      <3> QED BY <1>1, <1>2, <3>2
    <2> QED BY <2>1, <2>2
  <1>6. FileTypes'
    <2>1. disk' \in [Directory -> {Absent} \cup [1 .. Pieces -> Piece]]
      <3> DEFINE f == Over(disk[path[p]], written'[p])
      <3>1. f \in {Absent} \cup [1 .. Pieces -> Piece]
        BY <1>1, <1>3
      <3>2. disk' = [disk EXCEPT ![path[p]] = f]
        BY <1>0
      <3> HIDE DEF f
      <3> QED BY <1>1, <3>1, <3>2 DEF FileInv, FileTypes
    <2>2. written' \in [Processes -> 0 .. Pieces]
      BY <1>0, <1>1 DEF FileInv, FileTypes
    <2> QED BY <1>0, <2>1, <2>2 DEF FileInv, FileTypes
  <1>7. ASSUME NEW v \in Processes, v # p PROVE CommandInv(v)' /\ ContentInv(v)' /\ SeenInv(v)'
    <2>1. CommandInv(v) /\ ContentInv(v) /\ SeenInv(v) /\ v \notin quiet'
          /\ written'[v] = written[v] /\ written[v] \in 0 .. Pieces
      BY <1>0, <1>7 DEF FileInv, FileTypes
    <2>2. \A d \in Directory :
            disk'[d] # Absent =>
              /\ disk[d] # Absent
              /\ \A i \in 1 .. written[v] : disk[d][i] # "hole" => disk'[d][i] # "hole"
      BY <1>1, <1>4, <1>5, <2>1 DEF Exists
    <2> QED BY <1>0, <2>1, <2>2, OthersUndisturbed
  <1>8. CommandInv(p)'
    BY <1>0 DEF FileInv, CommandInv
  <1>9. ContentInv(p)'
    <2> SUFFICES ASSUME NEW d \in Directory, creator[d] = p, path[p] = d, Exists(d),
                        NEW i \in 1 .. written[p] + 1
                 PROVE  disk'[d][i] # "hole"
      BY <1>0, <1>1, <1>4 DEF ContentInv
    <2>1. CASE i = written[p] + 1
      BY <1>5, <2>1
    <2>2. CASE i # written[p] + 1
      <3>1. i \in 1 .. written[p] /\ i \in 1 .. Pieces
        BY <1>1, <2>2
      <3>2. disk[d][i] # "hole"
        BY <3>1 DEF FileInv, ContentInv
      <3> QED BY <1>5, <3>1, <3>2
    <2> QED BY <2>1, <2>2
  <1>10. SeenInv(p)'
    <2> SUFFICES ASSUME p \in quiet PROVE creator[path[p]] = p /\ FoundFirst(path[p])'
      BY <1>0 DEF SeenInv
    <2>1. creator[path[p]] = p /\ FoundFirst(path[p])
      BY <1>0 DEF FileInv, SeenInv
    <2>2. \A j \in 1 .. Len(SearchOrder) : Where[SearchOrder[j]] \in Directory
      BY SearchFacts
    <2>3. PICK i \in 1 .. Len(SearchOrder) :
            /\ Where[SearchOrder[i]] = path[p]
            /\ \A j \in 1 .. i - 1 : ~Exists(Where[SearchOrder[j]])
      BY <2>1 DEF FoundFirst
    <2>4. \A j \in 1 .. i - 1 : j \in 1 .. Len(SearchOrder)
      BY SearchFacts
    <2>5. \A j \in 1 .. i - 1 : ~Exists(Where[SearchOrder[j]])'
      BY <1>4, <2>2, <2>3, <2>4
    <2>6. Exists(path[p])' /\ path'[p] = path[p]
      BY <1>0, <1>1, <1>4, <2>1 DEF FoundFirst, Exists
    <2> QED BY <2>1, <2>3, <2>5, <2>6 DEF FoundFirst
  <1>11. DamageIsConfined'
    <2> SUFFICES ASSUME NEW d \in Directory, Partial(d)'
                 PROVE  \E q \in Processes : Accountable(q, d)'
      BY DEF DamageIsConfined
    <2>0. disk'[d] \in {Absent} \cup [1 .. Pieces -> Piece] /\ disk[d] \in {Absent} \cup [1 .. Pieces -> Piece]
      BY <1>6 DEF FileInv, FileTypes
    <2>1. PICK i \in DOMAIN disk'[d] : disk'[d][i] = "hole"
      BY DEF Partial
    <2>2. i \in 1 .. Pieces /\ disk'[d] # Absent
      BY <2>0, <2>1, FileFacts
    <2>3. Exists(d) /\ disk[d][i] = "hole" /\ DOMAIN disk[d] = 1 .. Pieces
      BY <1>4, <1>5, <2>0, <2>1, <2>2 DEF Exists
    <2>4. PICK q \in Processes : Accountable(q, d)
      BY <2>2, <2>3 DEF FileInv, DamageIsConfined, Partial
    <2>5. CASE q # p
      <3>1. Accountable(q, d)'
        BY <1>0, <2>4, <2>5 DEF Accountable, FileInv, FileTypes
      <3> QED BY <3>1
    <2>6. CASE q = p
      <3>1. creator[d] = p /\ path[p] = d
        BY <2>4, <2>6 DEF Accountable
      <3>2. written[p] + 1 < Pieces
        <4> SUFFICES ASSUME written[p] + 1 = Pieces PROVE FALSE
          BY <1>1
        <4>1. i \in 1 .. written'[p] /\ creator'[d] = p /\ path'[p] = d /\ Exists(d)'
          BY <1>0, <1>1, <2>2, <3>1 DEF Exists
        <4> QED BY <1>9, <2>1, <4>1 DEF ContentInv
      <3>3. Accountable(p, d)'
        BY <1>0, <1>1, <3>1, <3>2 DEF Accountable
      <3> QED BY <3>3
    <2> QED BY <2>5, <2>6
  <1> QED BY <1>6, <1>7, <1>8, <1>9, <1>10, <1>11 DEF FileInv

\* A file that the user saves or removes: it has no holes and is no command's.
LEMMA UserReplaces ==
  ASSUME FileInv, NEW at \in Directory, NEW f \in {Absent, Whole("user")},
         disk' = [disk EXCEPT ![at] = f], creator' = [creator EXCEPT ![at] = "user"],
         UNCHANGED <<path, written>>,
         \A v \in Processes : (pc'[v] = pc[v] /\ exit'[v] = exit[v]) \/ pc[v] = "editor"
  PROVE  /\ DamageIsConfined'
         /\ disk' \in [Directory -> {Absent} \cup [1 .. Pieces -> Piece]]
         /\ creator' \in [Directory -> Processes \cup {"user"}]
         /\ \A v \in Processes, d \in Directory :
              creator'[d] = v => creator[d] = v /\ disk'[d] = disk[d]
  <1>1. /\ disk'[at] = f /\ creator'[at] = "user"
        /\ \A d \in Directory \ {at} : disk'[d] = disk[d] /\ creator'[d] = creator[d]
    BY DEF FileInv, FileTypes
  <1>2. f \in {Absent} \cup [1 .. Pieces -> Piece]
    BY FileFacts DEF Piece
  <1>3. \A i \in DOMAIN f : f[i] # "hole"
    <2>1. CASE f = Absent
      BY <2>1, FileFacts
    <2>2. CASE f = Whole("user")
      BY <2>2 DEF Whole
    <2> QED BY <2>1, <2>2
  <1>4. DamageIsConfined'
    <2> SUFFICES ASSUME NEW d \in Directory, Partial(d)'
                 PROVE  \E q \in Processes : Accountable(q, d)'
      BY DEF DamageIsConfined
    <2>1. d # at
      BY <1>1, <1>3 DEF Partial
    <2>2. PICK q \in Processes : Accountable(q, d)
      BY <1>1, <2>1 DEF FileInv, DamageIsConfined, Partial
    <2>3. pc[q] # "editor"
      BY <2>2 DEF FileInv, CommandInv, Accountable
    <2>4. Accountable(q, d)'
      BY <1>1, <2>1, <2>2, <2>3 DEF Accountable
    <2> QED BY <2>4
  <1>5. \A v \in Processes, d \in Directory : creator'[d] = v => creator[d] = v /\ disk'[d] = disk[d]
    BY <1>1, ConfigFileAssumption
  <1>6. disk' \in [Directory -> {Absent} \cup [1 .. Pieces -> Piece]]
    BY <1>2 DEF FileInv, FileTypes
  <1>7. creator' \in [Directory -> Processes \cup {"user"}]
    BY DEF FileInv, FileTypes
  <1> QED BY <1>4, <1>5, <1>6, <1>7

\* The end of the editor changes no file.
LEMMA CloseEditorPreserves ==
  ASSUME FileInv, NEW p \in Processes, CloseEditor(p)
  PROVE  FileInv'
  <1>0. /\ pc[p] = "editor" /\ pc' = [pc EXCEPT ![p] = "done"] /\ exit' = [exit EXCEPT ![p] = 0]
        /\ UNCHANGED <<command, probe, path, written, loaded, saves>>
    BY DEF CloseEditor, At, Exit, Goto
  <1>1. CASE disk' = disk
    <2>1. UNCHANGED files
      <3>1. creator' = [creator EXCEPT ![path[p]] = creator[path[p]]] /\ quiet' = quiet
        BY <1>1 DEF CloseEditor
      <3>2. creator' = creator
        BY <3>1 DEF FileInv, FileTypes
      <3> QED BY <1>0, <1>1, <3>1, <3>2 DEF files
    <2> QED BY <1>0, <2>1, EndPreserves
  <1>2. CASE disk' # disk
    <2>0. /\ disk' = [disk EXCEPT ![path[p]] = Whole("user")]
          /\ creator' = [creator EXCEPT ![path[p]] = "user"] /\ quiet' = quiet \cap {p}
      BY <1>2 DEF CloseEditor
    <2>1. /\ path[p] \in Directory /\ pc'[p] = "done"
          /\ \A v \in Processes : (pc'[v] = pc[v] /\ exit'[v] = exit[v]) \/ v = p
      BY <1>0 DEF FileInv, FileTypes
    <2>2. /\ DamageIsConfined'
          /\ disk' \in [Directory -> {Absent} \cup [1 .. Pieces -> Piece]]
          /\ creator' \in [Directory -> Processes \cup {"user"}]
          /\ \A v \in Processes, d \in Directory :
               creator'[d] = v => creator[d] = v /\ disk'[d] = disk[d]
      BY <1>0, <2>0, <2>1, UserReplaces
    <2>3. FileTypes'
      <3>1. exit' \in [Processes -> -1 .. 1]
        BY <1>0 DEF FileInv, FileTypes
      <3> QED BY <1>0, <2>0, <2>2, <3>1 DEF FileInv, FileTypes
    <2>4. ASSUME NEW v \in Processes, v # p PROVE CommandInv(v)' /\ ContentInv(v)' /\ SeenInv(v)'
      <3>1. CommandInv(v) /\ ContentInv(v) /\ SeenInv(v) /\ v \notin quiet'
        BY <2>0, <2>4 DEF FileInv
      <3> QED BY <1>0, <2>1, <2>2, <2>4, <3>1, OthersUndisturbed
    <2>5. CommandInv(p)' /\ SeenInv(p)'
      BY <1>0, <2>1 DEF FileInv, CommandInv, SeenInv
    <2>6. ContentInv(p)'
      BY <1>0, <2>2 DEF FileInv, ContentInv, Exists
    <2> QED BY <2>2, <2>3, <2>4, <2>5, <2>6 DEF FileInv
  <1> QED BY <1>1, <1>2

\* The user saves or removes a file, which disturbs every command.
LEMMA UserSavesPreserves ==
  ASSUME FileInv, UserSaves
  PROVE  FileInv'
  <1>1. PICK d \in Directory, f \in {Absent, Whole("user")} :
          disk' = [disk EXCEPT ![d] = f] /\ creator' = [creator EXCEPT ![d] = "user"]
    BY DEF UserSaves
  <1>2. saves' = saves + 1 /\ quiet' = {} /\ UNCHANGED <<pc, local>>
    BY DEF UserSaves
  <1>3. /\ DamageIsConfined'
        /\ disk' \in [Directory -> {Absent} \cup [1 .. Pieces -> Piece]]
        /\ creator' \in [Directory -> Processes \cup {"user"}]
        /\ \A v \in Processes, e \in Directory :
             creator'[e] = v => creator[e] = v /\ disk'[e] = disk[e]
    BY <1>1, <1>2, UserReplaces DEF local
  <1>4. FileTypes'
    BY <1>2, <1>3 DEF FileInv, FileTypes, local
  <1>5. ASSUME NEW v \in Processes PROVE CommandInv(v)' /\ ContentInv(v)' /\ SeenInv(v)'
    <2>1. CommandInv(v) /\ ContentInv(v) /\ SeenInv(v)
      BY DEF FileInv
    <2> QED BY <1>2, <1>3, <2>1, OthersUndisturbed DEF local
  <1> QED BY <1>3, <1>4, <1>5 DEF FileInv

-----------------------------------------------------------------------------
(* The theorems *)

\* Before any command runs, every redcli.json is the user's.
LEMMA InitHolds ==
  ASSUME Init
  PROVE  FileInv
  <1> USE DEF Init
  <1>1. FileTypes
    <2>1. disk \in [Directory -> {Absent} \cup [1 .. Pieces -> Piece]]
      BY FileFacts DEF Piece
    <2>2. /\ command \in [Processes -> {"init", "edit", "run"}]
          /\ written \in [Processes -> 0 .. Pieces] /\ exit \in [Processes -> -1 .. 1]
      <3>1. Commands \subseteq {"init", "edit", "run"} /\ 0 \in 0 .. Pieces
        BY ConfigFileAssumption
      <3>2. command \in [Processes -> Commands]
        OBVIOUS
      <3>3. command \in [Processes -> {"init", "edit", "run"}]
        <4> HIDE DEF Init
        <4> QED BY <3>1, <3>2
      <3> QED BY <3>1, <3>3
    <2>3. probe \in [Processes -> 1 .. Len(SearchOrder) + 1] /\ path \in [Processes -> Directory]
      BY SearchFacts
    <2>4. /\ creator \in [Directory -> Processes \cup {"user"}] /\ quiet \subseteq Processes
          /\ loaded \in [Processes -> {Absent} \cup [1 .. Pieces -> Piece]] /\ saves \in Nat
          /\ pc \in [Processes -> {"idle", "check", "resolve", "create", "write", "open",
                                  "editor", "load", "done", "dead"}]
      OBVIOUS
    <2> QED BY <2>1, <2>2, <2>3, <2>4 DEF FileTypes
  <1>2. DamageIsConfined
    <2>1. \A d \in Directory : disk[d] \in {Absent, Whole("user")}
      OBVIOUS
    <2> QED BY <2>1, FileFacts DEF DamageIsConfined, Partial, Whole
  <1>3. \A p \in Processes : CommandInv(p) /\ ContentInv(p) /\ SeenInv(p)
    BY ConfigFileAssumption DEF CommandInv, ContentInv, SeenInv
  <1> QED BY <1>1, <1>2, <1>3 DEF FileInv

\* Every step keeps the invariant.
LEMMA NextPreserves ==
  ASSUME FileInv, [Next]_vars
  PROVE  FileInv'
  <1>1. CASE UNCHANGED vars
    BY <1>1 DEF vars, files, local, FileInv, FileTypes, DamageIsConfined, Partial, Accountable,
                CommandInv, ContentInv, SeenInv, FoundFirst, NoneBefore, Exists
  <1>2. ASSUME NEW p \in Processes, Start(p) \/ Step(p) \/ CloseEditor(p) \/ Crash(p)
        PROVE  FileInv'
    BY <1>2, StartPreserves, InitCheckPreserves, ResolvePreserves, CreatePreserves,
       WritePreserves, WriteFailsPreserves, WrittenPreserves, OpenEditorPreserves,
       LoadPreserves, CloseEditorPreserves, CrashPreserves DEF Step
  <1>3. CASE UserSaves
    BY <1>3, UserSavesPreserves
  <1> QED BY <1>1, <1>2, <1>3 DEF Next, AllOver

\* What the invariant says holds all the time: in particular a redcli.json with a
\* piece missing is always some command's that is writing it, was killed, or has
\* said that it failed.
THEOREM DamageStaysConfined == Spec => []DamageIsConfined
  <1>1. FileInv => DamageIsConfined
    BY DEF FileInv
  <1> QED BY <1>1, InitHolds, NextPreserves, PTL DEF Spec

\* A file in a directory into which p has looked, and where it is not at work with
\* the file it found, has appeared since.
LookInv(p) ==
  /\ pc[p] = "resolve" => \A j \in 1 .. probe[p] - 1 :
       Exists(Where[SearchOrder[j]]) => Where[SearchOrder[j]] \in appeared[p]
  /\ pc[p] = "create" /\ Exists(path[p]) => path[p] \in appeared[p]

LooksInv ==
  /\ appeared \in [Processes -> SUBSET Directory]
  /\ \A p \in Processes : LookInv(p)

\* A command that does not move keeps what it knows when it is told of new files.
LEMMA LookKept ==
  ASSUME FileInv, NEW v \in Processes, LookInv(v),
         pc'[v] = pc[v], probe'[v] = probe[v], path'[v] = path[v],
         appeared[v] \subseteq appeared'[v],
         \A d \in Directory : Exists(d)' => Exists(d) \/ d \in appeared'[v]
  PROVE  LookInv(v)'
  <1>1. ASSUME pc[v] = "resolve", NEW j \in 1 .. probe[v] - 1, Exists(Where[SearchOrder[j]])'
        PROVE  Where[SearchOrder[j]] \in appeared'[v]
    <2>1. probe[v] \in 1 .. Len(SearchOrder) + 1 /\ Len(SearchOrder) \in Nat
      BY SearchFacts DEF FileInv, FileTypes
    <2>2. Where[SearchOrder[j]] \in Directory
      BY <2>1, SearchFacts
    <2> QED BY <1>1, <2>2 DEF LookInv
  <1>2. ASSUME pc[v] = "create", Exists(path[v])' PROVE path[v] \in appeared'[v]
    <2>1. path[v] \in Directory
      BY DEF FileInv, FileTypes
    <2>2. Exists(path[v]) \/ path[v] \in appeared'[v]
      BY <1>2, <2>1 DEF Exists
    <2> QED BY <1>2, <2>2 DEF LookInv
  <1> QED BY <1>1, <1>2 DEF LookInv, Exists

\* When files change, every command is told of those that appear.
LEMMA AppearKeeps ==
  ASSUME FileInv, LooksInv, Appear,
         \A v \in Processes : \/ pc'[v] = pc[v] /\ probe'[v] = probe[v] /\ path'[v] = path[v]
                              \/ pc'[v] \notin {"resolve", "create"}
  PROVE  LooksInv'
  <1>1. \A v \in Processes :
          appeared'[v] = appeared[v] \cup {d \in Directory : ~Exists(d) /\ Exists(d)'}
    BY DEF Appear
  <1>2. appeared' \in [Processes -> SUBSET Directory]
    BY DEF Appear, LooksInv
  <1>3. ASSUME NEW v \in Processes PROVE LookInv(v)'
    <2>1. CASE pc'[v] \notin {"resolve", "create"}
      BY <2>1 DEF LookInv
    <2>2. CASE pc'[v] = pc[v] /\ probe'[v] = probe[v] /\ path'[v] = path[v]
      <3>1. /\ appeared[v] \subseteq appeared'[v]
            /\ \A d \in Directory : Exists(d)' => Exists(d) \/ d \in appeared'[v]
        BY <1>1
      <3>2. LookInv(v)
        BY DEF LooksInv
      <3> QED BY <2>2, <3>1, <3>2, LookKept
    <2> QED BY <2>1, <2>2
  <1> QED BY <1>2, <1>3 DEF LooksInv

\* A step of p that changes no file keeps what the others know.
LEMMA LookersUndisturbed ==
  ASSUME FileInv, LooksInv, NEW p \in Processes, disk' = disk,
         appeared' \in [Processes -> SUBSET Directory], LookInv(p)',
         \A v \in Processes \ {p} : /\ pc'[v] = pc[v] /\ probe'[v] = probe[v]
                                    /\ path'[v] = path[v] /\ appeared'[v] = appeared[v]
  PROVE  LooksInv'
  <1>1. ASSUME NEW v \in Processes \ {p} PROVE LookInv(v)'
    <2>1. LookInv(v)
      BY DEF LooksInv
    <2> QED BY <2>1, LookKept DEF Exists
  <1> QED BY <1>1 DEF LooksInv

\* init and the search know of every file that they have not seen.
LEMMA LooksPreserved ==
  ASSUME FileInv, LooksInv, [Next]_vars
  PROVE  LooksInv'
  <1>1. ASSUME NEW p \in Processes, InitCheck(p) PROVE LooksInv'
    <2>1. /\ pc[p] = "check" /\ disk' = disk /\ UNCHANGED <<probe, path>>
          /\ appeared' = [appeared EXCEPT ![p] = @ \ {Where["."]}]
          /\ path[p] = Where["."] /\ pc'[p] \in {"done", "create"}
          /\ pc'[p] = "create" => ~Exists(Where["."])
          /\ \A v \in Processes \ {p} : pc'[v] = pc[v]
      BY <1>1 DEF InitCheck, At, Goto, Exit, Look, files, FileInv, FileTypes, CommandInv
    <2>2. LookInv(p)'
      BY <2>1 DEF LookInv, Exists
    <2>3. /\ appeared' \in [Processes -> SUBSET Directory]
          /\ \A v \in Processes \ {p} : appeared'[v] = appeared[v]
      BY <2>1 DEF LooksInv
    <2> QED BY <2>1, <2>2, <2>3, LookersUndisturbed
  <1>2. ASSUME NEW p \in Processes, Resolve(p) PROVE LooksInv'
    <2>1. /\ pc[p] = "resolve" /\ disk' = disk
          /\ probe[p] \in 1 .. Len(SearchOrder) + 1 /\ Len(SearchOrder) \in Nat \ {0}
          /\ \A v \in Processes \ {p} : pc'[v] = pc[v] /\ probe'[v] = probe[v] /\ path'[v] = path[v]
      BY <1>2, SearchFacts DEF Resolve, At, Goto, Exit, files, FileInv, FileTypes
    <2>2. \A j \in 1 .. probe[p] - 1 :
            Exists(Where[SearchOrder[j]]) => Where[SearchOrder[j]] \in appeared[p]
      BY <2>1 DEF LooksInv, LookInv
    <2>3. CASE probe[p] > Len(SearchOrder)
      <3>1. /\ appeared' = appeared /\ probe[p] - 1 = Len(SearchOrder)
            /\ pc'[p] = "done" \/ (pc'[p] = "create" /\ path'[p] = Destination)
        <4>1. probe[p] - 1 = Len(SearchOrder)
          BY <2>1, <2>3
        <4>2. \/ pc' = [pc EXCEPT ![p] = "done"] /\ appeared' = appeared
              \/ /\ pc' = [pc EXCEPT ![p] = "create"]
                 /\ path' = [path EXCEPT ![p] = Destination] /\ appeared' = appeared
          BY <1>2, <2>3 DEF Resolve, Goto, Exit
        <4> QED BY <4>1, <4>2, SearchFacts DEF FileInv, FileTypes
      <3>2. PICK i \in 1 .. Len(SearchOrder) : Where[SearchOrder[i]] = Destination
        BY SearchFacts DEF ComesFirst
      <3>3. Exists(Destination) => Destination \in appeared[p]
        BY <2>2, <3>1, <3>2
      <3>4. LookInv(p)'
        BY <2>1, <3>1, <3>3 DEF LookInv, Exists
      <3> QED BY <2>1, <3>1, <3>4, LookersUndisturbed DEF LooksInv
    <2>4. CASE probe[p] <= Len(SearchOrder)
      <3> DEFINE d == Where[SearchOrder[probe[p]]]
      <3>1. /\ appeared' = [appeared EXCEPT ![p] = @ \ {d}] /\ probe'[p] = probe[p] + 1
            /\ Exists(d) => pc'[p] \in {"open", "load"}
            /\ ~Exists(d) => pc'[p] = "resolve"
        BY <1>2, <2>1, <2>4 DEF Resolve, At, Goto, Look, FileInv, FileTypes
      <3>2. /\ appeared' \in [Processes -> SUBSET Directory] /\ appeared'[p] = appeared[p] \ {d}
            /\ \A v \in Processes \ {p} : appeared'[v] = appeared[v]
        BY <3>1 DEF LooksInv
      <3>3. CASE Exists(d)
        <4>1. LookInv(p)'
          BY <3>1, <3>3 DEF LookInv
        <4> QED BY <2>1, <3>2, <4>1, LookersUndisturbed
      <3>4. CASE ~Exists(d)
        <4>1. \A j \in 1 .. probe'[p] - 1 : j \in 1 .. probe[p] - 1 \/ j = probe[p]
          BY <2>1, <3>1
        <4>2. \A j \in 1 .. probe'[p] - 1 :
                Exists(Where[SearchOrder[j]]) => Where[SearchOrder[j]] \in appeared'[p]
          BY <2>2, <3>2, <3>4, <4>1
        <4>3. LookInv(p)'
          BY <2>1, <3>1, <3>4, <4>2 DEF LookInv, Exists
        <4> QED BY <2>1, <3>2, <4>3, LookersUndisturbed
      <3> QED BY <3>3, <3>4
    <2> QED BY <2>1, <2>3, <2>4
  <1>3. ASSUME NEW p \in Processes, Create(p) PROVE LooksInv'
    <2>1. /\ UNCHANGED <<probe, path>> /\ pc'[p] \in {"done", "write"}
          /\ \A v \in Processes \ {p} : pc'[v] = pc[v]
      BY <1>3 DEF Create, Goto, Exit, FileInv, FileTypes
    <2>2. CASE Appear
      BY <2>1, <2>2, AppearKeeps
    <2>3. CASE UNCHANGED <<disk, appeared>>
      <3>1. LookInv(p)'
        BY <2>1 DEF LookInv
      <3> QED BY <2>1, <2>3, <3>1, LookersUndisturbed DEF LooksInv
    <2> QED BY <1>3, <2>2, <2>3 DEF Create
  <1>4. ASSUME NEW p \in Processes, Write(p) PROVE LooksInv'
    <2>1. /\ UNCHANGED <<pc, probe, path, appeared>> /\ path[p] \in Directory
          /\ disk' = [disk EXCEPT ![path[p]] = Over(@, written'[p])]
      BY <1>4 DEF Write, FileInv, FileTypes
    <2>2. \A d \in Directory : Exists(d)' => Exists(d)
      BY <2>1 DEF Exists, Over, FileInv, FileTypes
    <2>3. ASSUME NEW v \in Processes PROVE LookInv(v)'
      <3>1. LookInv(v)
        BY DEF LooksInv
      <3> QED BY <2>1, <2>2, <3>1, LookKept
    <2> QED BY <2>1, <2>3 DEF LooksInv
  <1>5. ASSUME NEW p \in Processes, CloseEditor(p) PROVE LooksInv'
    <2>1. /\ Appear /\ UNCHANGED <<probe, path>> /\ pc'[p] = "done"
          /\ \A v \in Processes \ {p} : pc'[v] = pc[v]
      BY <1>5 DEF CloseEditor, Goto, Exit, FileInv, FileTypes
    <2> QED BY <2>1, AppearKeeps
  <1>6. CASE UserSaves
    <2>1. Appear /\ UNCHANGED <<pc, probe, path>>
      BY <1>6 DEF UserSaves, local
    <2> QED BY <2>1, AppearKeeps
  <1>7. ASSUME NEW p \in Processes,
               Start(p) \/ WriteFails(p) \/ Written(p) \/ OpenEditor(p) \/ Load(p) \/ Crash(p)
        PROVE  LooksInv'
    <2>1. UNCHANGED <<disk, appeared, probe, path>>
      BY <1>7 DEF Start, WriteFails, Written, OpenEditor, Load, Crash, Unmoved, files, local
    <2>2. \A v \in Processes \ {p} : pc'[v] = pc[v]
      BY <1>7 DEF Start, WriteFails, Written, OpenEditor, Load, Crash, Goto, Exit, FileInv, FileTypes
    <2>3. pc'[p] # "create" /\ (pc'[p] = "resolve" => probe[p] = 1)
      BY <1>7 DEF Start, WriteFails, Written, OpenEditor, Load, Crash, At, Goto, Exit,
                  FileInv, FileTypes, CommandInv
    <2>4. LookInv(p)'
      BY <2>1, <2>3 DEF LookInv
    <2> QED BY <2>1, <2>2, <2>4, LookersUndisturbed DEF LooksInv
  <1>8. CASE UNCHANGED vars
    BY <1>8 DEF vars, files, local, LooksInv, LookInv, Exists
  <1> QED BY <1>1, <1>2, <1>3, <1>4, <1>5, <1>6, <1>7, <1>8 DEF Next, Step, AllOver

\* What a file holds is changed by the user, by who is writing it, or by who opens
\* it without having seen it.
LEMMA StepOverwrites ==
  ASSUME FileInv, LooksInv, [Next]_vars, NEW d \in Directory, Exists(d), disk'[d] # disk[d]
  PROVE  UserChanges \/ \E p \in Processes : Writes(p, d) /\ (At(p, "write") \/ d \in appeared[p])
  <1>1. CASE UserSaves
    BY <1>1 DEF UserSaves, UserChanges, FileInv, FileTypes
  <1>2. ASSUME NEW p \in Processes, Create(p)
        PROVE  Writes(p, d) /\ d \in appeared[p]
    <2>1. d = path[p] /\ pc[p] = "create" /\ pc'[p] = "write"
      BY <1>2 DEF Create, At, Goto, Exit, FileInv, FileTypes
    <2>2. d \in appeared[p]
      BY <2>1 DEF LooksInv, LookInv
    <2> QED BY <2>1, <2>2 DEF Writes
  <1>3. ASSUME NEW p \in Processes, Write(p)
        PROVE  Writes(p, d) /\ At(p, "write")
    BY <1>3 DEF Write, Writes, At, FileInv, FileTypes
  <1>4. ASSUME NEW p \in Processes, CloseEditor(p)
        PROVE  At(p, "editor") /\ ~At(p, "editor")'
    BY <1>4 DEF CloseEditor, At, Goto, Exit, FileInv, FileTypes
  <1>5. ASSUME NEW p \in Processes,
               \/ Start(p) \/ InitCheck(p) \/ Resolve(p) \/ WriteFails(p) \/ Written(p)
               \/ OpenEditor(p) \/ Load(p) \/ Crash(p)
        PROVE  FALSE
    BY <1>5 DEF Start, InitCheck, Resolve, WriteFails, Written, OpenEditor, Load, Crash,
                Unmoved, files
  <1>6. CASE UNCHANGED vars
    BY <1>6 DEF vars, files
  <1> QED BY <1>1, <1>2, <1>3, <1>4, <1>5, <1>6 DEF Next, Step, AllOver, UserChanges

\* The look of init at the working directory (main.cpp:463) and the search of edit
\* (rle4k_config.h:295) keep every file they meet: what is opened for writing, and
\* lost, can only be a file that appeared in that directory afterwards.  That
\* remainder is the race in which "never overwrite" (src/docs/redcli.help.md:38) fails.
THEOREM FoundFilesAreKept == Spec => FoundIsKept
  <1>1. ASSUME FileInv, LooksInv, [Next]_vars
        PROVE  [\A d \in Directory :
                  Exists(d) /\ disk'[d] # disk[d] =>
                    UserChanges \/ \E p \in Processes :
                      Writes(p, d) /\ (At(p, "write") \/ d \in appeared[p])]_vars
    BY <1>1, StepOverwrites
  <1>2. Init => LooksInv
    BY DEF Init, LooksInv, LookInv
  <1> QED BY <1>1, <1>2, InitHolds, NextPreserves, LooksPreserved, PTL DEF Spec, FoundIsKept

\* A command that ends well and undisturbed leaves behind, or has read, the file
\* that a search meets first.
LEMMA StepAgrees ==
  ASSUME FileInv, [Next]_vars, NEW p \in quiet, ~At(p, "done"), At(p, "done")', exit'[p] = 0
  PROVE  IF command[p] # "run" THEN FoundFirst(path[p])'
         ELSE loaded'[p] # Absent => FoundFirst(path[p]) /\ loaded'[p] = disk[path[p]]
  <1>0. p \in Processes /\ CommandInv(p) /\ SeenInv(p) /\ pc[p] # "done" /\ pc'[p] = "done"
    BY DEF FileInv, FileTypes, At
  <1>1. CASE InitCheck(p)
    <2>1. /\ Exists(Where["."]) /\ path[p] = Where["."] /\ command[p] = "init"
          /\ disk' = disk /\ path' = path
      BY <1>0, <1>1 DEF InitCheck, At, Goto, CommandInv, FileInv, FileTypes, Unmoved, files
    <2>2. 1 \in 1 .. Len(SearchOrder) /\ ComesFirst(Where["."], 1)
      BY SearchFacts
    <2> QED BY <2>1, <2>2 DEF FoundFirst, ComesFirst, Exists
  <1>2. CASE Resolve(p)
    <2>1. pc[p] = "resolve" /\ loaded'[p] = Absent
      BY <1>0, <1>2 DEF Resolve, At, CommandInv
    <2>2. command[p] = "run"
      <3> SUFFICES ASSUME command[p] = "edit" PROVE FALSE
        BY <1>0, <2>1 DEF CommandInv, FileInv, FileTypes
      <3> QED BY <1>0, <1>2, <2>1 DEF Resolve, At, Goto, FileInv, FileTypes
    <2> QED BY <2>1, <2>2
  <1>3. CASE Written(p)
    <2>1. FoundFirst(path[p]) /\ command[p] # "run" /\ disk' = disk /\ path' = path
      BY <1>0, <1>3 DEF Written, At, SeenInv, CommandInv, Unmoved, files
    <2> QED BY <2>1 DEF FoundFirst, Exists
  <1>4. CASE CloseEditor(p)
    <2>1. FoundFirst(path[p]) /\ command[p] # "run" /\ path' = path
      BY <1>0, <1>4 DEF CloseEditor, At, SeenInv, CommandInv
    <2>2. Whole("user") # Absent /\ path[p] \in Directory
      BY <1>0, FileFacts DEF Piece, FileInv, FileTypes
    <2>3. /\ Exists(path[p])'
          /\ \A d \in Directory : ~Exists(d) => ~Exists(d)'
      BY <1>4, <2>1, <2>2 DEF CloseEditor, FoundFirst, Exists, FileInv, FileTypes
    <2>4. PICK i \in 1 .. Len(SearchOrder) :
            /\ Where[SearchOrder[i]] = path[p]
            /\ \A j \in 1 .. i - 1 : ~Exists(Where[SearchOrder[j]])
      BY <2>1 DEF FoundFirst
    <2>5. \A j \in 1 .. i - 1 : Where[SearchOrder[j]] \in Directory
      BY SearchFacts
    <2>6. \A j \in 1 .. i - 1 : ~Exists(Where[SearchOrder[j]])'
      BY <2>3, <2>4, <2>5
    <2> QED BY <2>1, <2>3, <2>4, <2>6 DEF FoundFirst
  <1>5. CASE Load(p)
    <2>1. FoundFirst(path[p]) /\ command[p] = "run" /\ loaded[p] = Absent
      BY <1>0, <1>5 DEF Load, At, SeenInv, CommandInv
    <2>2. loaded'[p] \in {loaded[p], disk[path[p]]}
      BY <1>0, <1>5 DEF Load, FileInv, FileTypes
    <2> QED BY <2>1, <2>2
  <1>6. CASE Start(p) \/ Create(p) \/ Write(p) \/ WriteFails(p) \/ OpenEditor(p) \/ Crash(p)
    BY <1>0, <1>6 DEF Start, Create, Write, WriteFails, OpenEditor, Crash, At, Goto, Exit,
                      FileInv, FileTypes
  <1>7. ASSUME NEW v \in Processes, v # p, Start(v) \/ Step(v) \/ CloseEditor(v) \/ Crash(v)
        PROVE  FALSE
    <2>1. pc'[p] = pc[p]
      BY <1>0, <1>7 DEF Start, Step, InitCheck, Resolve, Create, Write, WriteFails, Written,
         OpenEditor, Load, CloseEditor, Crash, Goto, Exit, FileInv, FileTypes
    <2> QED BY <1>0, <2>1
  <1>8. CASE UserSaves \/ UNCHANGED vars
    BY <1>0, <1>8 DEF UserSaves, vars
  <1> QED BY <1>0, <1>1, <1>2, <1>3, <1>4, <1>5, <1>6, <1>7, <1>8 DEF Next, Step, AllOver

\* init, edit and run mean the same redcli.json, whatever directories the search
\* names lead to, when nobody else changes a file while they are at work.
THEOREM CommandsAgree == Spec => CommandsAgreeOnFile
  <1>1. ASSUME FileInv, [Next]_vars
        PROVE  [\A p \in quiet :
                  ~At(p, "done") /\ At(p, "done")' /\ exit'[p] = 0 =>
                    IF command[p] # "run" THEN FoundFirst(path[p])'
                    ELSE loaded'[p] # Absent => FoundFirst(path[p]) /\ loaded'[p] = disk[path[p]]]_vars
    BY <1>1, StepAgrees
  <1> QED BY <1>1, InitHolds, NextPreserves, PTL DEF Spec, CommandsAgreeOnFile
=============================================================================
