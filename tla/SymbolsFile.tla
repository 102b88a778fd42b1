----------------------------- MODULE SymbolsFile ----------------------------
(***************************************************************************)
(* symbols.yaml as SaveConfig of internal/symbols and SaveConfig of        *)
(* internal/config write it: to symbols.yaml.tmp, which is then renamed.   *)
(* The temporary file has one name, whoever saves, and nobody is kept out. *)
(***************************************************************************)
CONSTANT Savers

None == [none |-> "none"]     \* no file, no configuration
Torn == [torn |-> "torn"]     \* a file that is empty, or mixed of two: it is not loaded
Whole(content) == content \notin {None, Torn}

VARIABLES
  file, tmp,  \* symbols.yaml, symbols.yaml.tmp
  save,       \* of each saver: its step,
  data,       \* what it marshalled,
  fd          \* its open file: "tmp", "file" once that was renamed, "gone"

fileVars == <<file, tmp, save, data, fd>>

FileInit ==
  /\ file = None /\ tmp = None
  /\ save = [w \in Savers |-> "idle"]
  /\ data = [w \in Savers |-> None]
  /\ fd = [w \in Savers |-> "none"]

SaveGoes(w, from, to) ==
  /\ save[w] = from
  /\ save' = [save EXCEPT ![w] = to]

\* Marshal, and WriteFile truncates the temporary file, whoever has it open.
SaveBegins(w, config) ==
  /\ SaveGoes(w, "idle", "write")
  /\ data' = [data EXCEPT ![w] = config]
  /\ tmp' = Torn
  /\ fd' = [fd EXCEPT ![w] = "tmp"]
  /\ UNCHANGED file

\* What a file holds after d was written from its beginning: the end of what
\* another wrote there before may be left behind it.
Overwritten(content, d) == IF content = Torn THEN {d} ELSE {d, Torn}

\* The file may have been renamed since it was opened, and replaced or removed.
SaveWrites(w) ==
  /\ SaveGoes(w, "write", "rename")
  /\ tmp' \in IF fd[w] = "tmp" THEN Overwritten(tmp, data[w]) ELSE {tmp}
  /\ file' \in IF fd[w] = "file" THEN Overwritten(file, data[w]) ELSE {file}
  /\ data' = [data EXCEPT ![w] = None]
  /\ fd' = [fd EXCEPT ![w] = "none"]

\* An open file follows its name, and has none when another takes the name.
SaveRenames(w) ==
  /\ tmp # None
  /\ SaveGoes(w, "rename", "idle")
  /\ file' = tmp
  /\ tmp' = None
  /\ fd' = [v \in Savers |-> CASE fd[v] = "tmp"  -> "file"
                               [] fd[v] = "file" -> "gone"
                               [] OTHER          -> fd[v]]
  /\ UNCHANGED data

\* Mutant: the rename is tried until it succeeds.
SaveFails_Retries(w) ==
  /\ tmp = None
  /\ SaveGoes(w, "rename", "rename")
  /\ UNCHANGED <<file, tmp, data, fd>>

\* Another saver has renamed, or removed, the temporary file.
SaveFails(w) ==
  /\ tmp = None
  /\ SaveGoes(w, "rename", "remove")
  /\ UNCHANGED <<file, tmp, data, fd>>

\* The temporary file is removed, which may be that of another by now.
SaveRemoves(w) ==
  /\ SaveGoes(w, "remove", "idle")
  /\ tmp' = None
  /\ fd' = [v \in Savers |-> IF fd[v] = "tmp" THEN "gone" ELSE fd[v]]
  /\ UNCHANGED <<file, data>>

\* The process that has these savers ends.
SaversEnd(savers) ==
  /\ save' = [w \in Savers |-> IF w \in savers THEN "idle" ELSE save[w]]
  /\ data' = [w \in Savers |-> IF w \in savers THEN None ELSE data[w]]
  /\ fd' = [w \in Savers |-> IF w \in savers THEN "none" ELSE fd[w]]
  /\ UNCHANGED <<file, tmp>>
=============================================================================
