------------------------------ MODULE GameData ------------------------------
(***************************************************************************)
(* The import of the game's own data (service/system/game_data.cc), around *)
(* the ingestion of the virtual project: look whether it is needed, clear  *)
(* the directory of game files, download into it, ingest, record.  The     *)
(* start-up runs it and administrators may, so that two can overlap.       *)
(***************************************************************************)
EXTENDS Ingestor

CONSTANTS
    Vanilla,    \* what the ingestor finds in the game's files
    Modded,     \* ... and in those with the loader's
    Nothing,    \* ... in an empty directory
    GameItems,  \* items that have an asset file
    MaxImports  \* bound: calls of importGameData

VARIABLES
    stage,      \* where each import stands
    force,      \* its parameter updateLoader
    left,       \* items that it still has to register
    files,      \* what is in the directory of game files
    imported,   \* number of rows of data_import for the game's version
    calls,
    together    \* history: two imports were under way at once

ASSUME GameAssumption ==
    /\ {Vanilla, Modded, Nothing} \subseteq GameRepos
    /\ Modded.readable  \* A recipe may throw (Contents), and the game's are not read.
    /\ GameItems \in SUBSET Names
    /\ MaxImports \in Nat

gameVars == <<stage, force, left, files, imported, calls, together>>
allVars == <<vars, gameVars>>

To(i, s) == stage' = [stage EXCEPT ![i] = s]
\* importGameData returns; exceptions are caught in it and are ErrInternal.
Leave(i) == To(i, "idle") /\ force' = [force EXCEPT ![i] = FALSE]

-----------------------------------------------------------------------------

\* runStartupTaks, or SystemController::importData.
Call(i, update) ==
    /\ stage[i] = "idle" /\ pc[i] = "idle"
    /\ calls < MaxImports
    /\ calls' = calls + 1
    /\ force' = [force EXCEPT ![i] = update]
    /\ To(i, "check")
    /\ together' = (together \/ \E j \in Imports \ {i} : stage[j] # "idle")
    /\ UNCHANGED <<vars, left, files, imported>>

\* The versions cannot be fetched, or nothing is to be done as the game's version is recorded,
\* if need be with the latest loader; two rows of it are an error of findOne, taken for
\* none.  Otherwise downloadGameFiles clears the directory.
Check(i) ==
    /\ stage[i] = "check"
    /\ \/ Leave(i) /\ UNCHANGED files
       \/ /\ imported # 1 \/ force[i]
          /\ To(i, "client")
          /\ files' = {}
          /\ UNCHANGED force
    /\ UNCHANGED <<vars, left, imported, calls, together>>

\* The language files and the client, then the loader, are downloaded and extracted, or
\* an exception comes out of that.
Download(i) ==
    /\ \/ /\ stage[i] = "client"
          /\ To(i, "neoforge")
          /\ files' = files \cup {"client"}
          /\ UNCHANGED force
       \/ /\ stage[i] = "neoforge"
          /\ To(i, "ingest")
          /\ files' = files \cup {"neoforge"}
          /\ UNCHANGED force
       \/ stage[i] \in {"client", "neoforge"} /\ Leave(i) /\ UNCHANGED files
    /\ UNCHANGED <<vars, left, imported, calls, together>>

\* runIngestor, on the files that are there when they are read.
Found == IF {"client", "neoforge"} \subseteq files THEN Modded
         ELSE IF "client" \in files THEN Vanilla ELSE Nothing
Ingest(i) ==
    /\ \/ stage[i] = "ingest" /\ Start(i) /\ To(i, "ingesting")
       \/ stage[i] = "ingesting" /\ UNCHANGED stage
          /\ \/ Prepare(i, Found)
             \/ RegisterItem(i) \/ RegisterTag(i) \/ Link(i) \/ Finish(i) \/ Release(i)
    /\ UNCHANGED <<force, left, files, imported, calls, together>>

\* ingestGameData returns an error, which nobody reads, or registers the items that have an
\* asset: without the directory that is an exception.
Registering(i) ==
    /\ stage[i] = "ingesting" /\ pc[i] = "done"
    /\ LET failed == result[i] # "Ok" \/ errors[i] IN
       \/ /\ failed \/ "client" \in files
          /\ To(i, "register")
          /\ left' = [left EXCEPT ![i] = IF failed THEN {} ELSE GameItems]
          /\ UNCHANGED <<vars, force>>
       \/ /\ ~ failed /\ "client" \notin files
          /\ Leave(i)
          /\ End(i)
          /\ UNCHANGED left
    /\ UNCHANGED <<files, imported, calls, together>>
Register(i) ==
    /\ stage[i] = "register"
    /\ \E n \in left[i] : RegisterGameItem(i, n) /\ left' = [left EXCEPT ![i] = @ \ {n}]
    /\ UNCHANGED <<stage, force, files, imported, calls, together>>

\* (Mutant: the import is recorded before its ingestion.)
RecordFirst(i) ==
    /\ stage[i] = "ingest"
    /\ imported' = imported + 1
    /\ Leave(i)
    /\ UNCHANGED <<vars, left, files, calls, together>>

\* The row of data_import, whatever ingestGameData has returned; its insertion may fail.
Record(i) ==
    /\ stage[i] = "register" /\ left[i] = {}
    /\ imported' \in {imported, imported + 1}
    /\ Leave(i)
    /\ End(i)
    /\ UNCHANGED <<left, files, calls, together>>

GameCrash ==
    /\ Crash
    /\ stage' = [i \in Imports |-> "idle"]
    /\ force' = [i \in Imports |-> FALSE]
    /\ left' = [i \in Imports |-> {}]
    /\ UNCHANGED <<files, imported, calls, together>>

ImportStep(i) ==
    \/ Check(i) \/ Download(i)
    \/ Ingest(i) \/ Registering(i) \/ Register(i) \/ Record(i)
GameNext ==
    \/ \E m \in Mods : (Start(m) \/ Step(m)) /\ UNCHANGED gameVars
    \/ \E i \in Imports : ImportStep(i) \/ \E update \in BOOLEAN : Call(i, update)
    \/ GameCrash

GameInit ==
    /\ Init
    /\ stage = [i \in Imports |-> "idle"]
    /\ force = [i \in Imports |-> FALSE]
    /\ left = [i \in Imports |-> {}]
    /\ files = {}
    /\ imported = 0
    /\ calls = 0
    /\ together = FALSE

GameSpec == GameInit /\ [][GameNext]_allVars
Progress ==
    \/ \E m \in Mods : Step(m) /\ UNCHANGED gameVars
    \/ \E i \in Imports : ImportStep(i)
FairGameSpec == GameSpec /\ WF_allVars(Progress)
-----------------------------------------------------------------------------
(* Properties *)

\* Types of the variables.
GameTypeOK ==
    /\ TypeOK
    /\ stage \in [Imports -> {"idle", "check", "client", "neoforge", "ingest",
                             "ingesting", "register"}]
    /\ force \in [Imports -> BOOLEAN]
    /\ left \in [Imports -> SUBSET Names]
    /\ files \subseteq {"client", "neoforge"}
    /\ imported \in Nat
    /\ calls \in 0..MaxImports
    /\ together \in BOOLEAN

\* Once an import is recorded, so that no start-up repeats it, the tags of the game and of
\* the loader, and the game's own items that they hold, are in the tables, and so are the
\* items that have an asset, wherever crashes and failed downloads have cut the attempts
\* before it, unless a statement has failed or imports ran together.
RecordedIsThere ==
    imported > 0 /\ faults = 0 /\ ~ together =>
        /\ \A n \in GameItems : \E r \in rows[Game] : r.kind = "item" /\ r.of = <<n>>
        /\ \A t \in Modded.tags : \E r \in rows[Game] : r.kind = "tag" /\ r.of = <<t>>
        /\ \A e \in Modded.entries :
              e[2] \in Modded.items => \E r \in rows[Game] : r.kind = "entry" /\ r.of = e

\* Every ingestion and every import ends, whatever fails: no statement waits for ever for a
\* row or a lock of another's transaction, unless two imports run together (one may then
\* wait for rows that its own end would commit).
AllEnd ==
    \A w \in Coroutines :
        []<>((pc[w] = "idle" /\ (w \in Imports => stage[w] = "idle")) \/ together)
=============================================================================
