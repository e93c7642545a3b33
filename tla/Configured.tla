----------------------------- MODULE Configured -----------------------------
(***************************************************************************)
(* The configurations of Settings are those of Folders: what the user      *)
(* types is saved if AppConfig accepts it, and the snapshot decides where  *)
(* the documents go.                                                       *)
(***************************************************************************)
EXTENDS Settings, Folders

CONSTANTS
    Entered,    \* what the user may enter: the configurations, by a key
    Documents   \* what may be read of a document

ASSUME EnteredAssumption ==
    /\ Configs = {key \in DOMAIN Entered : Accepted(Entered[key])}
    /\ \A key \in Configs :
          LET config == Entered[key]
          IN /\ {config.input, config.quarantine, config.base, config.unknown, config.orders}
                  \subseteq Seq(Seq(STRING))
             /\ config.template \in Seq(STRING)
             /\ config.societies \in Seq([cuit : STRING, name : Seq(STRING)])

ASSUME DocumentsAssumption ==
    \A doc \in Documents :
        /\ doc.supplier \in Seq(STRING)
        /\ doc.date = <<>> \/ \A part \in 1..3 : doc.date[part] \in Seq(STRING)

-----------------------------------------------------------------------------
(* Properties.                                                             *)

\* The user watches a folder that is no part of the archive.
Beside(config) ==
    \A folder \in {config.base, config.unknown, config.orders} : ~Within(config.input, folder)

\* A name that leads into the folder it is appended to and nowhere else, and that Windows
\* keeps as it is: it drops a dot or a blank at the end.
Proper(component) ==
    /\ component # <<>> /\ "/" \notin ToSet(component)
    /\ component[1] \notin Edges /\ Last(component) \notin Edges

Apart(config) ==
    \A doc \in Documents : \A folder \in Destinations(config, doc) :
        ~Within(folder, config.input)

Contained(config) ==
    \A doc \in Documents :
        \A component \in ToSet(Subfolders(config, ArchiveBase(config, doc), doc)) : Proper(component)

\* Computed once for each configuration, not in each state.
ApartConfigs == {key \in Configs : Beside(Entered[key]) => Apart(Entered[key])}
ContainedConfigs == {key \in Configs : Contained(Entered[key])}

\* "That constraint blocks a reprocessing loop": whatever was typed, saved, spoilt or lost,
\* and whatever was read of a document, no document is put into the folder that is watched,
\* whose rescan would find it again.  Excused: a watched folder below one of the archive's.
LeavesInput == memory \in ApartConfigs

\* The archive stays below the folders the user chose, in subfolders Windows can name:
\* neither the name of a supplier, however long, nor a template leads out of them.
StaysBelow == memory \in ContainedConfigs

-----------------------------------------------------------------------------
(* Promises of the documentation that the code does not keep.              *)

\* The same without the excuse: review, duplicates and the folders of suppliers are not
\* compared with the folder that is watched.
NoLoop == \A doc \in Documents : Entered[memory].input \notin Destinations(Entered[memory], doc)

\* A retry reprocesses "whatever was left" in review and quarantine, recursively: what was
\* archived lies in neither.  Nothing keeps the quarantine from being the output folder.
RetriesOnlyPending ==
    LET config == Entered[memory]
    IN \A doc \in Documents : \A folder \in {ReviewFolder(config), config.quarantine} :
          ~Within(ArchiveDir(config, doc), folder)
=============================================================================
