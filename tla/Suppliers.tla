----------------------------- MODULE Suppliers -----------------------------
(***************************************************************************)
(* The registry of suppliers: the table in history.db (SupplierStore), the *)
(* snapshot the worker reads (SupplierRegistryStore), the imports that run *)
(* in threads of their own, and the user, who removes suppliers meanwhile  *)
(* in the thread of the interface.  A write is several statements and a    *)
(* commit under the store's lock; a reload is a query and, later, the      *)
(* replacement of the snapshot.                                            *)
(***************************************************************************)
EXTENDS Naturals, SequencesExt

CONSTANTS
    Cuits,      \* valid CUITs
    Names,      \* normalized names
    Blank,      \* an empty cell
    BadCuit,    \* a cell that is no CUIT
    Sheets,     \* what the user may import: sequences of rows
    Broken,     \* a file that read_rows or _columns refuses
    Corrupt,    \* an .xlsx that is no zip archive
    Imports,    \* how many imports may run together, as names for their threads
    Failures,   \* what may raise: an "import", a "delete", a "query"
    Accidents   \* whether the program may be closed or killed

Rows == [cuit : Cuits \union {BadCuit}, legal : Names \union {Blank},
         trade : Names \union {Blank}, extra : SUBSET Names]
Supplier == [legal : Names, trade : Names \union {Blank}, extra : SUBSET Names]

ASSUME NamesAssumption == Blank \notin Names /\ BadCuit \notin Cuits
ASSUME SheetsAssumption ==
    /\ Sheets \subseteq (Seq(Rows) \union {Broken, Corrupt})
    /\ Broken \notin Seq(Rows) /\ Corrupt \notin Seq(Rows)
ASSUME FailuresAssumption ==
    Failures \subseteq {"import", "delete", "query"} /\ Accidents \in BOOLEAN

VARIABLES
    table,     \* the suppliers as the connection sees them
    durable,   \* ... and as they were committed
    registry,  \* the snapshot
    thread,    \* per import: its next step, its sheet and what it read
    ui,        \* the interface: its next step and what it read
    mailbox,   \* callbacks for the interface
    shown,     \* the list the settings view shows; the count beside it is left out
    waiting,   \* history: the imports whose report the user has not seen
    lost,      \* history: those whose report will never come
    behind,    \* history: whether the last refresh failed
    imported   \* history: names brought by imports that succeeded, since the removal

suppliersVars == <<table, durable, registry, thread, ui, mailbox, shown, waiting, lost, behind,
                   imported>>

-----------------------------------------------------------------------------
(* Suppliers and sheets.                                                   *)

Aliases(s) == ({s.legal, s.trade} \union s.extra) \ {Blank}

\* Mutant: the name a supplier had is forgotten.
MergeForgetting(existing, incoming) ==
    [incoming EXCEPT !.extra = existing.extra \union incoming.extra]

\* merge_supplier: the new names win and the old ones become aliases.
Merge(existing, incoming) ==
    [legal |-> incoming.legal,
     trade |-> IF incoming.trade = Blank THEN existing.trade ELSE incoming.trade,
     extra |-> (existing.extra \union incoming.extra
                   \union {name \in {existing.legal} : name # incoming.legal}
                   \union {name \in {existing.trade} : name # incoming.trade}) \ {Blank}]

\* What the validators of Supplier accept; one bad row never aborts the import.
IsValid(row) == row.cuit \in Cuits /\ row.legal # Blank

ToSupplier(row) == [legal |-> row.legal, trade |-> row.trade, extra |-> row.extra]

Listed(suppliers, cuit) == IF cuit \in DOMAIN suppliers THEN {suppliers[cuit]} ELSE {}

\* One supplier inserted, or merged into the one that has its CUIT.
Upserted(suppliers, cuit, supplier) ==
    [c \in DOMAIN suppliers \union {cuit} |->
        IF c # cuit THEN suppliers[c]
        ELSE IF cuit \in DOMAIN suppliers THEN Merge(suppliers[cuit], supplier)
        ELSE supplier]

NoSuppliers == [c \in {} |-> c]

\* parse_suppliers, row by row: a valid one is merged by CUIT, another is skipped.
ParsedTo(sheet) ==
    LET created[n \in 0 .. Len(sheet)] ==
          IF n = 0 THEN NoSuppliers
          ELSE IF IsValid(sheet[n])
               THEN Upserted(created[n - 1], sheet[n].cuit, ToSupplier(sheet[n]))
               ELSE created[n - 1]
    IN created

Parsed == [sheet \in Sheets \ {Broken, Corrupt} |-> ParsedTo(sheet)[Len(sheet)]]

\* ... and the order in which the CUITs come.
OrderTo(sheet) ==
    LET order[n \in 0 .. Len(sheet)] ==
          IF n = 0 THEN <<>>
          ELSE IF IsValid(sheet[n]) /\ sheet[n].cuit \notin ToSet(order[n - 1])
               THEN Append(order[n - 1], sheet[n].cuit)
               ELSE order[n - 1]
    IN order

OrderOf == [sheet \in Sheets \ {Broken, Corrupt} |-> OrderTo(sheet)[Len(sheet)]]

\* The first n suppliers of a sheet upserted, one after the other.
UpsertedFirst(suppliers, sheet, n) ==
    LET after[k \in 0 .. n] ==
          IF k = 0 THEN suppliers
          ELSE Upserted(after[k - 1], OrderOf[sheet][k], Parsed[sheet][OrderOf[sheet][k]])
    IN after[n]

NamesIn(sheet, cuit) ==
    UNION {Aliases(ToSupplier(row)) : row \in {r \in ToSet(sheet) : IsValid(r) /\ r.cuit = cuit}}

-----------------------------------------------------------------------------
NoThread == [step |-> "none", sheet |-> Broken, read |-> NoSuppliers]
NoUi == [step |-> "none", read |-> NoSuppliers]

Booted(suppliers) ==
    /\ registry = suppliers
    /\ shown = suppliers
    /\ thread = [i \in Imports |-> NoThread]
    /\ ui = NoUi /\ mailbox = <<>>
    /\ waiting = {} /\ lost = {} /\ behind = FALSE

SuppliersInit ==
    /\ table = NoSuppliers /\ durable = table
    /\ Booted(table)
    /\ imported = [c \in Cuits |-> {}]

Busy == {i \in Imports : thread[i].step # "none" \/ i \in waiting \ lost}

\* The thread of the interface is free.
Free == ui.step = "none"

Post(callback, i) == mailbox' = Append(mailbox, [callback |-> callback, about |-> i])

-----------------------------------------------------------------------------
(* An import.                                                              *)

\* The user picks a file; the thread reads and parses it.  An exception that neither
\* read_rows nor _import_from names ends the thread.
ImportFrom(i, sheet) ==
    /\ Free
    /\ i \notin Busy
    /\ waiting' = waiting \union {i}
    /\ lost' = IF sheet = Corrupt THEN lost \union {i} ELSE lost \ {i}
    /\ \/ sheet = Broken /\ Post("error", i) /\ UNCHANGED thread
       \/ sheet = Corrupt /\ UNCHANGED <<thread, mailbox>>
       \/ /\ sheet \notin {Broken, Corrupt}
          /\ thread' = [thread EXCEPT ![i].step = "upsert", ![i].sheet = sheet]
          /\ UNCHANGED mailbox
    /\ UNCHANGED <<table, durable, registry, ui, shown, behind, imported>>

\* Mutant: a failed import says nothing.
FailSilently(i) ==
    /\ thread' = [thread EXCEPT ![i] = NoThread]
    /\ UNCHANGED mailbox

FailImport(i) ==
    /\ thread' = [thread EXCEPT ![i] = NoThread]
    /\ Post("error", i)

\* bulk_upsert, up to its commit.
BulkUpsert(i) ==
    LET sheet == thread[i].sheet IN
    /\ thread[i].step = "upsert"
    /\ table' = UpsertedFirst(table, sheet, Len(OrderOf[sheet]))
    /\ durable' = table'
    /\ imported' = [c \in Cuits |-> imported[c] \union NamesIn(sheet, c)]
    /\ thread' = [thread EXCEPT ![i].step = "query"]
    /\ UNCHANGED <<registry, ui, mailbox, shown, waiting, lost, behind>>

\* A statement or the commit raises.  The transaction stays open on the connection,
\* unless SQLite has rolled it back.
BulkUpsertFails(i) ==
    /\ "import" \in Failures
    /\ thread[i].step = "upsert"
    /\ \/ table' = durable
       \/ \E n \in 0 .. Len(OrderOf[thread[i].sheet]) :
             table' = UpsertedFirst(table, thread[i].sheet, n)
    /\ FailImport(i)
    /\ UNCHANGED <<durable, registry, ui, shown, waiting, lost, behind, imported>>

\* reload: first the query ...
Query(i) ==
    /\ thread[i].step = "query"
    /\ \/ /\ thread' = [thread EXCEPT ![i].step = "publish", ![i].read = table]
          /\ UNCHANGED mailbox
       \/ "query" \in Failures /\ FailImport(i)
    /\ UNCHANGED <<table, durable, registry, ui, shown, waiting, lost, behind, imported>>

\* ... then the snapshot.
Publish(i) ==
    /\ thread[i].step = "publish"
    /\ registry' = thread[i].read
    /\ thread' = [thread EXCEPT ![i].step = "report"]
    /\ UNCHANGED <<table, durable, ui, mailbox, shown, waiting, lost, behind, imported>>

\* _on_ui: the report is left to the interface.
Report(i) ==
    /\ thread[i].step = "report"
    /\ thread' = [thread EXCEPT ![i] = NoThread]
    /\ Post("finish", i)
    /\ UNCHANGED <<table, durable, registry, ui, shown, waiting, lost, behind, imported>>

-----------------------------------------------------------------------------
(* The interface.                                                          *)

\* refresh, from the snapshot given.  It ends in count(), a query, and renders after it:
\* one that raises leaves the view as it was.
Refresh(snapshot) == shown' = snapshot /\ behind' = FALSE
RefreshFails == "query" \in Failures /\ behind' = TRUE /\ UNCHANGED shown

\* Mutant: the report comes without a refresh.
ReportOnly ==
    /\ Free /\ mailbox # <<>>
    /\ mailbox' = Tail(mailbox)
    /\ waiting' = waiting \ {Head(mailbox).about}
    /\ UNCHANGED <<table, durable, registry, thread, ui, shown, lost, behind, imported>>

\* UiMailbox.drain: _finish_import refreshes before it shows its report.  What it raises
\* is only logged, and the report with it.
Drain ==
    LET about == Head(mailbox).about IN
    /\ Free /\ mailbox # <<>>
    /\ mailbox' = Tail(mailbox)
    /\ \/ /\ Head(mailbox).callback = "error"
          /\ waiting' = waiting \ {about}
          /\ UNCHANGED <<shown, behind, lost>>
       \/ /\ Head(mailbox).callback = "finish"
          /\ Refresh(registry)
          /\ waiting' = waiting \ {about}
          /\ UNCHANGED lost
       \/ /\ Head(mailbox).callback = "finish"
          /\ RefreshFails
          /\ lost' = lost \union {about}
          /\ UNCHANGED waiting
    /\ UNCHANGED <<table, durable, registry, thread, ui, imported>>

\* The user searches: a refresh by itself.
Search ==
    /\ Free
    /\ Refresh(registry) \/ RefreshFails
    /\ UNCHANGED <<table, durable, registry, thread, ui, mailbox, waiting, lost, imported>>

\* delete and clear: a statement, a commit, then the reload.
Delete(cuits) ==
    /\ Free
    /\ table' = [c \in DOMAIN table \ cuits |-> table[c]]
    /\ durable' = table'
    /\ ui' = [ui EXCEPT !.step = "query"]
    /\ imported' = [c \in Cuits |-> IF c \in cuits THEN {} ELSE imported[c]]
    /\ UNCHANGED <<registry, thread, mailbox, shown, waiting, lost, behind>>

\* They raise: nothing catches it, so there is neither a reload nor a message.
DeleteFails(cuits) ==
    /\ "delete" \in Failures
    /\ Free
    /\ table' \in {table, durable, [c \in DOMAIN table \ cuits |-> table[c]]}
    /\ imported' = [c \in Cuits |-> IF c \in cuits THEN {} ELSE imported[c]]
    /\ UNCHANGED <<durable, registry, thread, ui, mailbox, shown, waiting, lost, behind>>

ReloadQuery ==
    /\ ui.step = "query"
    /\ \/ ui' = [step |-> "publish", read |-> table]
       \/ "query" \in Failures /\ ui' = NoUi
    /\ UNCHANGED <<table, durable, registry, thread, mailbox, shown, waiting, lost, behind, imported>>

\* The snapshot is replaced and the view refreshed.
ReloadPublish ==
    /\ ui.step = "publish"
    /\ registry' = ui.read
    /\ Refresh(ui.read) \/ RefreshFails
    /\ ui' = NoUi
    /\ UNCHANGED <<table, durable, thread, mailbox, waiting, lost, imported>>

\* The program ends, closed or killed, and starts again.  A launch whose first query or
\* refresh raises does not come up.
Restart ==
    /\ Accidents
    /\ table' = durable
    /\ registry' = durable /\ shown' = durable
    /\ thread' = [i \in Imports |-> NoThread]
    /\ ui' = NoUi /\ mailbox' = <<>>
    /\ waiting' = {} /\ lost' = {} /\ behind' = FALSE
    /\ UNCHANGED <<durable, imported>>

-----------------------------------------------------------------------------
ImportStep(i) == BulkUpsert(i) \/ BulkUpsertFails(i) \/ Query(i) \/ Publish(i) \/ Report(i)
InterfaceStep == Drain \/ ReloadQuery \/ ReloadPublish
UserStep ==
    \/ Search
    \/ \E i \in Imports, sheet \in Sheets : ImportFrom(i, sheet)
    \/ \E cuits \in {Cuits} \union {{c} : c \in DOMAIN shown} : Delete(cuits) \/ DeleteFails(cuits)

SuppliersNext == (\E i \in Imports : ImportStep(i)) \/ InterfaceStep \/ UserStep \/ Restart

SuppliersSpec == SuppliersInit /\ [][SuppliersNext]_suppliersVars

\* Threads run, a callback of the interface runs to its end, and the window polls its
\* mailbox every 150 ms between whatever else the user makes it do.
SuppliersFairSpec ==
    /\ SuppliersSpec
    /\ \A i \in Imports : WF_suppliersVars(ImportStep(i))
    /\ WF_suppliersVars(ReloadQuery \/ ReloadPublish)
    /\ SF_suppliersVars(Drain)

-----------------------------------------------------------------------------
(* Properties.                                                             *)

\* A name some import brought is an alias of its supplier, committed, until the supplier
\* is removed: a later import under other names, one that fails and a restart keep it.
ImportedIsKept ==
    \A c \in Cuits : imported[c] \subseteq UNION {Aliases(s) : s \in Listed(durable, c)}

\* When nothing runs and no callback waits, the view lists the snapshot the worker reads,
\* in whatever order imports and removals overlapped, unless its last refresh failed.
ShownIsRegistry ==
    Free /\ mailbox = <<>> /\ (\A i \in Imports : thread[i].step = "none")
        => shown = registry \/ behind

\* Every import that could read its file ends in a report, whatever fails: the statements
\* of the save, its commit or the reload.  Only the refresh before the report may lose it.
\* A corrupt .xlsx is no such import: its thread ends with neither report nor error.
ImportIsAnswered ==
    \A i \in Imports :
        (i \in waiting /\ thread[i].step # "none") ~> (i \notin waiting \/ i \in lost)

-----------------------------------------------------------------------------
(* Promises of the documentation that the code does not keep (README, 3).  *)

\* The committed table holds nothing but what imports that succeeded brought: an import
\* the user was told could not be saved leaves nothing behind.
NothingElse ==
    \A c \in Cuits : UNION {Aliases(s) : s \in Listed(durable, c)} \subseteq imported[c]

\* When nobody is in the middle of a change, the worker's snapshot is the table.
RegistryIsTable ==
    ui.step = "none" /\ (\A i \in Imports : thread[i].step = "none") => registry = durable

\* The view lists the worker's snapshot once nothing runs: false after a removal whose
\* refresh could not count.
ShownAlways == (Free /\ mailbox = <<>> /\ Busy = {}) => shown = registry

\* Whoever starts an import hears of it.
EveryImportIsAnswered == \A i \in Imports : i \in waiting ~> i \notin waiting
=============================================================================
