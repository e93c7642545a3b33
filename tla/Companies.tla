----------------------------- MODULE Companies -----------------------------
(***************************************************************************)
(* The list of our companies in the settings form, and the dialogs that    *)
(* change it.  A dialog is opened by a callback that waits for it in a     *)
(* nested event loop (wait_window, askyesno) and then acts on the list by  *)
(* the index it was given before; meanwhile the poll of the bridge still   *)
(* runs the callbacks of imports that ended.  make_modal waits in one more *)
(* loop until the dialog is seen and only then makes it hold the grab,     *)
(* which keeps the window's buttons from being clicked; the report of an   *)
(* import takes the grab from whoever has it, and with the report the grab *)
(* is gone.  Callbacks return in the order of a stack.                     *)
(***************************************************************************)
EXTENDS Cuit, FiniteSets, SequencesExt

CONSTANTS
    Known,       \* CUITs of companies that exist
    Names,       \* legal names, trade names and aliases
    Blank,       \* an empty field or cell
    Entries,     \* the names the user gives a company in a dialog
    Slips,       \* what may become of a CUIT that is typed: "exact", "zeros", "digit", "swap", "lost"
    Sheets,      \* what the user may import: sequences of rows
    Refused,     \* a file that read_rows or _columns refuses, or that ends the thread
    NoSheet,     \* no import
    Imports,     \* threads of imports
    MaxCompanies, MaxDialogs   \* bounds

Labels == [legal : Names \union {Blank}, trade : Names \union {Blank}, aliases : SUBSET Names]

ASSUME KnownAssumption ==
    \A c \in Known : c \in [1 .. Length -> Digit] /\ IsValidCuit(c)
ASSUME BoundsAssumption == MaxCompanies \in Nat /\ MaxDialogs \in Nat \ {0}
ASSUME EntriesAssumption ==
    /\ Blank \notin Names /\ Entries \subseteq Labels
    /\ Slips \subseteq {"exact", "zeros", "digit", "swap", "lost"}
    /\ Sheets \subseteq Seq([digits : Seq(Digit), label : Labels, meant : Known])
    /\ {NoSheet, Refused} \intersect Sheets = {}

VARIABLES
    companies,   \* SettingsForm.societies; of each, the CUIT that was meant is history
    dialogs,     \* the stack of the callbacks that wait, each for its dialog or report
    grab,        \* the place in that stack of the dialog that holds the grab, or Nobody, or Report
    importing    \* per thread: the sheet it reads, or that it has read and reported

companiesVars == <<companies, dialogs, grab, importing>>

Nobody == 0
Report == -1

-----------------------------------------------------------------------------
(* Companies, typed or imported.                                           *)

Typed(c) ==
    UNION {CASE slip = "exact" -> {c}
             [] slip = "zeros" -> LosesZeros(c)
             [] slip = "digit" -> OneWrong(c)
             [] slip = "swap" -> SwapsNeighbours(c)
             [] slip = "lost" -> LosesDigit(c) : slip \in Slips}

Company(digits, label, meant) == [cuit |-> CoerceCuit(digits), label |-> label, meant |-> meant]

\* What the validators of SocietyMapping accept.
IsCompany(digits, label) == Accepts(digits) /\ label.legal # Blank

\* What the user may get past a dialog for a company that exists.
Enterable ==
    UNION {{Company(e[1], e[2], c) : e \in {e \in Typed(c) \X Entries : IsCompany(e[1], e[2])}} :
              c \in Known}

CuitsOf(list) == {list[i].cuit : i \in DOMAIN list}

\* Of some places in a list, those where a CUIT comes first: the order of the keys of a dict.
Firsts(list, among) == {i \in among : \A j \in among : list[j].cuit = list[i].cuit => i <= j}
Nth(places, n) == CHOOSE i \in places : Cardinality({j \in places : j <= i}) = n

\* _merge_society: the first row of a CUIT names it, the others add what it has not.
OfRows(rows, places) ==
    LET traded == {i \in places : rows[i].label.trade # Blank}
    IN [rows[Min(places)] EXCEPT !.label =
           [legal |-> rows[Min(places)].label.legal,
            trade |-> IF traded = {} THEN Blank ELSE rows[Min(traded)].label.trade,
            aliases |-> UNION {rows[i].label.aliases : i \in places}]]

\* parse_societies; a row that is refused is reported and does not stop the import.
Created(sheet) ==
    LET valid == {i \in DOMAIN sheet : IsCompany(sheet[i].digits, sheet[i].label)}
        rows == [i \in DOMAIN sheet |-> Company(sheet[i].digits, sheet[i].label, sheet[i].meant)]
        firsts == Firsts(rows, valid)
    IN [k \in 1 .. Cardinality(firsts) |->
           OfRows(rows, {j \in valid : rows[j].cuit = rows[Nth(firsts, k)].cuit})]

\* Mutant: the imported companies replace the list.
MergedAnew(list, created) == created

\* _apply_societies: an imported company replaces the one that has its CUIT.
Merged(list, created) ==
    LET both == list \o created
        firsts == Firsts(both, DOMAIN both)
    IN [k \in 1 .. Cardinality(firsts) |->
           both[Max({j \in DOMAIN both : both[j].cuit = both[Nth(firsts, k)].cuit})]]

-----------------------------------------------------------------------------
(* Dialogs.                                                                *)

\* A dialog for the company at an index, or for a new one.  opening: it has not been seen,
\* nor has it taken the grab.  behind, history: whether an import was applied since it
\* opened, and whether another dialog was opened before it had the grab.  result: what it
\* returns, when it is closed.
Dialog(kind, index) ==
    [kind |-> kind, index |-> index, of |-> IF index = 0 THEN {} ELSE {companies[index]},
     opening |-> kind # "remove", behind |-> {}, closed |-> FALSE, result |-> {}]

Top == dialogs[Len(dialogs)]

\* A message box of the system stays before everything else until it is answered.
Box == dialogs # <<>> /\ Top.kind = "remove"

\* The loop that waits for a dialog ends with the event that closes it: when the dialog on
\* top is closed nothing comes before its callback.
Settled == dialogs # <<>> => ~Top.closed

\* A button of the window can be clicked: also while a dialog is opening.
Clickable == Settled /\ grab = Nobody /\ ~Box /\ Len(dialogs) < MaxDialogs

Opening == {p \in DOMAIN dialogs : dialogs[p].opening}

\* History: what happens behind some of the dialogs.
Marked(what, among) ==
    [p \in DOMAIN dialogs |->
        [dialogs[p] EXCEPT !.behind = IF p \in among THEN @ \union {what} ELSE @]]

\* SocietyDialog, or the question, up to the first loop that waits for it.
Open(kind, index) ==
    /\ Clickable
    /\ dialogs' = Append(Marked("dialog", Opening), Dialog(kind, index))
    /\ UNCHANGED <<companies, grab, importing>>

\* Mutant: the dialog does not take the grab.
ShowBeside ==
    /\ dialogs # <<>> /\ Top.opening /\ ~Top.closed /\ Top.kind # "report"
    /\ dialogs' = [dialogs EXCEPT ![Len(dialogs)].opening = FALSE]
    /\ UNCHANGED <<companies, grab, importing>>

\* The dialog on top is seen, wait_visibility returns and grab_set follows.  Those beneath
\* it wait for its callback, although they may be seen.
ShowModal ==
    /\ dialogs # <<>> /\ Top.opening /\ ~Top.closed /\ Top.kind # "report"
    /\ dialogs' = [dialogs EXCEPT ![Len(dialogs)].opening = FALSE]
    /\ grab' = Len(dialogs)
    /\ UNCHANGED <<companies, importing>>

AddSociety == Len(companies) < MaxCompanies /\ Open("add", 0)
EditSociety == \E i \in DOMAIN companies : Open("edit", i)

\* The question before a removal names the company; it is a box of the system.
AskRemoval ==
    \E i \in DOMAIN companies : Open("remove", i)

\* A dialog destroyed before it took the grab makes make_modal raise, and its callback ends.
Close(p, result) ==
    /\ Settled /\ ~Box /\ ~dialogs[p].closed /\ grab \in {Nobody, p}
    /\ dialogs' = [dialogs EXCEPT ![p].closed = TRUE,
                                  ![p].result = IF dialogs[p].opening THEN {} ELSE result]
    /\ grab' = Nobody
    /\ UNCHANGED <<companies, importing>>

\* _save of SocietyDialog: what is refused keeps the dialog open.
SaveDialog(p) == dialogs[p].kind \in {"add", "edit"} /\ \E c \in Enterable : Close(p, {<<c>>})

\* _finish of the wizard: one company or none.  Folders it refuses keep it open.
FinishWizard(p) ==
    /\ dialogs[p].kind = "first run"
    /\ \/ Close(p, {<<>>})
       \/ \E c \in Enterable : Close(p, {<<c>>})

Cancel(p) == Close(p, {})

-----------------------------------------------------------------------------
(* The callback that waits for the dialog on top goes on.                  *)

Return(list) ==
    /\ companies' = list
    /\ dialogs' = Front(dialogs)
    /\ UNCHANGED <<grab, importing>>

Returning(kind) == dialogs # <<>> /\ Top.closed /\ Top.kind = kind

ReturnNothing == dialogs # <<>> /\ Top.closed /\ Top.result = {} /\ Return(companies)

ReturnAdded == Returning("add") /\ \E list \in Top.result : Return(companies \o list)

\* An index that is out of range by now raises, and nothing is changed.
ReturnEdited ==
    /\ Returning("edit")
    /\ \E list \in Top.result :
          Return(IF Top.index \in DOMAIN companies THEN ReplaceAt(companies, Top.index, list[1])
                 ELSE companies)

\* _run_onboarding: the configuration is saved and loaded, unless saving fails.
ReturnWizard ==
    /\ Returning("first run")
    /\ \E list \in Top.result : Return(list) \/ Return(companies)

\* The answer to the question.
RemoveSociety ==
    /\ Box
    /\ \/ Return(companies)
       \/ Top.index \in DOMAIN companies /\ Return(RemoveAt(companies, Top.index))

-----------------------------------------------------------------------------
(* Imports.                                                                *)

ImportSocieties(t) ==
    /\ Clickable
    /\ importing[t] = NoSheet
    /\ \E sheet \in Sheets \union {Refused} : importing' = [importing EXCEPT ![t] = sheet]
    /\ UNCHANGED <<companies, dialogs, grab>>

Reporting == \E p \in DOMAIN dialogs : dialogs[p].kind = "report"

\* The poll drains the mailbox, and goes on when the report it opens is seen.  Threads end
\* in any order, so their callbacks come in any.
ApplySocieties(t) ==
    /\ Settled /\ ~Reporting /\ importing[t] \notin {NoSheet, Refused}
    /\ companies' = Merged(companies, Created(importing[t]))
    /\ Len(companies') <= MaxCompanies
    /\ dialogs' = Append(Marked("import", DOMAIN dialogs), Dialog("report", 0))
    /\ importing' = [importing EXCEPT ![t] = NoSheet]
    /\ UNCHANGED grab

\* The report is seen and takes the grab.  Nobody waits for it to be closed.
ShowReport ==
    /\ dialogs # <<>> /\ Top.kind = "report" /\ ~Top.closed
    /\ dialogs' = Front(dialogs)
    /\ grab' = Report
    /\ UNCHANGED <<companies, importing>>

\* The error is shown, or the thread has died.
GiveUp(t) ==
    /\ importing[t] = Refused
    /\ importing' = [importing EXCEPT ![t] = NoSheet]
    /\ UNCHANGED <<companies, dialogs, grab>>

\* The report that holds the grab is closed; closing another releases nothing.
CloseReport ==
    /\ grab = Report
    /\ grab' = Nobody
    /\ UNCHANGED <<companies, dialogs, importing>>

-----------------------------------------------------------------------------
\* At the start the configuration that was saved is loaded, in which no CUIT comes twice; at
\* the very first there is none, and the wizard opens before anything has been clicked.
Loaded(n) ==
    {list \in [1 .. n -> {Company(c, e, c) : c \in Known, e \in {l \in Entries : l.legal # Blank}}] :
        Cardinality(CuitsOf(list)) = n}

FirstStart == companies = <<>> /\ dialogs = <<Dialog("first run", 0)>>

CompaniesInit ==
    /\ \E n \in 0 .. MaxCompanies : companies \in Loaded(n)
    /\ dialogs = <<>> \/ FirstStart
    /\ grab = Nobody
    /\ importing = [t \in Imports |-> NoSheet]

Settle == \E p \in DOMAIN dialogs : SaveDialog(p) \/ FinishWizard(p) \/ Cancel(p)

Returns == ReturnNothing \/ ReturnAdded \/ ReturnEdited \/ ReturnWizard \/ RemoveSociety

CompaniesNext ==
    \/ AddSociety \/ EditSociety \/ AskRemoval
    \/ ShowModal \/ Settle \/ Returns
    \/ ShowReport \/ CloseReport
    \/ \E t \in Imports : ImportSocieties(t) \/ ApplySocieties(t) \/ GiveUp(t)

CompaniesSpec == CompaniesInit /\ [][CompaniesNext]_companiesVars

-----------------------------------------------------------------------------
(* Properties.                                                             *)

\* While a dialog is open the company at its index is the one it shows, so that an edit and
\* a removal act on the company the user chose.  Excused: an import was applied meanwhile,
\* or another dialog was opened before this one had the grab.
EditsItsOwn ==
    \A p \in DOMAIN dialogs : \A c \in dialogs[p].of :
        dialogs[p].behind # {}
            \/ (dialogs[p].index \in DOMAIN companies /\ companies[dialogs[p].index] = c)

\* The callback on top may take a company away.
MayTake == Top.kind \in {"edit", "remove"} \/ (Top.kind = "first run" /\ Top.behind # {})

\* A company leaves the list only when the callback of an edit or of a removal returns:
\* neither an import nor another dialog ever takes one away.  Excused: the wizard of the
\* first start, which replaces what was added or imported behind it.
OnlyChosenLeave ==
    [][CuitsOf(companies) \subseteq CuitsOf(companies')
          \/ (Len(dialogs') < Len(dialogs) /\ MayTake)]_companiesVars

\* A CUIT in the list is the one that was meant, although zeros of its body were left out, a
\* digit was mistyped or two neighbours were exchanged, in a dialog or in a sheet.
TypedIsMeant == \A i \in DOMAIN companies : companies[i].cuit = companies[i].meant

-----------------------------------------------------------------------------
(* Promises of the documentation that the code does not keep.              *)

\* "Se quita {name} (CUIT {cuit}) de la lista": what is removed is what the question named.
\* The index is read before the question and used after it, and the mailbox is drained
\* meanwhile.
RemovesWhatItNamed ==
    [][\A c \in IF Box THEN Top.of ELSE {} :
          companies' # companies /\ Len(dialogs') < Len(dialogs) =>
              companies[Top.index].cuit = c.cuit]_companiesVars

\* "grab_set" makes a dialog modal: no other dialog changes the list under its index.  In
\* the loop that comes before the grab a second one can be opened.
NoOtherDialogChanges ==
    \A p \in DOMAIN dialogs : \A c \in dialogs[p].of :
        "import" \in dialogs[p].behind
            \/ (dialogs[p].index \in DOMAIN companies /\ companies[dialogs[p].index] = c)

\* The wizard of the first start takes nothing away that the user has entered before.
WizardKeeps ==
    [][CuitsOf(companies) \subseteq CuitsOf(companies')
          \/ (Len(dialogs') < Len(dialogs) /\ Top.kind \in {"edit", "remove"})]_companiesVars
=============================================================================
