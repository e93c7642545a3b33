------------------------------- MODULE Folders -------------------------------
(***************************************************************************)
(* The folders of a configuration and the folder a document goes to.  A    *)
(* path is the sequence of its components, as the user chooses it; a name  *)
(* is the sequence of its characters, of which "/" stands for all that     *)
(* Windows refuses in a name.  AppConfig refuses a configuration whose     *)
(* output lies inside the folder it watches; where a document goes is      *)
(* computed later, from what was read of it.                               *)
(***************************************************************************)
EXTENDS Integers, SequencesExt, FiniteSetsExt

CONSTANTS
    ReviewName, DuplicatesName, NoSocietyName,   \* REVIEW_FOLDER_NAME and its like
    Fallback,       \* UNKNOWN_SUPPLIER
    NoDate,         \* _NO_DATE
    Literal,        \* the segments of templates that hold no token, by a key
    MaxComponent    \* _MAX_COMPONENT_LENGTH

Tokens == {"supplier", "society", "year", "month", "day"}

ASSUME NamesAssumption ==
    /\ \A name \in {ReviewName, DuplicatesName, NoSocietyName, Fallback, NoDate} :
          name \in Seq(STRING) /\ name # <<>>
    /\ DOMAIN Literal \intersect Tokens = {} /\ \A key \in DOMAIN Literal : Literal[key] \in Seq(STRING)
    /\ MaxComponent \in Nat \ {0}

\* What strip takes from both ends of a name.
Edges == {" ", "."}

ASSUME FallbackAssumption ==
    "/" \notin ToSet(Fallback) /\ Fallback[1] \notin Edges /\ Last(Fallback) \notin Edges

\* The elements at some indices, in their order.
Nth(indices, n) == CHOOSE i \in indices : Cardinality({j \in indices : j <= i}) = n
At(seq, indices) == [n \in 1..Cardinality(indices) |-> seq[Nth(indices, n)]]

-----------------------------------------------------------------------------
(* Names of folders.                                                       *)

\* Spaces and dots at both ends; blanks alone are dropped from a template.
Strip(text) ==
    LET inner == {i \in DOMAIN text : text[i] \notin Edges}
    IN IF inner = {} THEN <<>> ELSE SubSeq(text, Min(inner), Max(inner))

Collapsed(text) == At(text, {i \in DOMAIN text : text[i] = " " => i = 1 \/ text[i - 1] # " "})

Valid(name) == At(name, {i \in DOMAIN name : name[i] # "/"})
Shortened(text) == SubSeq(text, 1, Min({MaxComponent, Len(text)}))
OrElse(name, fallback) == IF name = <<>> THEN fallback ELSE name

\* Mutant: what is refused in a name is removed, and nothing else.
RemovesOnly(name, fallback) == OrElse(Valid(name), fallback)

\* Mutant: what the cut leaves at the end stays.
CutLast(name, fallback) == OrElse(Shortened(Strip(Collapsed(Valid(name)))), fallback)

SanitizeComponent(name, fallback) ==
    OrElse(Strip(Shortened(Strip(Collapsed(Valid(name))))), fallback)

IsBlank(text) == \A i \in DOMAIN text : text[i] = " "

-----------------------------------------------------------------------------
(* The configuration.                                                      *)

\* _is_within, which compares what was typed; a folder is within itself.
Within(child, parent) == IsPrefix(parent, child)

ReviewFolder(config) == Append(config.base, ReviewName)
DuplicatesFolder(config) == Append(config.base, DuplicatesName)

SocietyFolder(config, society) == Append(config.base, SanitizeComponent(society.name, Fallback))

\* society_for_cuit: the first company that has it, if any.
SocietiesFor(config, cuit) ==
    At(config.societies, {i \in DOMAIN config.societies : config.societies[i].cuit = cuit})

FolderForCuit(config, cuit) ==
    LET found == SocietiesFor(config, cuit)
    IN IF found = <<>> THEN config.unknown ELSE SocietyFolder(config, found[1])

OrdersBaseFor(config, cuit) ==
    LET found == SocietiesFor(config, cuit)
    IN Append(config.orders,
              SanitizeComponent(IF found = <<>> THEN NoSocietyName ELSE found[1].name, Fallback))

Outputs(config) ==
    {config.base, config.unknown, config.quarantine, config.orders}
        \union {SocietyFolder(config, config.societies[i]) : i \in DOMAIN config.societies}

\* Mutant: the folders are not looked at.
AcceptedAnywhere(config) == ToSet(config.template) \subseteq Tokens \union DOMAIN Literal

\* The validators of AppConfig.
Accepted(config) ==
    /\ \A i, j \in DOMAIN config.societies :
          config.societies[i].cuit = config.societies[j].cuit => i = j
    /\ \A folder \in Outputs(config) : ~Within(folder, config.input)
    /\ ToSet(config.template) \subseteq Tokens \union DOMAIN Literal

-----------------------------------------------------------------------------
(* Where a document goes.  Of a document: the name of its supplier, the    *)
(* CUIT of its buyer, whether it is an order, and year, month and day if a *)
(* date was read.                                                          *)

Dated(doc, part) == IF doc.date = <<>> THEN NoDate ELSE doc.date[part]

\* Path.name: an empty path has an empty one.
NameOf(path) == IF path = <<>> THEN <<>> ELSE Last(path)

\* _template_context and format_map, for a segment that is one token or one literal
\* text; segments that mix the two, and templates format_map refuses, are left out.
Filled(segment, doc, base) ==
    CASE segment = "supplier" -> doc.supplier
      [] segment = "society" -> NameOf(base)
      [] segment = "year" -> Dated(doc, 1)
      [] segment = "month" -> Dated(doc, 2)
      [] segment = "day" -> Dated(doc, 3)
      [] OTHER -> Literal[segment]

\* The subfolders of a base: the segments of the template that are not blank, in order.
Kept(config, base, doc) ==
    {i \in DOMAIN config.template : ~IsBlank(Filled(config.template[i], doc, base))}

Subfolders(config, base, doc) ==
    LET kept == Kept(config, base, doc)
    IN [n \in 1..Cardinality(kept) |->
            SanitizeComponent(Filled(config.template[Nth(kept, n)], doc, base), Fallback)]

DestinationDir(config, base, doc) == base \o Subfolders(config, base, doc)

ArchiveBase(config, doc) ==
    IF doc.order THEN OrdersBaseFor(config, doc.buyer) ELSE FolderForCuit(config, doc.buyer)

ArchiveDir(config, doc) == DestinationDir(config, ArchiveBase(config, doc), doc)

\* What _archive and _quarantine may choose.
Destinations(config, doc) ==
    {ArchiveDir(config, doc), config.quarantine}
        \union {DestinationDir(config, base, doc) : base \in {ReviewFolder(config), DuplicatesFolder(config)}}
=============================================================================
