------------------------------- MODULE Imports -------------------------------
(***************************************************************************)
(* Which names a module sees: the items of modules, their exports and      *)
(* imports, and the lookup of names (siko_name_resolver: resolver.rs,      *)
(* export_processor.rs, import_processor.rs, export_import_pattern.rs,     *)
(* import.rs).                                                             *)
(*                                                                         *)
(* A program is a sequence of modules in the order of their names, each a  *)
(* record:                                                                 *)
(*   name                                                                  *)
(*   decls    [kind, name, parts]: a "function", a "record" with its       *)
(*            fields, an "adt" with its variants, a "class" with members   *)
(*   exports  a list: [all, items], items are [name, group, members]; all  *)
(*            is for a list that is not written down                       *)
(*   imports  [from, hiding, names, list, as]: names are hidden, or list   *)
(*            is imported; as is an alternative name or None               *)
(***************************************************************************)
EXTENDS Naturals, Sequences, FiniteSets, SequencesExt

CONSTANTS
    Programs,           \* the programs that are considered
    ImplicitModules     \* the modules imported everywhere, in their order

\* No alternative name of an import, no owner of an item.
None == ""

DeclKinds == {"function", "record", "adt", "class"}
EntryShape ==
    [name : STRING, group : {FALSE}, members : {<<>>}] \cup [name : STRING, group : {TRUE}, members : Seq(STRING)]
ListShape == [all : BOOLEAN, items : Seq(EntryShape)]
ImportShape == [from : STRING, hiding : BOOLEAN, names : Seq(STRING), list : ListShape, as : STRING \cup {None}]
ModuleShape ==
    [name : STRING, decls : Seq([kind : DeclKinds, name : STRING, parts : Seq(STRING)]),
     exports : ListShape, imports : Seq(ImportShape)]

\* A program has at least one module, that of the first file, and its modules have
\* different names: process_module_conflicts rejects others before there are items.
ASSUME ProgramsAssumption == \A p \in Programs :
    p \in Seq(ModuleShape) /\ p # <<>> /\ \A m, n \in DOMAIN p : p[m].name = p[n].name => m = n
ASSUME ImplicitAssumption == ImplicitModules \in Seq(STRING)

VARIABLES
    program,            \* the program
    items,              \* module -> the items it declares
    members,            \* module -> the fields and variants it declares
    exported,           \* module -> [items, members] it exports
    imported,           \* module -> [path, item, by]: what a path stands for, by which import
    importedMembers,    \* module -> [member, by]
    matched,            \* the hide patterns of the module at hand that hid something
    at,                 \* the module at hand
    nr,                 \* the import at hand, or the implicit module
    errors,             \* the errors reported
    stage               \* what is done next, "resolved" or "rejected"

vars == <<program, items, members, exported, imported, importedMembers, matched, at, nr, errors, stage>>

Modules == DOMAIN program
ModulesNamed(name) == {m \in Modules : program[m].name = name}

Init ==
    /\ program \in Programs
    /\ items = [m \in Modules |-> {}]
    /\ members = [m \in Modules |-> {}]
    /\ exported = [m \in Modules |-> [items |-> {}, members |-> {}]]
    /\ imported = [m \in Modules |-> {}]
    /\ importedMembers = [m \in Modules |-> {}]
    /\ matched = {}
    /\ at = 1 /\ nr = 1
    /\ errors = {}
    /\ stage = "parsed"

Error(kind, module, name) == [kind |-> kind, module |-> module, name |-> name]

\* Mutant: the errors of a stage are left for the last one.
GatePast(next) == stage' = next

\* A stage that reported an error is the last one.
Gate(next) == stage' = IF errors' = {} THEN next ELSE "rejected"

-----------------------------------------------------------------------------
(* Items. *)

All == [all |-> TRUE, items |-> <<>>]
ImportAll(from) == [from |-> from, hiding |-> FALSE, names |-> <<>>, list |-> All, as |-> None]

Lacks(module, name) ==
    module.name # name /\ \A i \in DOMAIN module.imports : module.imports[i].from # name

\* The end of Parser::parse: a module that does not mention an implicit module
\* imports all of it.
AddImplicitImport ==
    /\ stage = "parsed" /\ nr <= Len(ImplicitModules)
    /\ program' = [m \in Modules |->
            IF Lacks(program[m], ImplicitModules[nr])
            THEN [program[m] EXCEPT !.imports = Append(@, ImportAll(ImplicitModules[nr]))]
            ELSE program[m]]
    /\ nr' = nr + 1
    /\ UNCHANGED <<items, members, exported, imported, importedMembers, matched, at, errors, stage>>

Item(kind, module, name, owner, id) ==
    [kind |-> kind, module |-> module, name |-> name, owner |-> owner, id |-> id]

PartKinds == [adt |-> "variant", class |-> "classmember"]

\* The items of a module: variants and class members are items of their own.
ItemsOf(m) ==
    LET decls == program[m].decls
    IN  {Item(decls[d].kind, m, decls[d].name, None, <<d, 0>>) : d \in DOMAIN decls} \cup
        UNION {{Item(PartKinds[decls[d].kind], m, decls[d].parts[p], decls[d].name, <<d, p>>) :
                    p \in DOMAIN decls[d].parts} :
               d \in {d \in DOMAIN decls : decls[d].kind \in DOMAIN PartKinds}}

MemberKinds == [record |-> "field", adt |-> "variant"]
NotUnique == [field |-> "RecordFieldNotUnique", variant |-> "VariantNotUnique"]

MembersOf(m) ==
    LET decls == program[m].decls
    IN  UNION {{Item(MemberKinds[decls[d].kind], m, decls[d].parts[p], decls[d].name, <<d, p>>) :
                    p \in DOMAIN decls[d].parts} :
               d \in {d \in DOMAIN decls : decls[d].kind \in DOMAIN MemberKinds}}

Kinds(entries) == {e.kind : e \in entries}

\* Items of one name conflict, except a type and a variant.
Conflicts(m) ==
    {name \in {i.name : i \in ItemsOf(m)} :
        LET same == {i \in ItemsOf(m) : i.name = name}
        IN  Cardinality(same) > 1 /\ ~(Cardinality(same) = 2 /\ Kinds(same) = {"adt", "variant"})}

DeclarationErrors(m) ==
    {Error("InternalModuleConflicts", m, name) : name \in Conflicts(m)} \cup
    {Error(NotUnique[f.kind], m, f.name) :
        f \in {f \in MembersOf(m) : \E g \in MembersOf(m) : g # f /\ g.name = f.name /\ g.owner = f.owner}}

\* process_items_and_types
RegisterItems ==
    /\ stage = "parsed" /\ nr > Len(ImplicitModules)
    /\ items' = [m \in Modules |-> ItemsOf(m)]
    /\ members' = [m \in Modules |-> MembersOf(m)]
    /\ errors' = UNION {DeclarationErrors(m) : m \in Modules}
    /\ Gate("exports")
    /\ UNCHANGED <<program, exported, imported, importedMembers, matched, at, nr>>

-----------------------------------------------------------------------------
(* Patterns, of export and import lists alike. *)

\* match_item: an entry without a group is for any item but a variant or a
\* class member, one with a group for a type.
MatchItem(pattern, item) ==
    /\ item.name = pattern.name
    /\ \/ item.kind \in {"record", "adt"}
       \/ item.kind \in {"function", "class"} /\ ~pattern.group

\* The member patterns of a list: all the members of a group or one of them.
MemberPatterns(list) ==
    UNION {{[group |-> list.items[i].name, name |-> list.items[i].members[j]] :
                j \in DOMAIN list.items[i].members} : i \in DOMAIN list.items}

Fields(field) ==
    {f.name : f \in {f \in members[field.module] : f.kind = "field" /\ f.owner = field.owner}}

\* match_member: the pattern of a field is compared with all fields of the record
\* (the patterns of a text are names of variants, or all).
MatchMember(pattern, member) ==
    /\ member.owner = pattern.group
    /\ \/ pattern.name = "*"
       \/ IF member.kind = "field" THEN pattern.name \in Fields(member) ELSE pattern.name = member.name

\* Mutant: a variant is not looked for among the member patterns.
CheckItemByName(list, item) ==
    list.all \/ \E i \in DOMAIN list.items : MatchItem(list.items[i], item)

\* check_item
CheckItem(list, item) ==
    \/ list.all
    \/ \E i \in DOMAIN list.items : MatchItem(list.items[i], item)
    \/ /\ item.kind = "variant"
       /\ \E p \in MemberPatterns(list) : p.group = item.owner /\ p.name \in {"*", item.name}

\* Mutant: class members are not taken along.
SelectedDirectly(list, available) == {i \in available : CheckItem(list, i)}

\* The items a list takes of those that are available, and the members of the
\* classes it takes.
SelectedItems(list, available) ==
    LET direct == {i \in available : CheckItem(list, i)}
    IN  direct \cup
        {i \in available : i.kind = "classmember" /\
            \E c \in direct : c.kind = "class" /\ c.module = i.module /\ c.name = i.owner}

SelectedMembers(list, available) ==
    {f \in available : list.all \/ \E p \in MemberPatterns(list) : MatchMember(p, f)}

Selected(list, available) ==
    [items |-> SelectedItems(list, available.items), members |-> SelectedMembers(list, available.members)]

\* Mutant: an entry for a group is taken as matched with its members.
UnmatchedNamed(list, available) ==
    {list.items[i].name : i \in {i \in DOMAIN list.items :
        ~list.items[i].group /\ \A item \in available.items : ~MatchItem(list.items[i], item)}}

\* The names in a list that stand for nothing; all members of a group may be none.
Unmatched(list, available) ==
    {list.items[i].name : i \in {i \in DOMAIN list.items :
        \A item \in available.items : ~MatchItem(list.items[i], item)}} \cup
    {p.name : p \in {p \in MemberPatterns(list) :
        p.name # "*" /\ \A f \in available.members : ~MatchMember(p, f)}}

\* process_exports, for one module.
ExportModule ==
    /\ stage = "exports"
    /\ LET available == [items |-> items[at], members |-> members[at]]
           list == program[at].exports
       IN  /\ exported' = [exported EXCEPT ![at] = Selected(list, available)]
           /\ errors' = errors \cup {Error("ExportNoMatch", at, n) : n \in Unmatched(list, available)}
    /\ IF at < Len(program) THEN at' = at + 1 /\ UNCHANGED stage ELSE at' = 1 /\ Gate("imports")
    /\ UNCHANGED <<program, items, members, imported, importedMembers, matched, nr>>

-----------------------------------------------------------------------------
(* Imports. *)

\* The paths an item gets: its name, and its name in the namespace.
Entries(selected, namespace, unqualified, by) ==
    {[path |-> <<namespace, i.name>>, item |-> i, by |-> by] : i \in selected} \cup
    {[path |-> <<i.name>>, item |-> i, by |-> by] : i \in IF unqualified THEN selected ELSE {}}

\* The hide patterns of the module at hand: the names, each by the number of its
\* import and its own, that are hidden of modules there are.
HidePatterns ==
    LET imports == program[at].imports
    IN  UNION {{<<i, j>> : j \in DOMAIN imports[i].names} :
               i \in {i \in DOMAIN imports : imports[i].hiding /\ ModulesNamed(imports[i].from) # {}}}

NameOf(p) == program[at].imports[p[1]].names[p[2]]
HidesOf(name, from) == {p \in HidePatterns : NameOf(p) = name /\ program[at].imports[p[1]].from = from}

Earlier(p, q) == p[1] < q[1] \/ (p[1] = q[1] /\ p[2] < q[2])

\* The start of process_imports for a module: what it declares itself.
StartImports ==
    /\ stage = "imports"
    /\ imported' = [imported EXCEPT ![at] = Entries(items[at], program[at].name, TRUE, 0)]
    /\ importedMembers' = [importedMembers EXCEPT ![at] = {[member |-> f, by |-> 0] : f \in members[at]}]
    /\ matched' = {}
    /\ errors' = errors \cup
            {Error("ImportedModuleNotFound", at, name) : name \in
                {program[at].imports[i].from : i \in DOMAIN program[at].imports} \ {program[m].name : m \in Modules}}
    /\ nr' = 1
    /\ stage' = "import"
    /\ UNCHANGED <<program, items, members, exported, at>>

Hidden(name, from) == HidesOf(name, from) # {}

\* is_hidden marks the first pattern that hides a name.
MarkHides(names, from) ==
    matched \cup UNION {{p \in HidesOf(name, from) : \A q \in HidesOf(name, from) : ~Earlier(q, p)} : name \in names}

ImportList(import, source) ==
    LET available == exported[source]
        selected == Selected(import.list, available)
        visible(entries) == {e \in entries : ~Hidden(e.name, import.from)}
    IN  /\ imported' = [imported EXCEPT ![at] = @ \cup
                Entries(visible(selected.items), IF import.as = None THEN import.from ELSE import.as,
                        import.as = None, nr)]
        /\ importedMembers' = [importedMembers EXCEPT ![at] = @ \cup
                {[member |-> f, by |-> nr] : f \in visible(selected.members)}]
        /\ matched' = MarkHides({i.name : i \in selected.items \cup selected.members}, import.from)
        /\ errors' = errors \cup {Error("ImportNoMatch", at, n) : n \in Unmatched(import.list, available)}

\* One import; a module that does not exist is passed over.
ProcessImport ==
    /\ stage = "import" /\ nr <= Len(program[at].imports)
    /\ LET import == program[at].imports[nr]
           sources == ModulesNamed(import.from)
       IN  IF import.hiding \/ sources = {}
           THEN UNCHANGED <<imported, importedMembers, matched, errors>>
           ELSE \E source \in sources : ImportList(import, source)
    /\ nr' = nr + 1
    /\ UNCHANGED <<program, items, members, exported, at, stage>>

\* The names that were to be hidden and were not imported are reported.
EndImports ==
    /\ stage = "import" /\ nr > Len(program[at].imports)
    /\ errors' = errors \cup {Error("UnusedHiddenItem", at, NameOf(p)) : p \in HidePatterns \ matched}
    /\ IF at < Len(program) THEN at' = at + 1 /\ stage' = "imports" ELSE UNCHANGED at /\ Gate("resolved")
    /\ UNCHANGED <<program, items, members, exported, imported, importedMembers, matched, nr>>

Terminated == stage \in {"resolved", "rejected"} /\ UNCHANGED vars

Next ==
    \/ AddImplicitImport \/ RegisterItems \/ ExportModule
    \/ StartImports \/ ProcessImport \/ EndImports \/ Terminated

Spec == Init /\ [][Next]_vars

-----------------------------------------------------------------------------
(* Lookup of names, once all imports are processed. *)

Found(m, path) == {e \in imported[m] : e.path = path}

\* Mutant: a type beside anything else is not ambiguous.
AmbiguousButType(entries) ==
    Cardinality(entries) > 1 /\ "adt" \notin Kinds({e.item : e \in entries})

\* check_ambiguity: of all that a path stands for, only a type and a variant
\* may stand beside each other.
Ambiguous(entries) ==
    /\ Cardinality(entries) > 1
    /\ ~(Cardinality(entries) = 2 /\ Kinds({e.item : e \in entries}) = {"adt", "variant"})

\* The item a path stands for where one of the kinds is wanted, as a set of at
\* most one.  Of a type and a variant the preferred one is taken.
Lookup(m, path, preferred, kinds) ==
    LET entries == Found(m, path)
        candidates == IF Cardinality(entries) = 1 THEN entries
                      ELSE {e \in entries : e.item.kind = preferred}
    IN  IF Ambiguous(entries) THEN {} ELSE {e.item : e \in {e \in candidates : e.item.kind \in kinds}}

TypeKinds == {"adt", "record"}
ValueKinds == {"function", "record", "variant", "classmember"}

\* process_named_type, resolve_item_path and lookup_class.
LookupType(m, path) == Lookup(m, path, "adt", TypeKinds)
LookupValue(m, path) == Lookup(m, path, "variant", ValueKinds)
LookupClass(m, path) == Lookup(m, path, None, {"class"})

-----------------------------------------------------------------------------
(* What the declarations mean, read off the lists without patterns and in   *)
(* no order.                                                                *)

\* The items an entry of a list stands for, in a module: a type and, with a
\* group, its variants; a class and its members; a function.
ItemsMeant(entry, m) ==
    LET named(kinds) == {i \in ItemsOf(m) : i.name = entry.name /\ i.kind \in kinds}
        parts(kind) == {i \in ItemsOf(m) : i.owner = entry.name /\ i.kind = kind}
        listed == Range(entry.members)
    IN  IF entry.group
        THEN named(TypeKinds) \cup {i \in parts("variant") : {"*", i.name} \cap listed # {}}
        ELSE named(TypeKinds \cup {"class", "function"}) \cup parts("classmember")

\* The fields of a record are meant together: there is no way to list one alone.
FieldsMeant(entry, m) ==
    LET fields == {f \in MembersOf(m) : f.owner = entry.name /\ f.kind = "field"}
    IN  IF entry.group /\ ({"*"} \cup {f.name : f \in fields}) \cap Range(entry.members) # {}
        THEN fields ELSE {}

ItemsIn(list, m) ==
    IF list.all THEN ItemsOf(m) ELSE UNION {ItemsMeant(entry, m) : entry \in Range(list.items)}

FieldsIn(list, m) ==
    IF list.all THEN {f \in MembersOf(m) : f.kind = "field"}
    ELSE UNION {FieldsMeant(entry, m) : entry \in Range(list.items)}

Exports(m) == ItemsIn(program[m].exports, m)

\* An import brings what its list means of what the module exports.  Class
\* members come with their class if they are exported, and all hides of the
\* importing module that name the source count for each of its imports.
HiddenBy(m, name, from) ==
    \E i \in DOMAIN program[m].imports :
        LET import == program[m].imports[i]
        IN  import.hiding /\ import.from = from /\ name \in Range(import.names)

Brings(m, i) ==
    LET import == program[m].imports[i]
    IN  IF import.hiding THEN {}
        ELSE UNION {ItemsIn(import.list, source) \cap Exports(source) : source \in ModulesNamed(import.from)}

BringsFields(m, i) ==
    LET import == program[m].imports[i]
    IN  IF import.hiding THEN {}
        ELSE UNION {FieldsIn(import.list, source) \cap FieldsIn(program[source].exports, source) :
                    source \in ModulesNamed(import.from)}

\* The paths an item has in a module, by an import of it.
Paths(m, i, item) ==
    LET import == program[m].imports[i]
    IN  IF HiddenBy(m, item.name, import.from) THEN {}
        ELSE IF import.as = None THEN {<<item.name>>, <<import.from, item.name>>}
        ELSE {<<import.as, item.name>>}

OwnPaths(m) ==
    UNION {{<<<<item.name>>, item, 0>>, <<<<program[m].name, item.name>>, item, 0>>} : item \in ItemsOf(m)}
BroughtBy(m, i) == UNION {{<<path, item, i>> : path \in Paths(m, i, item)} : item \in Brings(m, i)}

Visible(m) == OwnPaths(m) \cup UNION {BroughtBy(m, i) : i \in DOMAIN program[m].imports}

OwnFields(m) == {<<f, 0>> : f \in {f \in MembersOf(m) : f.kind = "field"}}
FieldsBroughtBy(m, i) ==
    {<<f, i>> : f \in {f \in BringsFields(m, i) : ~HiddenBy(m, f.name, program[m].imports[i].from)}}

VisibleFields(m) == OwnFields(m) \cup UNION {FieldsBroughtBy(m, i) : i \in DOMAIN program[m].imports}

\* A list names something that is not there to be named.
Empty(list, m, available, fields) ==
    \E entry \in Range(list.items) :
        \/ ItemsMeant([entry EXCEPT !.members = <<>>], m) \cap available = {}
        \/ \E name \in Range(entry.members) \ {"*"} :
                \A part \in {i \in available : i.kind = "variant"} \cup fields :
                    part.owner # entry.name \/ part.name # name

\* The reasons to reject a program: declarations of one name,
Doubled(m) ==
    \/ Conflicts(m) # {}
    \/ \E f, g \in MembersOf(m) : f # g /\ f.name = g.name /\ f.owner = g.owner

\* an export list that names what is not declared,
ExportReason(m) == Empty(program[m].exports, m, ItemsOf(m), MembersOf(m))

\* an import from a module that is not there, or of what it does not export,
NotFound(m) == \E i \in DOMAIN program[m].imports : ModulesNamed(program[m].imports[i].from) = {}

ListReason(m, i) ==
    LET import == program[m].imports[i]
    IN  ~import.hiding /\ \E source \in ModulesNamed(import.from) :
            Empty(import.list, source, Exports(source), FieldsIn(program[source].exports, source))

\* and a hide of what no import brings, or is hidden before.
Names(m, i) == {p.name : p \in Brings(m, i) \cup BringsFields(m, i)}

HideReason(m, i) ==
    LET import == program[m].imports[i]
    IN  import.hiding /\ \E k \in DOMAIN import.names :
            \/ \A j \in DOMAIN program[m].imports :
                program[m].imports[j].from # import.from \/ import.names[k] \notin Names(m, j)
            \/ \E j \in 1 .. i : LET other == program[m].imports[j]
                                 IN  /\ other.hiding /\ other.from = import.from
                                     /\ \E l \in DOMAIN other.names :
                                            other.names[l] = import.names[k] /\ (j < i \/ l < k)

ImportReason(m) == NotFound(m) \/ \E i \in DOMAIN program[m].imports : ListReason(m, i) \/ HideReason(m, i)

Reasons == \E m \in Modules : Doubled(m) \/ ExportReason(m) \/ ImportReason(m)

-----------------------------------------------------------------------------

\* What is exported is declared, what is imported is exported by its source,
\* and a program is resolved iff no stage reported an error.
TypeOK ==
    /\ stage \in {"parsed", "exports", "imports", "import", "resolved", "rejected"}
    /\ at \in Modules
    /\ \A m \in Modules :
        /\ exported[m].items \subseteq items[m] /\ exported[m].members \subseteq members[m]
        /\ \A e \in imported[m] : IF e.by = 0 THEN e.item.module = m ELSE e.item \in exported[e.item.module].items
    /\ stage = "resolved" => errors = {}
    /\ stage = "rejected" => errors # {}

\* A path stands for what the lists mean: through the exports of one module and
\* the imports of another, with the hides of all imports, the implicit imports
\* and alternative names, and whatever the order of the imports.
VisibleExact ==
    stage = "resolved" => \A m \in Modules :
        /\ {<<e.path, e.item, e.by>> : e \in imported[m]} = Visible(m)
        /\ {<<f.member, f.by>> : f \in {f \in importedMembers[m] : f.member.kind = "field"}} = VisibleFields(m)

\* Variants are selected twice, as items and as members of their type, by
\* different code.  They come and go together: an import brings one as an item
\* iff it brings it as a member.
VariantsAgree ==
    stage = "resolved" => \A m \in Modules :
        {<<e.item, e.by>> : e \in {e \in imported[m] : e.item.kind = "variant"}} =
        {<<f.member, f.by>> : f \in {f \in importedMembers[m] : f.member.kind = "variant"}}

\* A program is rejected iff it names something that is not there: in an export
\* list, in an import list or among the names an import hides, each of which
\* may be there only by an import that is processed later.
ReportsExact ==
    /\ stage = "resolved" => ~Reasons
    /\ stage = "rejected" => Reasons

\* A name that is resolved has one meaning: no other item of its kind is visible
\* under it, whichever modules the items come from.
LookupsSound ==
    stage = "resolved" => \A m \in Modules : \A path \in {e.path : e \in imported[m]} :
        LET of(kinds) == {e.item : e \in {e \in Found(m, path) : e.item.kind \in kinds}}
        IN  /\ LookupType(m, path) # {} => of(TypeKinds \cup {"class"}) = LookupType(m, path)
            /\ LookupValue(m, path) # {} => of(ValueKinds) = LookupValue(m, path)
            /\ LookupClass(m, path) # {} => of(TypeKinds \cup {"class"}) = LookupClass(m, path)

=============================================================================
