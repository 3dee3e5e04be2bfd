---------------------------- MODULE Imports_proofs ----------------------------
(***************************************************************************)
(* For any modules, export lists and imports: what a module sees is        *)
(* exported by the module that declares it; variants, which are selected   *)
(* twice, as items and as members of their type, come and go together; a   *)
(* name that is resolved has one meaning.  In the second half of the module: *)
(* what a module sees is what the lists of the program mean, and a program *)
(* is rejected iff one of them names something that is not there.          *)
(***************************************************************************)
EXTENDS Imports, SequenceTheorems, FiniteSetTheorems, TLAPS

\* Variants among items or members, and among what was imported.
VariantsOf(parts) == {v \in parts : v.kind = "variant"}
VariantEntries(entries) == {<<e.item, e.by>> : e \in {e \in entries : e.item.kind = "variant"}}
VariantMembers(entries) == {<<f.member, f.by>> : f \in {f \in entries : f.member.kind = "variant"}}

Stages == {"parsed", "exports", "imports", "import", "resolved", "rejected"}

\* Modules keep their declarations; the tables have a row for every module.
Shape ==
    /\ program \in Seq(ModuleShape) /\ program # <<>>
    /\ \A m, n \in Modules : program[m].name = program[n].name => m = n
    /\ stage \in Stages /\ at \in Modules /\ nr \in Nat \ {0}
    /\ exported = [m \in Modules |-> exported[m]]
    /\ imported = [m \in Modules |-> imported[m]]
    /\ importedMembers = [m \in Modules |-> importedMembers[m]]

\* Each table agrees with the one it was filled from.
Tables ==
    \A m \in Modules :
        /\ \A i \in items[m] : i.module = m
        /\ VariantsOf(items[m]) = VariantsOf(members[m])
        /\ exported[m].items \subseteq items[m] /\ exported[m].members \subseteq members[m]
        /\ VariantsOf(exported[m].items) = VariantsOf(exported[m].members)
        /\ \A e \in imported[m] : IF e.by = 0 THEN e.item.module = m ELSE e.item \in exported[e.item.module].items
        /\ VariantEntries(imported[m]) = VariantMembers(importedMembers[m])

\* A table is empty before its stage.
Pending ==
    \A m \in Modules :
        /\ stage = "parsed" => exported[m] = [items |-> {}, members |-> {}]
        /\ stage \in {"parsed", "exports"} => imported[m] = {} /\ importedMembers[m] = {}

Verdict ==
    /\ stage = "resolved" => errors = {}
    /\ stage = "rejected" => errors # {}

IInv == Shape /\ Tables /\ Pending /\ Verdict

-----------------------------------------------------------------------------

LEMMA ProgramParts ==
    ASSUME NEW p \in Seq(ModuleShape), p # <<>>
    PROVE  /\ Len(p) \in Nat \ {0} /\ DOMAIN p = 1..Len(p)
           /\ \A m \in DOMAIN p : p[m] \in ModuleShape
BY EmptySeq, LenProperties

\* A module is a record of its parts, in sequences.
LEMMA ModuleParts ==
    ASSUME NEW module \in ModuleShape
    PROVE  /\ module.name \in STRING /\ module.exports \in ListShape /\ module.imports \in Seq(ImportShape)
           /\ \A d \in DOMAIN module.decls : module.decls[d].kind \in DeclKinds
<1> DEFINE Decls == [kind : DeclKinds, name : STRING, parts : Seq(STRING)]
<1>1. /\ module.name \in STRING /\ module.exports \in ListShape /\ module.imports \in Seq(ImportShape)
      /\ module.decls \in Seq(Decls)
    BY DEF ModuleShape
<1>2. ASSUME NEW decls \in Seq(Decls), NEW d \in DOMAIN decls
      PROVE  decls[d].kind \in DeclKinds
    <2>1. decls[d] \in Decls
        <3> HIDE DEF Decls
        <3> QED
            BY <1>2
    <2> QED
        BY <2>1
<1> QED
    BY <1>1, <1>2

\* The variant p of the data type that is declaration d of a module.
VariantAt(m, d, p) ==
    Item("variant", m, program[m].decls[d].parts[p], program[m].decls[d].name, <<d, p>>)

\* v is one of the variants that a module declares.
IsVariantOf(v, m) ==
    \E d \in DOMAIN program[m].decls : \E p \in DOMAIN program[m].decls[d].parts :
        program[m].decls[d].kind = "adt" /\ v = VariantAt(m, d, p)

LEMMA VariantItems ==
    ASSUME NEW m, \A d \in DOMAIN program[m].decls : program[m].decls[d].kind \in DeclKinds, NEW v
    PROVE  v \in VariantsOf(ItemsOf(m)) <=> IsVariantOf(v, m)
<1> DEFINE decls == program[m].decls
           parted == {d \in DOMAIN decls : decls[d].kind \in DOMAIN PartKinds}
           whole == {Item(decls[d].kind, m, decls[d].name, None, <<d, 0>>) : d \in DOMAIN decls}
           partsOf(d) == {Item(PartKinds[decls[d].kind], m, decls[d].parts[p], decls[d].name, <<d, p>>) :
                            p \in DOMAIN decls[d].parts}
<1>1. ItemsOf(m) = whole \cup UNION {partsOf(d) : d \in parted}
    BY DEF ItemsOf
<1>2. /\ DOMAIN PartKinds = {"adt", "class"}
      /\ PartKinds["adt"] = "variant" /\ PartKinds["class"] = "classmember"
    BY DEF PartKinds
<1>3. \A d \in DOMAIN decls : Item(decls[d].kind, m, decls[d].name, None, <<d, 0>>).kind # "variant"
    BY DEF Item, DeclKinds
<1>4. ASSUME v \in VariantsOf(ItemsOf(m))
      PROVE  IsVariantOf(v, m)
    <2>1. v.kind = "variant" /\ v \notin whole
        BY <1>3, <1>4 DEF VariantsOf
    <2>2. PICK d \in parted : v \in partsOf(d)
        BY <1>1, <1>4, <2>1 DEF VariantsOf
    <2>3. PICK p \in DOMAIN decls[d].parts :
            v = Item(PartKinds[decls[d].kind], m, decls[d].parts[p], decls[d].name, <<d, p>>)
        BY <2>2
    <2>4. decls[d].kind = "adt"
        BY <1>2, <2>1, <2>2, <2>3 DEF Item
    <2> QED
        BY <1>2, <2>2, <2>3, <2>4 DEF IsVariantOf, VariantAt
<1>5. ASSUME IsVariantOf(v, m)
      PROVE  v \in VariantsOf(ItemsOf(m))
    <2>1. PICK d \in DOMAIN decls : \E p \in DOMAIN decls[d].parts : decls[d].kind = "adt" /\ v = VariantAt(m, d, p)
        BY <1>5 DEF IsVariantOf
    <2>2. v \in partsOf(d) /\ d \in parted
        BY <1>2, <2>1 DEF VariantAt
    <2>3. v.kind = "variant"
        BY <2>1 DEF VariantAt, Item
    <2> QED
        BY <1>1, <2>2, <2>3 DEF VariantsOf
<1> QED
    BY <1>4, <1>5

LEMMA VariantMembersOf ==
    ASSUME NEW m, NEW v
    PROVE  v \in VariantsOf(MembersOf(m)) <=> IsVariantOf(v, m)
<1> DEFINE decls == program[m].decls
           parted == {d \in DOMAIN decls : decls[d].kind \in DOMAIN MemberKinds}
           partsOf(d) == {Item(MemberKinds[decls[d].kind], m, decls[d].parts[p], decls[d].name, <<d, p>>) :
                            p \in DOMAIN decls[d].parts}
<1>1. MembersOf(m) = UNION {partsOf(d) : d \in parted}
    BY DEF MembersOf
<1>2. /\ DOMAIN MemberKinds = {"record", "adt"}
      /\ MemberKinds["adt"] = "variant" /\ MemberKinds["record"] = "field"
    BY DEF MemberKinds
<1>3. ASSUME v \in VariantsOf(MembersOf(m))
      PROVE  IsVariantOf(v, m)
    <2>1. PICK d \in parted : v \in partsOf(d)
        BY <1>1, <1>3 DEF VariantsOf
    <2>2. PICK p \in DOMAIN decls[d].parts :
            v = Item(MemberKinds[decls[d].kind], m, decls[d].parts[p], decls[d].name, <<d, p>>)
        BY <2>1
    <2>3. decls[d].kind = "adt"
        BY <1>2, <1>3, <2>1, <2>2 DEF Item, VariantsOf
    <2> QED
        BY <1>2, <2>1, <2>2, <2>3 DEF IsVariantOf, VariantAt
<1>4. ASSUME IsVariantOf(v, m)
      PROVE  v \in VariantsOf(MembersOf(m))
    <2>1. PICK d \in DOMAIN decls : \E p \in DOMAIN decls[d].parts : decls[d].kind = "adt" /\ v = VariantAt(m, d, p)
        BY <1>4 DEF IsVariantOf
    <2>2. v \in partsOf(d) /\ d \in parted
        BY <1>2, <2>1 DEF VariantAt
    <2>3. v.kind = "variant"
        BY <2>1 DEF VariantAt, Item
    <2> QED
        BY <1>1, <2>2, <2>3 DEF VariantsOf
<1> QED
    BY <1>3, <1>4

LEMMA ItemsOwned ==
    ASSUME NEW m, NEW i \in ItemsOf(m)
    PROVE  i.module = m
<1> DEFINE decls == program[m].decls
           parted == {d \in DOMAIN decls : decls[d].kind \in DOMAIN PartKinds}
           whole == {Item(decls[d].kind, m, decls[d].name, None, <<d, 0>>) : d \in DOMAIN decls}
           partsOf(d) == {Item(PartKinds[decls[d].kind], m, decls[d].parts[p], decls[d].name, <<d, p>>) :
                            p \in DOMAIN decls[d].parts}
<1>1. ItemsOf(m) = whole \cup UNION {partsOf(d) : d \in parted}
    BY DEF ItemsOf
<1>2. \A kind, name, owner, id : Item(kind, m, name, owner, id).module = m
    BY DEF Item
<1>3. CASE i \in whole
    BY <1>2, <1>3
<1>4. CASE \E d \in parted : i \in partsOf(d)
    BY <1>2, <1>4
<1> QED
    BY <1>1, <1>3, <1>4

\* A list selects the same variants as items and as members, of what agrees.
LEMMA SelectedVariants ==
    ASSUME NEW list, NEW I, NEW M, VariantsOf(I) = VariantsOf(M)
    PROVE  /\ VariantsOf(SelectedItems(list, I)) = VariantsOf(SelectedMembers(list, M))
           /\ SelectedItems(list, I) \subseteq I
           /\ SelectedMembers(list, M) \subseteq M
<1> DEFINE chosen(v) == list.all \/ \E p \in MemberPatterns(list) : p.group = v.owner /\ p.name \in {"*", v.name}
<1>1. \A v : v.kind = "variant" => (CheckItem(list, v) <=> chosen(v))
    BY DEF CheckItem, MatchItem
<1>2. \A v : v.kind = "variant" =>
        ((list.all \/ \E p \in MemberPatterns(list) : MatchMember(p, v)) <=> chosen(v))
    BY DEF MatchMember
<1>3. \A v : v \in VariantsOf(SelectedItems(list, I)) <=> v \in VariantsOf(I) /\ chosen(v)
    BY <1>1 DEF VariantsOf, SelectedItems
<1>4. \A v : v \in VariantsOf(SelectedMembers(list, M)) <=> v \in VariantsOf(M) /\ chosen(v)
    BY <1>2 DEF VariantsOf, SelectedMembers
<1>5. SelectedItems(list, I) \subseteq I /\ SelectedMembers(list, M) \subseteq M
    BY DEF SelectedItems, SelectedMembers
<1> QED
    BY <1>3, <1>4, <1>5

\* Entries of the items an import, or the module itself, brings: each of them
\* has an entry, or two.
EntriesOf(entries, selected, by) ==
    /\ \A e \in entries : e.item \in selected /\ e.by = by
    /\ \A i \in selected : \E e \in entries : e.item = i /\ e.by = by

LEMMA EntriesMade ==
    ASSUME NEW selected, NEW namespace, NEW by, NEW entries,
           \A e \in entries : e.item \in selected /\ e.by = by,
           \A i \in selected : [path |-> <<namespace, i.name>>, item |-> i, by |-> by] \in entries
    PROVE  EntriesOf(entries, selected, by)
<1>1. ASSUME NEW i \in selected
      PROVE  \E e \in entries : e.item = i /\ e.by = by
    BY <1>1, [path |-> <<namespace, i.name>>, item |-> i, by |-> by] \in entries
<1> QED
    BY <1>1 DEF EntriesOf

LEMMA EntriesBring ==
    ASSUME NEW selected, NEW by, NEW entries, EntriesOf(entries, selected, by)
    PROVE  VariantEntries(entries) = {<<v, by>> : v \in VariantsOf(selected)}
<1>1. ASSUME NEW v \in VariantsOf(selected)
      PROVE  <<v, by>> \in VariantEntries(entries)
    BY <1>1 DEF EntriesOf, VariantEntries, VariantsOf
<1>2. ASSUME NEW x \in VariantEntries(entries)
      PROVE  x \in {<<v, by>> : v \in VariantsOf(selected)}
    BY <1>2 DEF EntriesOf, VariantEntries, VariantsOf
<1> QED
    BY <1>1, <1>2

LEMMA MembersBring ==
    ASSUME NEW selected, NEW by
    PROVE  VariantMembers({[member |-> f, by |-> by] : f \in selected}) = {<<v, by>> : v \in VariantsOf(selected)}
<1> DEFINE entries == {[member |-> f, by |-> by] : f \in selected}
<1>1. \A f \in entries : f.member \in selected /\ f.by = by
    OBVIOUS
<1>2. ASSUME NEW v \in VariantsOf(selected)
      PROVE  <<v, by>> \in VariantMembers(entries)
    <2>1. [member |-> v, by |-> by] \in entries
        BY <1>2 DEF VariantsOf
    <2> QED
        BY <1>2, <2>1 DEF VariantMembers, VariantsOf
<1>3. ASSUME NEW x \in VariantMembers(entries)
      PROVE  x \in {<<v, by>> : v \in VariantsOf(selected)}
    BY <1>1, <1>3 DEF VariantMembers, VariantsOf
<1> QED
    BY <1>2, <1>3

LEMMA EntriesJoin ==
    ASSUME NEW A, NEW B
    PROVE  /\ VariantEntries(A \cup B) = VariantEntries(A) \cup VariantEntries(B)
           /\ VariantMembers(A \cup B) = VariantMembers(A) \cup VariantMembers(B)
BY DEF VariantEntries, VariantMembers

-----------------------------------------------------------------------------

LEMMA InitIInv == Init => IInv
<1> SUFFICES ASSUME Init
             PROVE  IInv
    OBVIOUS
<1>1. /\ program \in Seq(ModuleShape) /\ program # <<>>
      /\ \A m, n \in Modules : program[m].name = program[n].name => m = n
    BY ProgramsAssumption DEF Init, Modules
<1>2. 1 \in Modules
    BY <1>1, ProgramParts DEF Modules
<1>3. Shape
    BY <1>1, <1>2 DEF Init, Shape, Stages
<1>4. Tables
    BY DEF Init, Tables, VariantsOf, VariantEntries, VariantMembers
<1>5. Pending /\ Verdict
    BY DEF Init, Pending, Verdict
<1> QED
    BY <1>3, <1>4, <1>5 DEF IInv

LEMMA ImportMade ==
    ASSUME NEW from \in STRING, NEW hiding \in BOOLEAN, NEW names \in Seq(STRING), NEW list \in ListShape,
           NEW as \in STRING \cup {None}
    PROVE  [from |-> from, hiding |-> hiding, names |-> names, list |-> list, as |-> as] \in ImportShape
BY DEF ImportShape

\* One more import leaves a module what it is.
LEMMA WithImport ==
    ASSUME NEW module \in ModuleShape, NEW name \in STRING
    PROVE  /\ [module EXCEPT !.imports = Append(module.imports, ImportAll(name))] \in ModuleShape
           /\ [module EXCEPT !.imports = Append(module.imports, ImportAll(name))].name = module.name
<1>1. ImportAll(name) \in ImportShape
    <2>1. All \in ListShape
        BY EmptySeq DEF All, ListShape
    <2>2. <<>> \in Seq(STRING)
        BY EmptySeq
    <2>3. FALSE \in BOOLEAN
        OBVIOUS
    <2>4. None \in STRING \cup {None}
        OBVIOUS
    <2> QED
        BY <2>1, <2>2, <2>3, <2>4, ImportMade, Zenon DEF ImportAll
<1>2. Append(module.imports, ImportAll(name)) \in Seq(ImportShape)
    BY <1>1, ModuleParts, AppendProperties
<1> QED
    BY <1>2 DEF ModuleShape

LEMMA AddImplicitImportStep == IInv /\ AddImplicitImport => IInv'
<1> SUFFICES ASSUME IInv, AddImplicitImport
             PROVE  IInv'
    OBVIOUS
<1> DEFINE name == ImplicitModules[nr]
           after(m) == IF Lacks(program[m], name)
                       THEN [program[m] EXCEPT !.imports = Append(program[m].imports, ImportAll(name))]
                       ELSE program[m]
<1>1. program' = [m \in Modules |-> after(m)]
    BY DEF AddImplicitImport
<1>2. name \in STRING
    BY ImplicitAssumption DEF IInv, Shape, AddImplicitImport
<1>3. program \in Seq(ModuleShape) /\ Len(program) \in Nat \ {0} /\ Modules = 1..Len(program)
    BY ProgramParts DEF IInv, Shape, Modules
<1>4. \A m \in Modules : after(m) \in ModuleShape /\ after(m).name = program[m].name
    <2> TAKE m \in Modules
    <2>1. program[m] \in ModuleShape
        BY ProgramParts DEF IInv, Shape, Modules
    <2> HIDE DEF name
    <2> QED
        BY <1>2, <2>1, WithImport DEF name
<1> HIDE DEF after
<1>5. /\ Modules' = Modules /\ program' \in Seq(ModuleShape) /\ program' # <<>>
      /\ \A m \in Modules : program'[m].name = program[m].name
    <2>1. program' \in [1..Len(program) -> ModuleShape]
        BY <1>1, <1>3, <1>4
    <2>2. program' \in Seq(ModuleShape)
        BY <1>3, <2>1, SeqDef
    <2>3. DOMAIN program' = Modules
        BY <1>1
    <2> QED
        BY <1>1, <1>3, <1>4, <2>2, <2>3, EmptySeq DEF Modules
<1>6. Shape'
    BY <1>5 DEF IInv, Shape, AddImplicitImport, Stages
<1>7. Tables'
    BY <1>5 DEF IInv, Tables, AddImplicitImport
<1>8. Pending' /\ Verdict'
    BY <1>5 DEF IInv, Pending, Verdict, AddImplicitImport
<1> QED
    BY <1>6, <1>7, <1>8 DEF IInv

LEMMA RegisterItemsStep == IInv /\ RegisterItems => IInv'
<1> SUFFICES ASSUME IInv, RegisterItems
             PROVE  IInv'
    OBVIOUS
<1>1. /\ program' = program /\ Modules' = Modules
      /\ stage = "parsed" /\ stage' \in {"exports", "rejected"}
      /\ UNCHANGED <<exported, imported, importedMembers, at, nr>>
    BY DEF RegisterItems, Gate, Modules
<1>2. Shape'
    BY <1>1 DEF IInv, Shape, Stages
<1>3. ASSUME NEW m \in Modules
      PROVE  /\ \A i \in items'[m] : i.module = m
             /\ VariantsOf(items'[m]) = VariantsOf(members'[m])
    <2>1. items'[m] = ItemsOf(m) /\ members'[m] = MembersOf(m)
        BY <1>3 DEF RegisterItems
    <2>2. VariantsOf(ItemsOf(m)) = VariantsOf(MembersOf(m))
        <3>1. \A d \in DOMAIN program[m].decls : program[m].decls[d].kind \in DeclKinds
            BY <1>3, ProgramParts, ModuleParts DEF IInv, Shape, Modules
        <3>2. \A v : v \in VariantsOf(ItemsOf(m)) <=> v \in VariantsOf(MembersOf(m))
            BY <3>1, VariantItems, VariantMembersOf
        <3> QED
            BY <3>2
    <2> QED
        BY <2>1, <2>2, ItemsOwned
<1>4. ASSUME NEW m \in Modules
      PROVE  exported[m] = [items |-> {}, members |-> {}] /\ imported[m] = {} /\ importedMembers[m] = {}
    BY <1>1, <1>4 DEF IInv, Pending
<1>5. Tables'
    BY <1>1, <1>3, <1>4 DEF Tables, VariantsOf, VariantEntries, VariantMembers
<1>6. Pending'
    BY <1>1, <1>4 DEF Pending
<1>7. Verdict'
    BY DEF RegisterItems, Gate, Verdict
<1> QED
    BY <1>2, <1>5, <1>6, <1>7 DEF IInv

LEMMA ExportModuleStep == IInv /\ ExportModule => IInv'
<1> SUFFICES ASSUME IInv, ExportModule
             PROVE  IInv'
    OBVIOUS
<1> DEFINE list == program[at].exports
           selection == [items |-> SelectedItems(list, items[at]), members |-> SelectedMembers(list, members[at])]
<1>1. /\ program' = program /\ Modules' = Modules
      /\ stage = "exports" /\ stage' \in {"exports", "imports", "rejected"}
      /\ UNCHANGED <<items, members, imported, importedMembers, nr>>
    BY DEF ExportModule, Gate, Modules
<1>2. exported' = [exported EXCEPT ![at] = selection]
    BY DEF ExportModule, Selected
<1>3. /\ at \in Modules
      /\ \A m \in Modules : exported'[m] = IF m = at THEN selection ELSE exported[m]
      /\ exported' = [m \in Modules |-> exported'[m]]
    BY <1>2 DEF IInv, Shape
<1>4. Shape'
    <2>1. at' \in Modules
        BY DEF IInv, Shape, ExportModule, Modules
    <2> QED
        BY <1>1, <1>3, <2>1 DEF IInv, Shape, Stages
<1>5. ASSUME NEW m \in Modules
      PROVE  /\ exported'[m].items \subseteq items[m] /\ exported'[m].members \subseteq members[m]
             /\ VariantsOf(exported'[m].items) = VariantsOf(exported'[m].members)
    <2>1. VariantsOf(items[at]) = VariantsOf(members[at])
        BY <1>3 DEF IInv, Tables
    <2>2. CASE m = at
        BY <1>3, <1>5, <2>1, <2>2, SelectedVariants
    <2>3. CASE m # at
        BY <1>3, <1>5, <2>3 DEF IInv, Tables
    <2> QED
        BY <2>2, <2>3
<1>6. \A m \in Modules : imported[m] = {} /\ importedMembers[m] = {}
    BY <1>1 DEF IInv, Pending
<1>7. Tables'
    BY <1>1, <1>5, <1>6 DEF IInv, Tables, VariantEntries, VariantMembers
<1>8. Pending'
    BY <1>1, <1>6 DEF Pending
<1>9. Verdict'
    BY <1>1 DEF ExportModule, Gate, Verdict
<1> QED
    BY <1>4, <1>7, <1>8, <1>9 DEF IInv

\* A step of the imports replaces the rows of the module at hand, by rows of
\* which each is declared there or exported by its module.
LEMMA ImportsStep ==
    ASSUME IInv, stage \in {"imports", "import"}, stage' \in {"imports", "import"},
           UNCHANGED <<program, items, members, exported, at>>, nr' \in Nat \ {0},
           NEW E, NEW M,
           imported' = [imported EXCEPT ![at] = E], importedMembers' = [importedMembers EXCEPT ![at] = M],
           \A e \in E : IF e.by = 0 THEN e.item.module = at ELSE e.item \in exported[e.item.module].items,
           VariantEntries(E) = VariantMembers(M)
    PROVE  IInv'
<1>1. Modules' = Modules /\ at \in Modules
    BY DEF IInv, Shape, Modules
<1>2. /\ \A m \in Modules : imported'[m] = IF m = at THEN E ELSE imported[m]
      /\ \A m \in Modules : importedMembers'[m] = IF m = at THEN M ELSE importedMembers[m]
      /\ imported' = [m \in Modules |-> imported'[m]]
      /\ importedMembers' = [m \in Modules |-> importedMembers'[m]]
    BY <1>1 DEF IInv, Shape
<1>3. Shape'
    BY <1>1, <1>2 DEF IInv, Shape, Stages
<1>4. ASSUME NEW m \in Modules
      PROVE  /\ \A e \in imported'[m] :
                    IF e.by = 0 THEN e.item.module = m ELSE e.item \in exported[e.item.module].items
             /\ VariantEntries(imported'[m]) = VariantMembers(importedMembers'[m])
    <2>1. CASE m = at
        BY <1>2, <1>4, <2>1
    <2>2. CASE m # at
        BY <1>2, <1>4, <2>2 DEF IInv, Tables
    <2> QED
        BY <2>1, <2>2
<1>5. Tables'
    BY <1>1, <1>4 DEF IInv, Tables
<1>6. Pending' /\ Verdict'
    BY DEF Pending, Verdict
<1> QED
    BY <1>3, <1>5, <1>6 DEF IInv

LEMMA StartImportsStep == IInv /\ StartImports => IInv'
<1> SUFFICES ASSUME IInv, StartImports
             PROVE  IInv'
    OBVIOUS
<1> DEFINE E == Entries(items[at], program[at].name, TRUE, 0)
           M == {[member |-> f, by |-> 0] : f \in members[at]}
<1>1. at \in Modules
    BY DEF IInv, Shape
<1>2. imported' = [imported EXCEPT ![at] = E] /\ importedMembers' = [importedMembers EXCEPT ![at] = M]
    BY DEF StartImports
<1>3. EntriesOf(E, items[at], 0)
    <2> DEFINE own == items[at]
    <2>1. E = {[path |-> <<program[at].name, i.name>>, item |-> i, by |-> 0] : i \in own} \cup
              {[path |-> <<i.name>>, item |-> i, by |-> 0] : i \in own}
        BY DEF Entries
    <2> HIDE DEF E, own
    <2>2. \A e \in E : e.item \in own /\ e.by = 0
        BY <2>1
    <2>3. \A i \in own : [path |-> <<program[at].name, i.name>>, item |-> i, by |-> 0] \in E
        BY <2>1
    <2>4. EntriesOf(E, own, 0)
        BY <2>2, <2>3, EntriesMade
    <2> QED
        BY <2>4 DEF own
<1>4. \A e \in E : IF e.by = 0 THEN e.item.module = at ELSE e.item \in exported[e.item.module].items
    <2>1. \A e \in E : e.item \in items[at] /\ e.by = 0
        BY <1>3 DEF EntriesOf
    <2> QED
        BY <1>1, <2>1 DEF IInv, Tables
<1>5. VariantEntries(E) = VariantMembers(M)
    <2>1. VariantEntries(E) = {<<v, 0>> : v \in VariantsOf(items[at])}
        BY <1>3, EntriesBring
    <2>2. VariantMembers(M) = {<<v, 0>> : v \in VariantsOf(members[at])}
        BY MembersBring
    <2> QED
        BY <1>1, <2>1, <2>2 DEF IInv, Tables
<1>6. /\ stage = "imports" /\ stage' = "import" /\ nr' = 1
      /\ UNCHANGED <<program, items, members, exported, at>>
    BY DEF StartImports
<1>7. nr' \in Nat \ {0} /\ stage \in {"imports", "import"} /\ stage' \in {"imports", "import"}
    BY <1>6
<1> HIDE DEF E, M
<1> QED
    BY <1>2, <1>4, <1>5, <1>6, <1>7, ImportsStep, Zenon

LEMMA ProcessImportStep == IInv /\ ProcessImport => IInv'
<1> SUFFICES ASSUME IInv, ProcessImport
             PROVE  IInv'
    OBVIOUS
<1> DEFINE import == program[at].imports[nr]
<1>1. /\ stage = "import" /\ stage' = "import" /\ nr' = nr + 1 /\ nr \in Nat \ {0} /\ at \in Modules
      /\ UNCHANGED <<program, items, members, exported, at>>
    BY DEF ProcessImport, IInv, Shape
<1>2. nr' \in Nat \ {0}
    BY <1>1
<1>3. CASE UNCHANGED <<imported, importedMembers>>
    <2>1. /\ imported' = [imported EXCEPT ![at] = imported[at]]
          /\ importedMembers' = [importedMembers EXCEPT ![at] = importedMembers[at]]
        BY <1>1, <1>3 DEF IInv, Shape
    <2>2. /\ \A e \in imported[at] : IF e.by = 0 THEN e.item.module = at ELSE e.item \in exported[e.item.module].items
          /\ VariantEntries(imported[at]) = VariantMembers(importedMembers[at])
        BY <1>1 DEF IInv, Tables
    <2> QED
        BY <1>1, <1>2, <2>1, <2>2, ImportsStep
<1>4. ASSUME NEW source \in Modules, ImportList(import, source)
      PROVE  IInv'
    <2> DEFINE chosen == Selected(import.list, exported[source])
               visible(entries) == {e \in entries : ~Hidden(e.name, import.from)}
               brought == Entries(visible(chosen.items), IF import.as = None THEN import.from ELSE import.as,
                                  import.as = None, nr)
               shownMembers == {[member |-> f, by |-> nr] : f \in visible(chosen.members)}
               E == imported[at] \cup brought
               M == importedMembers[at] \cup shownMembers
    <2>1. imported' = [imported EXCEPT ![at] = E] /\ importedMembers' = [importedMembers EXCEPT ![at] = M]
        BY <1>4 DEF ImportList
    <2>2. /\ VariantsOf(chosen.items) = VariantsOf(chosen.members)
          /\ chosen.items \subseteq exported[source].items
        <3>1. VariantsOf(exported[source].items) = VariantsOf(exported[source].members)
            BY <1>4 DEF IInv, Tables
        <3> QED
            BY <3>1, SelectedVariants DEF Selected
    <2>3. VariantsOf(visible(chosen.items)) = VariantsOf(visible(chosen.members))
        BY <2>2 DEF VariantsOf
    <2>4. EntriesOf(brought, visible(chosen.items), nr)
        <3> DEFINE shown == visible(chosen.items)
                   plain == IF import.as = None THEN shown ELSE {}
                   namespace == IF import.as = None THEN import.from ELSE import.as
        <3>1. brought =
                {[path |-> <<namespace, i.name>>, item |-> i, by |-> nr] : i \in shown} \cup
                {[path |-> <<i.name>>, item |-> i, by |-> nr] : i \in plain}
            BY DEF Entries
        <3>2. plain \subseteq shown
            OBVIOUS
        <3> HIDE DEF brought, shown, plain, namespace
        <3>3. \A e \in brought : e.item \in shown /\ e.by = nr
            BY <3>1, <3>2
        <3>4. \A i \in shown : [path |-> <<namespace, i.name>>, item |-> i, by |-> nr] \in brought
            BY <3>1
        <3>5. EntriesOf(brought, shown, nr)
            BY <3>3, <3>4, EntriesMade
        <3> QED
            BY <3>5 DEF shown
    <2>5. \A e \in brought : e.by = nr /\ e.item \in exported[source].items
        BY <2>2, <2>4 DEF EntriesOf
    <2>6. \A i \in exported[source].items : i.module = source
        BY <1>4 DEF IInv, Tables
    <2>7. \A e \in E : IF e.by = 0 THEN e.item.module = at ELSE e.item \in exported[e.item.module].items
        <3>1. \A e \in imported[at] :
                IF e.by = 0 THEN e.item.module = at ELSE e.item \in exported[e.item.module].items
            BY <1>1 DEF IInv, Tables
        <3>2. \A e \in brought : e.by # 0 /\ e.item \in exported[e.item.module].items
            BY <1>1, <2>5, <2>6
        <3> HIDE DEF brought
        <3> QED
            BY <3>1, <3>2
    <2>8. VariantEntries(E) = VariantMembers(M)
        <3>1. VariantEntries(imported[at]) = VariantMembers(importedMembers[at])
            BY <1>1 DEF IInv, Tables
        <3>2. VariantEntries(brought) = {<<v, nr>> : v \in VariantsOf(visible(chosen.items))}
            <4> DEFINE shown == visible(chosen.items)
            <4>1. EntriesOf(brought, shown, nr)
                BY <2>4
            <4> HIDE DEF brought, shown
            <4>2. VariantEntries(brought) = {<<v, nr>> : v \in VariantsOf(shown)}
                BY <4>1, EntriesBring
            <4> QED
                BY <4>2 DEF shown
        <3>3. VariantMembers(shownMembers) = {<<v, nr>> : v \in VariantsOf(visible(chosen.members))}
            BY MembersBring
        <3>4. VariantEntries(brought) = VariantMembers(shownMembers)
            BY <2>3, <3>2, <3>3
        <3> HIDE DEF brought, shownMembers
        <3>5. VariantEntries(E) = VariantEntries(imported[at]) \cup VariantEntries(brought)
            BY EntriesJoin
        <3>6. VariantMembers(M) = VariantMembers(importedMembers[at]) \cup VariantMembers(shownMembers)
            BY EntriesJoin
        <3> QED
            BY <3>1, <3>4, <3>5, <3>6
    <2> HIDE DEF E, M
    <2> QED
        BY <1>1, <1>2, <2>1, <2>7, <2>8, ImportsStep
<1>5. ModulesNamed(import.from) \subseteq Modules
    BY DEF ModulesNamed
<1> QED
    BY <1>3, <1>4, <1>5 DEF ProcessImport

LEMMA EndImportsStep == IInv /\ EndImports => IInv'
<1> SUFFICES ASSUME IInv, EndImports
             PROVE  IInv'
    OBVIOUS
<1>1. /\ stage = "import" /\ stage' \in {"imports", "resolved", "rejected"}
      /\ Modules' = Modules
      /\ UNCHANGED <<program, items, members, exported, imported, importedMembers, nr>>
    BY DEF EndImports, Gate, Modules
<1>2. Shape'
    <2>1. at' \in Modules
        BY DEF IInv, Shape, EndImports, Modules
    <2> QED
        BY <1>1, <2>1 DEF IInv, Shape, Stages
<1>3. Tables'
    BY <1>1 DEF IInv, Tables
<1>4. Pending'
    BY <1>1 DEF Pending
<1>5. Verdict'
    BY <1>1 DEF EndImports, Gate, Verdict
<1> QED
    BY <1>2, <1>3, <1>4, <1>5 DEF IInv

LEMMA NextIInv == IInv /\ [Next]_vars => IInv'
<1> SUFFICES ASSUME IInv, [Next]_vars
             PROVE  IInv'
    OBVIOUS
<1>1. CASE AddImplicitImport
    BY <1>1, AddImplicitImportStep
<1>2. CASE RegisterItems
    BY <1>2, RegisterItemsStep
<1>3. CASE ExportModule
    BY <1>3, ExportModuleStep
<1>4. CASE StartImports
    BY <1>4, StartImportsStep
<1>5. CASE ProcessImport
    BY <1>5, ProcessImportStep
<1>6. CASE EndImports
    BY <1>6, EndImportsStep
<1>7. CASE Terminated \/ UNCHANGED vars
    <2>1. UNCHANGED vars
        BY <1>7 DEF Terminated
    <2>2. Shape'
        BY <2>1 DEF vars, IInv, Shape, Modules
    <2>3. Tables'
        BY <2>1 DEF vars, IInv, Tables, Modules
    <2>4. Pending' /\ Verdict'
        BY <2>1 DEF vars, IInv, Pending, Verdict, Modules
    <2> QED
        BY <2>2, <2>3, <2>4 DEF IInv
<1> QED
    BY <1>1, <1>2, <1>3, <1>4, <1>5, <1>6, <1>7 DEF Next

-----------------------------------------------------------------------------

LEMMA Invariance == Spec => []IInv
<1> QED
    BY InitIInv, NextIInv, PTL DEF Spec

\* Whatever the modules, what a module exports it declares, what it imports is
\* exported by the module that declares it, and a program is resolved iff no
\* stage of Resolver::resolve reported an error.
THEOREM TypeCorrect == Spec => []TypeOK
<1>1. IInv => TypeOK
    BY DEF IInv, Shape, Tables, Verdict, Stages, TypeOK
<1> QED
    BY <1>1, Invariance, PTL

\* Whatever the modules and their lists, process_exports and process_imports
\* bring a variant as an item iff they bring it as a member of its type.
THEOREM VariantsTogether == Spec => []VariantsAgree
<1>1. IInv => VariantsAgree
    BY DEF IInv, Tables, VariantsAgree, VariantEntries, VariantMembers
<1> QED
    BY <1>1, Invariance, PTL
-----------------------------------------------------------------------------
(* Lookups.  A name is ambiguous by the number of its entries, which are   *)
(* finitely many.                                                          *)

\* The entries of the items shown, by a name in a namespace and, some, by their name.
EntriesFor(entries, shown, plain, namespace, by) ==
    entries = {[path |-> <<namespace, i.name>>, item |-> i, by |-> by] : i \in shown} \cup
              {[path |-> <<i.name>>, item |-> i, by |-> by] : i \in plain}

LEMMA ImageFinite ==
    ASSUME NEW S, IsFiniteSet(S), NEW f, f = [x \in S |-> f[x]]
    PROVE  IsFiniteSet({f[x] : x \in S})
<1> DEFINE T == {f[x] : x \in S}
<1>1. f \in [S -> T] /\ \A t \in T : \E x \in S : f[x] = t
    OBVIOUS
<1>2. f \in Surjection(S, T)
    BY <1>1 DEF Surjection
<1> HIDE DEF T
<1> QED
    BY <1>2, FS_Surjection DEF T

LEMMA SeqFinite ==
    ASSUME NEW S, NEW s \in Seq(S)
    PROVE  IsFiniteSet(DOMAIN s)
BY LenProperties, FS_Interval

LEMMA ItemsFinite ==
    ASSUME NEW m, program[m] \in ModuleShape
    PROVE  IsFiniteSet(ItemsOf(m))
<1> DEFINE decls == program[m].decls
           Decls == [kind : DeclKinds, name : STRING, parts : Seq(STRING)]
           parted == {d \in DOMAIN decls : decls[d].kind \in DOMAIN PartKinds}
           first(d) == Item(decls[d].kind, m, decls[d].name, None, <<d, 0>>)
           part(d, p) == Item(PartKinds[decls[d].kind], m, decls[d].parts[p], decls[d].name, <<d, p>>)
           whole == {first(d) : d \in DOMAIN decls}
           partsOf(d) == {part(d, p) : p \in DOMAIN decls[d].parts}
<1>1. ItemsOf(m) = whole \cup UNION {partsOf(d) : d \in parted}
    BY DEF ItemsOf
<1>2. decls \in Seq(Decls)
    BY DEF ModuleShape
<1>3. IsFiniteSet(DOMAIN decls) /\ \A d \in DOMAIN decls : decls[d].parts \in Seq(STRING)
    <2>1. \A d \in DOMAIN decls : decls[d] \in Decls
        <3> HIDE DEF Decls
        <3> QED
            BY <1>2, ElementOfSeq, LenProperties
    <2>2. IsFiniteSet(DOMAIN decls)
        <3> HIDE DEF Decls
        <3> QED
            BY <1>2, SeqFinite
    <2> QED
        BY <2>1, <2>2
<1> HIDE DEF decls
<1>4. IsFiniteSet(whole)
    <2> DEFINE f == [d \in DOMAIN decls |-> first(d)]
    <2>1. f = [d \in DOMAIN decls |-> f[d]] /\ whole = {f[d] : d \in DOMAIN decls}
        OBVIOUS
    <2> HIDE DEF f, whole
    <2> QED
        BY <1>3, <2>1, ImageFinite
<1>5. ASSUME NEW d \in parted
      PROVE  IsFiniteSet(partsOf(d))
    <2> DEFINE S == DOMAIN decls[d].parts
               f == [p \in S |-> part(d, p)]
    <2>1. f = [p \in S |-> f[p]] /\ partsOf(d) = {f[p] : p \in S}
        OBVIOUS
    <2>2. IsFiniteSet(S)
        BY <1>3, <1>5, SeqFinite
    <2> HIDE DEF f, S, partsOf
    <2> QED
        BY <2>1, <2>2, ImageFinite
<1>6. IsFiniteSet(UNION {partsOf(d) : d \in parted})
    <2> HIDE DEF partsOf
    <2> DEFINE f == [d \in parted |-> partsOf(d)]
               sets == {partsOf(d) : d \in parted}
    <2>1. f = [d \in parted |-> f[d]] /\ sets = {f[d] : d \in parted}
        OBVIOUS
    <2>2. IsFiniteSet(parted)
        BY <1>3, FS_Subset
    <2>3. \A T \in sets : IsFiniteSet(T)
        BY <1>5
    <2> HIDE DEF f, parted, sets
    <2>4. IsFiniteSet(sets)
        BY <2>1, <2>2, ImageFinite
    <2>5. IsFiniteSet(UNION sets)
        BY <2>3, <2>4, FS_UNION
    <2> QED
        BY <2>5 DEF sets
<1> HIDE DEF whole, partsOf, parted
<1> QED
    BY <1>1, <1>4, <1>6, FS_Union

LEMMA EntriesFinite ==
    ASSUME NEW entries, NEW shown, NEW plain, NEW namespace, NEW by,
           EntriesFor(entries, shown, plain, namespace, by), IsFiniteSet(shown), IsFiniteSet(plain)
    PROVE  IsFiniteSet(entries)
<1> DEFINE f == [i \in shown |-> [path |-> <<namespace, i.name>>, item |-> i, by |-> by]]
           g == [i \in plain |-> [path |-> <<i.name>>, item |-> i, by |-> by]]
           A == {[path |-> <<namespace, i.name>>, item |-> i, by |-> by] : i \in shown}
           B == {[path |-> <<i.name>>, item |-> i, by |-> by] : i \in plain}
<1>1. f = [i \in shown |-> f[i]] /\ A = {f[i] : i \in shown}
    OBVIOUS
<1>2. g = [i \in plain |-> g[i]] /\ B = {g[i] : i \in plain}
    OBVIOUS
<1>3. entries = A \cup B
    BY DEF EntriesFor
<1> HIDE DEF f, g, A, B
<1>4. IsFiniteSet(A) /\ IsFiniteSet(B)
    BY <1>1, <1>2, ImageFinite
<1> QED
    BY <1>3, <1>4, FS_Union

\* What is declared and imported is finite.
Finite == \A m \in Modules : IsFiniteSet(items[m]) /\ IsFiniteSet(imported[m])

LEMMA ImportFinite ==
    ASSUME IInv, Finite, ProcessImport
    PROVE  IsFiniteSet(imported'[at]) /\ \A m \in Modules \ {at} : imported'[m] = imported[m]
<1> DEFINE import == program[at].imports[nr]
<1>1. at \in Modules /\ IsFiniteSet(imported[at])
    BY DEF IInv, Shape, Finite
<1>2. CASE UNCHANGED imported
    BY <1>1, <1>2
<1>3. ASSUME NEW source \in Modules, ImportList(import, source)
      PROVE  IsFiniteSet(imported'[at]) /\ \A m \in Modules \ {at} : imported'[m] = imported[m]
    <2> DEFINE chosen == SelectedItems(import.list, exported[source].items)
               shown == {e \in chosen : ~Hidden(e.name, import.from)}
               plain == IF import.as = None THEN shown ELSE {}
               namespace == IF import.as = None THEN import.from ELSE import.as
               brought == Entries(shown, namespace, import.as = None, nr)
    <2>1. imported' = [imported EXCEPT ![at] = imported[at] \cup brought]
        BY <1>3 DEF ImportList, Selected
    <2>2. EntriesFor(brought, shown, plain, namespace, nr)
        BY DEF Entries, EntriesFor
    <2>3. IsFiniteSet(items[source]) /\ exported[source].items \subseteq items[source]
        BY <1>3 DEF IInv, Tables, Finite
    <2>4. chosen \subseteq exported[source].items
        BY DEF SelectedItems
    <2>5. IsFiniteSet(shown) /\ IsFiniteSet(plain)
        <3>1. shown \subseteq items[source] /\ plain \subseteq items[source]
            BY <2>3, <2>4
        <3> HIDE DEF shown, plain
        <3> QED
            BY <2>3, <3>1, FS_Subset
    <2> HIDE DEF brought, shown, plain, namespace
    <2>6. IsFiniteSet(brought)
        BY <2>2, <2>5, EntriesFinite
    <2>7. IsFiniteSet(imported[at] \cup brought)
        BY <1>1, <2>6, FS_Union
    <2> QED
        BY <1>1, <2>1, <2>7 DEF IInv, Shape
<1>4. ModulesNamed(import.from) \subseteq Modules
    BY DEF ModulesNamed
<1> QED
    BY <1>2, <1>3, <1>4 DEF ProcessImport

LEMMA NextFinite == IInv /\ Finite /\ [Next]_vars => Finite'
<1> SUFFICES ASSUME IInv, Finite, [Next]_vars
             PROVE  Finite'
    OBVIOUS
<1>1. CASE AddImplicitImport
    BY <1>1 DEF AddImplicitImport, Finite, Modules
<1>2. CASE RegisterItems
    <2>1. \A m \in Modules : program[m] \in ModuleShape
        BY ProgramParts DEF IInv, Shape, Modules
    <2>2. /\ program' = program /\ imported' = imported
          /\ items' = [m \in Modules |-> ItemsOf(m)]
        BY <1>2 DEF RegisterItems
    <2>3. \A m \in Modules : IsFiniteSet(items'[m]) /\ IsFiniteSet(imported'[m])
        BY <2>1, <2>2, ItemsFinite DEF Finite
    <2> QED
        BY <2>2, <2>3 DEF Finite, Modules
<1>3. CASE ExportModule
    BY <1>3 DEF ExportModule, Finite, Modules
<1>4. CASE StartImports
    <2> DEFINE own == items[at]
               name == program[at].name
               E == Entries(own, name, TRUE, 0)
    <2>1. at \in Modules /\ IsFiniteSet(own)
        BY DEF IInv, Shape, Finite
    <2>2. EntriesFor(E, own, own, name, 0)
        BY DEF Entries, EntriesFor
    <2>3. program' = program /\ items' = items /\ imported' = [imported EXCEPT ![at] = E]
        BY <1>4 DEF StartImports
    <2> HIDE DEF E, own, name
    <2>4. IsFiniteSet(E)
        BY <2>1, <2>2, EntriesFinite
    <2>5. \A m \in Modules : IsFiniteSet(items'[m]) /\ IsFiniteSet(imported'[m])
        BY <2>1, <2>3, <2>4 DEF IInv, Shape, Finite
    <2> QED
        BY <2>3, <2>5 DEF Finite, Modules
<1>5. CASE ProcessImport
    <2>1. program' = program /\ items' = items
        BY <1>5 DEF ProcessImport
    <2>2. \A m \in Modules : IsFiniteSet(items'[m]) /\ IsFiniteSet(imported'[m])
        BY <1>5, <2>1, ImportFinite DEF Finite
    <2> QED
        BY <2>1, <2>2 DEF Finite, Modules
<1>6. CASE EndImports
    BY <1>6 DEF EndImports, Finite, Modules
<1>7. CASE Terminated \/ UNCHANGED vars
    BY <1>7 DEF Terminated, vars, Finite, Modules
<1> QED
    BY <1>1, <1>2, <1>3, <1>4, <1>5, <1>6, <1>7 DEF Next

\* The entries of a path that is not ambiguous: one, or a type and a variant.
LEMMA NotAmbiguous ==
    ASSUME NEW entries, IsFiniteSet(entries), ~Ambiguous(entries)
    PROVE  \/ entries = {}
           \/ Cardinality(entries) = 1 /\ \E e : entries = {e}
           \/ Cardinality(entries) # 1 /\ \A e \in entries : e.item.kind \in {"adt", "variant"}
<1>1. Cardinality(entries) \in Nat
    BY FS_CardinalityType
<1>2. CASE Cardinality(entries) = 0
    BY <1>2, FS_EmptySet
<1>3. CASE Cardinality(entries) = 1
    BY <1>3, FS_Singleton
<1>4. CASE Cardinality(entries) > 1
    <2> DEFINE kinds == Kinds({e.item : e \in entries})
    <2>1. kinds = {"adt", "variant"}
        BY <1>4 DEF Ambiguous
    <2>2. \A e \in entries : e.item.kind \in kinds
        BY DEF Kinds
    <2>3. Cardinality(entries) # 1
        BY <1>1, <1>4
    <2> HIDE DEF kinds
    <2> QED
        BY <2>1, <2>2, <2>3
<1> QED
    BY <1>1, <1>2, <1>3, <1>4

\* The items of some kinds that a path stands for in a module.
ItemsOfKinds(m, path, kinds) == {e.item : e \in {e \in Found(m, path) : e.item.kind \in kinds}}

\* A lookup that finds something finds all there is of the kinds asked for and of
\* the kinds that may not stand beside them.
LEMMA LookupFinds ==
    ASSUME NEW m, IsFiniteSet(imported[m]), NEW path, NEW preferred, NEW kinds, NEW others,
           Lookup(m, path, preferred, kinds) # {}, kinds \subseteq others,
           \/ others \cap {"adt", "variant"} \subseteq {preferred}
           \/ kinds \cap {"adt", "variant"} = {}
    PROVE  ItemsOfKinds(m, path, others) = Lookup(m, path, preferred, kinds)
<1> DEFINE entries == Found(m, path)
           candidates == IF Cardinality(entries) = 1 THEN entries
                         ELSE {e \in entries : e.item.kind = preferred}
<1>1. IsFiniteSet(entries)
    BY FS_Subset DEF Found
<1>2. ~Ambiguous(entries)
    BY DEF Lookup
<1>3. Lookup(m, path, preferred, kinds) = {e.item : e \in {e \in candidates : e.item.kind \in kinds}}
    BY <1>2 DEF Lookup
<1> HIDE DEF entries
<1>4. PICK c \in candidates : c.item.kind \in kinds
    BY <1>3
<1>5. CASE Cardinality(entries) = 1 /\ \E e : entries = {e}
    <2>1. entries = {c} /\ candidates = {c}
        BY <1>4, <1>5
    <2>2. {e \in entries : e.item.kind \in others} = {c} /\ {e \in candidates : e.item.kind \in kinds} = {c}
        BY <1>4, <2>1
    <2> QED
        BY <1>3, <2>2 DEF entries, ItemsOfKinds
<1>6. CASE Cardinality(entries) # 1 /\ \A e \in entries : e.item.kind \in {"adt", "variant"}
    <2>1. candidates = {e \in entries : e.item.kind = preferred}
        BY <1>6
    <2>2. preferred \in kinds /\ others \cap {"adt", "variant"} \subseteq {preferred}
        BY <1>4, <1>6, <2>1
    <2>3. {e \in entries : e.item.kind \in others} = {e \in candidates : e.item.kind \in kinds}
        BY <1>6, <2>1, <2>2
    <2> QED
        BY <1>3, <2>3 DEF entries, ItemsOfKinds
<1>7. entries # {}
    BY <1>4
<1> QED
    BY <1>1, <1>2, <1>5, <1>6, <1>7, NotAmbiguous

\* Whatever the modules, a type, a value or a class that process_named_type,
\* resolve_item_path or lookup_class find under a path is the only one that is visible
\* under it: check_ambiguity leaves no other.
THEOREM LookupsHaveOneMeaning == Spec => []LookupsSound
<1>1. Init => Finite
    BY FS_EmptySet DEF Init, Finite, Modules
<1>2. IInv /\ Finite => LookupsSound
    <2> SUFFICES ASSUME Finite, NEW m \in Modules, NEW path
                 PROVE  /\ LookupType(m, path) # {} =>
                                ItemsOfKinds(m, path, TypeKinds \cup {"class"}) = LookupType(m, path)
                        /\ LookupValue(m, path) # {} => ItemsOfKinds(m, path, ValueKinds) = LookupValue(m, path)
                        /\ LookupClass(m, path) # {} =>
                                ItemsOfKinds(m, path, TypeKinds \cup {"class"}) = LookupClass(m, path)
        BY DEF LookupsSound, ItemsOfKinds
    <2>1. IsFiniteSet(imported[m])
        BY DEF Finite
    <2> DEFINE both == TypeKinds \cup {"class"}
               classes == {"class"}
    <2>2. /\ TypeKinds \subseteq both /\ both \cap {"adt", "variant"} \subseteq {"adt"}
          /\ ValueKinds \cap {"adt", "variant"} \subseteq {"variant"}
          /\ classes \subseteq both /\ classes \cap {"adt", "variant"} = {}
        BY DEF TypeKinds, ValueKinds
    <2> HIDE DEF both, classes
    <2>3. Lookup(m, path, "adt", TypeKinds) # {} =>
              ItemsOfKinds(m, path, both) = Lookup(m, path, "adt", TypeKinds)
        BY <2>1, <2>2, LookupFinds
    <2>4. Lookup(m, path, "variant", ValueKinds) # {} =>
              ItemsOfKinds(m, path, ValueKinds) = Lookup(m, path, "variant", ValueKinds)
        BY <2>1, <2>2, LookupFinds
    <2>5. Lookup(m, path, None, classes) # {} =>
              ItemsOfKinds(m, path, both) = Lookup(m, path, None, classes)
        BY <2>1, <2>2, LookupFinds
    <2> QED
        BY <2>3, <2>4, <2>5 DEF LookupType, LookupValue, LookupClass, both, classes
<1>3. IInv /\ Finite /\ [Next]_vars => Finite'
    BY NextFinite
<1> QED
    BY <1>1, <1>2, <1>3, InitIInv, NextIInv, PTL DEF Spec
-----------------------------------------------------------------------------
(* What the lists of the program mean. *)

\* What a module declares, as a list of it selects from.
Declared(m) == [items |-> ItemsOf(m), members |-> MembersOf(m)]
FieldsAmong(parts) == {f \in parts : f.kind = "field"}

\* The tables of declarations and of exports are those the declarations mean.
DeclaredExact ==
    stage \in {"exports", "imports", "import", "resolved"} =>
        \A m \in Modules : items[m] = ItemsOf(m) /\ members[m] = MembersOf(m)

IsExported(m) == stage \in {"imports", "import", "resolved"} \/ (stage = "exports" /\ m < at)

ExportedExact ==
    \A m \in Modules : IsExported(m) =>
        /\ exported[m].items = Exports(m)
        /\ FieldsAmong(exported[m].members) = FieldsIn(program[m].exports, m)

\* The modules whose imports are all processed, and the imports processed so far.
IsDone(m) == stage = "resolved" \/ (stage \in {"imports", "import"} /\ m < at)
IsStarted(m) == IsDone(m) \/ (stage = "import" /\ m = at)
Processed(m) == {i \in DOMAIN program[m].imports : IsDone(m) \/ i < nr}

Triples(entries) == {<<e.path, e.item, e.by>> : e \in entries}
FieldEntries(entries) == {<<f.member, f.by>> : f \in {f \in entries : f.member.kind = "field"}}

VisibleSoFar(m) == OwnPaths(m) \cup UNION {BroughtBy(m, i) : i \in Processed(m)}
FieldsSoFar(m) == OwnFields(m) \cup UNION {FieldsBroughtBy(m, i) : i \in Processed(m)}

\* What a module has imported is what its imports that are processed bring.
ImportedExact ==
    \A m \in Modules : IsStarted(m) =>
        /\ Triples(imported[m]) = VisibleSoFar(m)
        /\ FieldEntries(importedMembers[m]) = FieldsSoFar(m)

\* The hide patterns that are marked are the first of their name, of what an import
\* that is processed brings.
SourceOf(p) == program[at].imports[p[1]].from
IsFirst(p) == \A q \in HidesOf(NameOf(p), SourceOf(p)) : ~Earlier(q, p)
Used(p, i) == program[at].imports[i].from = SourceOf(p) /\ NameOf(p) \in Names(at, i)

MatchedExact ==
    stage = "import" => matched = {p \in HidePatterns : IsFirst(p) /\ \E i \in Processed(at) : Used(p, i)}

\* What is reported is what was found so far.
ReportedExact ==
    /\ stage = "parsed" => errors = {} /\ at = 1
    /\ stage \in {"exports", "imports", "import", "resolved"} => \A m \in Modules : ~Doubled(m)
    /\ stage = "exports" => (errors # {} <=> \E m \in Modules : m < at /\ ExportReason(m))
    /\ stage \in {"imports", "import", "resolved"} => \A m \in Modules : ~ExportReason(m)
    /\ stage = "imports" => (errors # {} <=> \E m \in Modules : m < at /\ ImportReason(m))
    /\ stage = "import" =>
        (errors # {} <=> \/ \E m \in Modules : m < at /\ ImportReason(m)
                         \/ NotFound(at)
                         \/ \E i \in Processed(at) : ListReason(at, i))
    /\ stage = "resolved" => \A m \in Modules : ~ImportReason(m)
    /\ stage = "rejected" => Reasons

-----------------------------------------------------------------------------
(* Declarations.                                                           *)

\* The declarations of a module are of the kinds there are.
LEMMA DeclKindsOf ==
    ASSUME Shape, NEW m \in Modules
    PROVE  /\ program[m] \in ModuleShape
           /\ \A d \in DOMAIN program[m].decls : program[m].decls[d].kind \in DeclKinds
BY ProgramParts, ModuleParts DEF Shape, Modules

LEMMA ImportParts ==
    ASSUME Shape, NEW m \in Modules, NEW i \in DOMAIN program[m].imports
    PROVE  program[m].imports[i] \in ImportShape /\ program[m].imports[i].list \in ListShape
<1>1. program[m].imports \in Seq(ImportShape)
    BY DeclKindsOf, ModuleParts
<1>2. program[m].imports[i] \in ImportShape
    BY <1>1, ElementOfSeq, LenProperties
<1> QED
    BY <1>2 DEF ImportShape

\* A member of a class comes with its class.
LEMMA ItemFacts ==
    ASSUME Shape, NEW m \in Modules, NEW i \in ItemsOf(m)
    PROVE  /\ i.module = m
           /\ i.kind \in DeclKinds \cup {"variant", "classmember"}
           /\ i.kind = "classmember" => \E c \in ItemsOf(m) : c.kind = "class" /\ c.name = i.owner
<1> DEFINE decls == program[m].decls
           parted == {d \in DOMAIN decls : decls[d].kind \in DOMAIN PartKinds}
           whole == {Item(decls[d].kind, m, decls[d].name, None, <<d, 0>>) : d \in DOMAIN decls}
           partsOf(d) == {Item(PartKinds[decls[d].kind], m, decls[d].parts[p], decls[d].name, <<d, p>>) :
                            p \in DOMAIN decls[d].parts}
<1>1. ItemsOf(m) = whole \cup UNION {partsOf(d) : d \in parted}
    BY DEF ItemsOf
<1>2. /\ DOMAIN PartKinds = {"adt", "class"}
      /\ PartKinds["adt"] = "variant" /\ PartKinds["class"] = "classmember"
    BY DEF PartKinds
<1>3. \A kind, name, owner, id :
        LET it == Item(kind, m, name, owner, id)
        IN  it.kind = kind /\ it.module = m /\ it.name = name /\ it.owner = owner
    BY DEF Item
<1>4. CASE i \in whole
    <2>1. PICK d \in DOMAIN decls : i = Item(decls[d].kind, m, decls[d].name, None, <<d, 0>>)
        BY <1>4
    <2>2. i.kind = decls[d].kind /\ i.module = m
        BY <1>3, <2>1
    <2> QED
        BY <2>2, DeclKindsOf DEF DeclKinds
<1>5. CASE \E d \in parted : i \in partsOf(d)
    <2>1. PICK d \in parted : i \in partsOf(d)
        BY <1>5
    <2>2. PICK p \in DOMAIN decls[d].parts :
            i = Item(PartKinds[decls[d].kind], m, decls[d].parts[p], decls[d].name, <<d, p>>)
        BY <2>1
    <2>3. i.kind = PartKinds[decls[d].kind] /\ i.module = m /\ i.owner = decls[d].name
        BY <1>3, <2>2
    <2>4. i.kind \in {"variant", "classmember"}
        BY <1>2, <2>3
    <2>5. ASSUME i.kind = "classmember"
          PROVE  \E c \in ItemsOf(m) : c.kind = "class" /\ c.name = i.owner
        <3> DEFINE c == Item(decls[d].kind, m, decls[d].name, None, <<d, 0>>)
        <3>1. decls[d].kind = "class"
            BY <1>2, <2>3, <2>5
        <3>2. c \in whole
            OBVIOUS
        <3>3. c.kind = "class" /\ c.name = i.owner
            BY <1>3, <2>3, <3>1
        <3> QED
            BY <1>1, <3>2, <3>3
    <2> QED
        BY <2>3, <2>4, <2>5
<1> QED
    BY <1>1, <1>4, <1>5

LEMMA MemberFacts ==
    ASSUME Shape, NEW m \in Modules, NEW f \in MembersOf(m)
    PROVE  f.module = m /\ f.kind \in {"field", "variant"}
<1> DEFINE decls == program[m].decls
           parted == {d \in DOMAIN decls : decls[d].kind \in DOMAIN MemberKinds}
           partsOf(d) == {Item(MemberKinds[decls[d].kind], m, decls[d].parts[p], decls[d].name, <<d, p>>) :
                            p \in DOMAIN decls[d].parts}
<1>1. MembersOf(m) = UNION {partsOf(d) : d \in parted}
    BY DEF MembersOf
<1>2. /\ DOMAIN MemberKinds = {"record", "adt"}
      /\ MemberKinds["adt"] = "variant" /\ MemberKinds["record"] = "field"
    BY DEF MemberKinds
<1>3. PICK d \in parted : f \in partsOf(d)
    BY <1>1
<1>4. PICK p \in DOMAIN decls[d].parts :
        f = Item(MemberKinds[decls[d].kind], m, decls[d].parts[p], decls[d].name, <<d, p>>)
    BY <1>3
<1>5. f.kind = MemberKinds[decls[d].kind] /\ f.module = m
    BY <1>4 DEF Item
<1> QED
    BY <1>2, <1>5

-----------------------------------------------------------------------------
(* Lists.                                                                  *)

\* The entries of a list.  An entry without a group names no members.
LEMMA ListEntries ==
    ASSUME NEW list \in ListShape
    PROVE  /\ \A e : e \in Range(list.items) <=> \E k \in DOMAIN list.items : e = list.items[k]
           /\ \A e \in Range(list.items) : e \in EntryShape
<1>1. \A e : e \in Range(list.items) <=> \E k \in DOMAIN list.items : e = list.items[k]
    BY DEF Range
<1>2. list.items \in Seq(EntryShape)
    BY DEF ListShape
<1>3. \A k \in DOMAIN list.items : list.items[k] \in EntryShape
    BY <1>2, ElementOfSeq, LenProperties
<1> QED
    BY <1>1, <1>3

LEMMA EntryParts ==
    ASSUME NEW e \in EntryShape
    PROVE  /\ e.group \in BOOLEAN
           /\ ~e.group => e.members = <<>>
           /\ ~e.group => Range(e.members) = {}
           /\ e.members \in Seq(STRING)
<1>1. CASE e \in [name : STRING, group : {FALSE}, members : {<<>>}]
    <2>1. e.members = <<>> /\ e.group = FALSE
        BY <1>1
    <2>2. Range(e.members) = {}
        BY <2>1, EmptySeq DEF Range
    <2> QED
        BY <2>1, <2>2, EmptySeq
<1>2. CASE e \in [name : STRING, group : {TRUE}, members : Seq(STRING)]
    BY <1>2
<1> QED
    BY <1>1, <1>2 DEF EntryShape

\* The entries that name the member name, or all members, of owner.
NamesMember(e, owner, names) == e.name = owner /\ names \cap Range(e.members) # {}

LEMMA PatternsNamed ==
    ASSUME NEW list, NEW owner, NEW names
    PROVE  (\E p \in MemberPatterns(list) : p.group = owner /\ p.name \in names)
           <=> \E e \in Range(list.items) : NamesMember(e, owner, names)
<1>1. ASSUME NEW p \in MemberPatterns(list), p.group = owner, p.name \in names
      PROVE  \E e \in Range(list.items) : NamesMember(e, owner, names)
    <2>1. PICK i \in DOMAIN list.items :
            p \in {[group |-> list.items[i].name, name |-> list.items[i].members[j]] :
                    j \in DOMAIN list.items[i].members}
        BY <1>1 DEF MemberPatterns
    <2>2. PICK j \in DOMAIN list.items[i].members :
            p = [group |-> list.items[i].name, name |-> list.items[i].members[j]]
        BY <2>1
    <2>3. list.items[i] \in Range(list.items) /\ p.name \in Range(list.items[i].members)
        BY <2>2 DEF Range
    <2> QED
        BY <1>1, <2>2, <2>3 DEF NamesMember
<1>2. ASSUME NEW e \in Range(list.items), NamesMember(e, owner, names)
      PROVE  \E p \in MemberPatterns(list) : p.group = owner /\ p.name \in names
    <2>1. PICK i \in DOMAIN list.items : e = list.items[i]
        BY <1>2 DEF Range
    <2>2. PICK j \in DOMAIN e.members : e.members[j] \in names
        BY <1>2 DEF NamesMember, Range
    <2> DEFINE p == [group |-> list.items[i].name, name |-> list.items[i].members[j]]
    <2>3. p \in MemberPatterns(list)
        BY <2>1, <2>2 DEF MemberPatterns
    <2>4. p.group = owner /\ p.name \in names
        BY <1>2, <2>1, <2>2 DEF NamesMember
    <2> QED
        BY <2>3, <2>4
<1> QED
    BY <1>1, <1>2

\* A set of items of a module that has, with a member of a class, its class.
ClassClosed(parts) ==
    \A i \in parts : i.kind = "classmember" => \E c \in parts : c.kind = "class" /\ c.name = i.owner

\* What a list takes of such a set is what its entries mean.
LEMMA SelectedItemsMeant ==
    ASSUME Shape, NEW m \in Modules, NEW list \in ListShape,
           NEW available \in SUBSET ItemsOf(m), ClassClosed(available)
    PROVE  SelectedItems(list, available) = ItemsIn(list, m) \cap available
<1> DEFINE byEntry(i) == \E e \in Range(list.items) : i \in ItemsMeant(e, m)
           direct == {i \in available : CheckItem(list, i)}
<1>1. \A i \in available :
        /\ i \in ItemsOf(m) /\ i.module = m
        /\ i.kind \in DeclKinds \cup {"variant", "classmember"}
    BY ItemFacts
<1>2. \A i \in available : i \in ItemsIn(list, m) <=> list.all \/ byEntry(i)
    BY <1>1 DEF ItemsIn
<1>3. CASE list.all
    BY <1>2, <1>3 DEF SelectedItems, CheckItem
<1>4. CASE ~list.all
    <2>1. \A i \in available : CheckItem(list, i) <=>
            \/ \E e \in Range(list.items) : MatchItem(e, i)
            \/ i.kind = "variant" /\ \E e \in Range(list.items) : NamesMember(e, i.owner, {"*", i.name})
        BY <1>4, PatternsNamed, ListEntries DEF CheckItem
    <2>2. ASSUME NEW i \in available, CheckItem(list, i)
          PROVE  byEntry(i)
        <3>1. CASE \E e \in Range(list.items) : MatchItem(e, i)
            BY <1>1, <3>1 DEF MatchItem, ItemsMeant, TypeKinds
        <3>2. ASSUME i.kind = "variant", NEW e \in Range(list.items), NamesMember(e, i.owner, {"*", i.name})
              PROVE  byEntry(i)
            <4>1. e.group
                BY <3>2, ListEntries, EntryParts DEF NamesMember
            <4> QED
                BY <1>1, <3>2, <4>1 DEF ItemsMeant, NamesMember
        <3> QED
            BY <2>1, <2>2, <3>1, <3>2
    <2>3. ASSUME NEW i \in available, byEntry(i)
          PROVE  \/ CheckItem(list, i)
                 \/ i.kind = "classmember" /\ \E e \in Range(list.items) : ~e.group /\ e.name = i.owner
        <3>1. PICK e \in Range(list.items) : i \in ItemsMeant(e, m)
            BY <2>3
        <3>2. CASE e.group
            BY <2>1, <3>1, <3>2 DEF ItemsMeant, MatchItem, TypeKinds, NamesMember
        <3>3. CASE ~e.group
            BY <2>1, <3>1, <3>3 DEF ItemsMeant, MatchItem, TypeKinds
        <3> QED
            BY <3>2, <3>3
    <2>4. ASSUME NEW i \in available, i.kind = "classmember", NEW e \in Range(list.items), ~e.group, e.name = i.owner
          PROVE  \E c \in direct : c.kind = "class" /\ c.module = i.module /\ c.name = i.owner
        <3>1. PICK c \in available : c.kind = "class" /\ c.name = i.owner
            BY <2>4 DEF ClassClosed
        <3>2. MatchItem(e, c)
            BY <2>4, <3>1 DEF MatchItem
        <3>3. c \in direct
            BY <2>1, <2>4, <3>2
        <3> QED
            BY <1>1, <3>1, <3>3
    <2>5. ASSUME NEW i \in available, i.kind = "classmember", NEW c \in direct,
                 c.kind = "class", c.name = i.owner
          PROVE  byEntry(i)
        <3>1. PICK e \in Range(list.items) : MatchItem(e, c)
            BY <2>1, <2>5
        <3>2. ~e.group /\ e.name = i.owner
            BY <2>5, <3>1 DEF MatchItem
        <3> QED
            BY <1>1, <2>5, <3>2 DEF ItemsMeant
    <2>6. \A i : i \in SelectedItems(list, available) <=>
            \/ i \in direct
            \/ i \in available /\ i.kind = "classmember" /\
                \E c \in direct : c.kind = "class" /\ c.module = i.module /\ c.name = i.owner
        BY DEF SelectedItems
    <2>7. \A i \in available : i \in SelectedItems(list, available) <=> byEntry(i)
        BY <2>2, <2>3, <2>4, <2>5, <2>6
    <2>8. SelectedItems(list, available) \subseteq available
        BY <2>6
    <2> QED
        BY <1>2, <1>4, <2>7, <2>8
<1> QED
    BY <1>3, <1>4

LEMMA SelectedFieldsMeant ==
    ASSUME Shape, NEW m \in Modules, members[m] = MembersOf(m), NEW list \in ListShape,
           NEW available \in SUBSET MembersOf(m)
    PROVE  FieldsAmong(SelectedMembers(list, available)) = FieldsIn(list, m) \cap available
<1>1. ASSUME NEW f \in available
      PROVE  f \in FieldsAmong(SelectedMembers(list, available)) <=> f \in FieldsIn(list, m)
    <2> DEFINE names == {"*"} \cup {g.name : g \in {g \in MembersOf(m) : g.owner = f.owner /\ g.kind = "field"}}
    <2>1. f \in MembersOf(m) /\ f.module = m
        BY <1>1, MemberFacts
    <2>2. CASE f.kind # "field"
        BY <1>1, <2>2 DEF FieldsAmong, FieldsIn, FieldsMeant
    <2>3. CASE f.kind = "field" /\ list.all
        BY <1>1, <2>1, <2>3 DEF FieldsAmong, FieldsIn, SelectedMembers
    <2>4. CASE f.kind = "field" /\ ~list.all
        <3>1. {"*"} \cup Fields(f) = names
            BY <2>1 DEF Fields
        <3>2. \A p : MatchMember(p, f) <=> p.group = f.owner /\ p.name \in names
            BY <2>4, <3>1 DEF MatchMember
        <3>3. f \in FieldsAmong(SelectedMembers(list, available)) <=>
                \E p \in MemberPatterns(list) : p.group = f.owner /\ p.name \in names
            BY <1>1, <2>4, <3>2 DEF FieldsAmong, SelectedMembers
        <3> HIDE DEF names
        <3>4. (\E p \in MemberPatterns(list) : p.group = f.owner /\ p.name \in names)
              <=> \E e \in Range(list.items) : NamesMember(e, f.owner, names)
            BY PatternsNamed
        <3>5. \A e \in Range(list.items) : NamesMember(e, f.owner, names) <=> f \in FieldsMeant(e, m)
            <4> TAKE e \in Range(list.items)
            <4>1. ~e.group => Range(e.members) = {}
                BY ListEntries, EntryParts
            <4>2. CASE e.name # f.owner
                BY <4>2 DEF NamesMember, FieldsMeant
            <4>3. CASE e.name = f.owner
                <5>1. names = {"*"} \cup {g.name : g \in {g \in MembersOf(m) : g.owner = e.name /\ g.kind = "field"}}
                    BY <4>3 DEF names
                <5>2. f \in {g \in MembersOf(m) : g.owner = e.name /\ g.kind = "field"}
                    BY <2>1, <2>4, <4>3
                <5> QED
                    BY <4>1, <4>3, <5>1, <5>2 DEF NamesMember, FieldsMeant
            <4> QED
                BY <4>2, <4>3
        <3>6. f \in FieldsIn(list, m) <=> \E e \in Range(list.items) : f \in FieldsMeant(e, m)
            BY <2>4 DEF FieldsIn
        <3> QED
            BY <3>3, <3>4, <3>5, <3>6
    <2> QED
        BY <2>2, <2>3, <2>4
<1>2. FieldsAmong(SelectedMembers(list, available)) \subseteq available
    BY DEF FieldsAmong, SelectedMembers
<1> QED
    BY <1>1, <1>2

\* A set of members of a module that has, with a field, the fields of its record.
FieldClosed(parts, m) ==
    \A f \in parts, g \in MembersOf(m) :
        f.kind = "field" /\ g.kind = "field" /\ g.owner = f.owner => g \in parts

\* An entry is for something that is there iff it means something that is there.
LEMMA EntryMatches ==
    ASSUME Shape, NEW m \in Modules, NEW e \in EntryShape,
           NEW available \in SUBSET ItemsOf(m), ClassClosed(available)
    PROVE  (\E i \in available : MatchItem(e, i))
           <=> ItemsMeant([e EXCEPT !.members = <<>>], m) \cap available # {}
<1> DEFINE bare == [e EXCEPT !.members = <<>>]
<1>1. bare.name = e.name /\ bare.group = e.group /\ bare.members = <<>>
    BY DEF EntryShape
<1>2. Range(bare.members) = {}
    BY <1>1, EmptySeq DEF Range
<1> HIDE DEF bare
<1>3. \A i \in available : i \in ItemsOf(m) /\ i.kind \in DeclKinds \cup {"variant", "classmember"}
    BY ItemFacts
<1>4. ASSUME NEW i \in available, MatchItem(e, i)
      PROVE  i \in ItemsMeant(bare, m)
    BY <1>1, <1>3, <1>4 DEF MatchItem, ItemsMeant, TypeKinds
<1>5. ASSUME NEW i \in available, i \in ItemsMeant(bare, m)
      PROVE  \E c \in available : MatchItem(e, c)
    <2>1. CASE i.kind = "classmember"
        <3>1. ~e.group /\ i.owner = e.name
            BY <1>1, <1>5, <2>1 DEF ItemsMeant, TypeKinds
        <3>2. PICK c \in available : c.kind = "class" /\ c.name = i.owner
            BY <1>5, <2>1 DEF ClassClosed
        <3> QED
            BY <3>1, <3>2 DEF MatchItem
    <2>2. CASE i.kind # "classmember"
        BY <1>1, <1>2, <1>5, <2>2 DEF MatchItem, ItemsMeant, TypeKinds
    <2> QED
        BY <2>1, <2>2
<1> QED
    BY <1>4, <1>5 DEF bare

\* A list has names that stand for nothing iff it means nothing by one of them.
LEMMA UnmatchedMeant ==
    ASSUME Shape, NEW m \in Modules, members[m] = MembersOf(m), NEW list \in ListShape, NEW available,
           available.items \subseteq ItemsOf(m), ClassClosed(available.items),
           available.members \subseteq MembersOf(m), FieldClosed(available.members, m),
           VariantsOf(available.items) = VariantsOf(available.members),
           NEW F, FieldsAmong(available.members) \subseteq F, F \subseteq available.members
    PROVE  Unmatched(list, available) # {} <=> Empty(list, m, available.items, F)
<1> DEFINE I == available.items
           M == available.members
           Nameless(e) == \A i \in I : ~MatchItem(e, i)
           Memberless(owner, name) == name # "*" /\ \A f \in M : f.owner # owner \/ f.name # name
<1>1. Unmatched(list, available) # {} <=>
        \/ \E k \in DOMAIN list.items : Nameless(list.items[k])
        \/ \E p \in MemberPatterns(list) : p.name # "*" /\ \A f \in M : ~MatchMember(p, f)
    BY DEF Unmatched
<1>2. {i \in I : i.kind = "variant"} \cup F = M
    BY MemberFacts DEF VariantsOf, FieldsAmong
<1>3. Empty(list, m, I, F) <=>
        \E e \in Range(list.items) :
            \/ ItemsMeant([e EXCEPT !.members = <<>>], m) \cap I = {}
            \/ \E name \in Range(e.members) : Memberless(e.name, name)
    <2> DEFINE parts == {i \in I : i.kind = "variant"} \cup F
               Lost(e) == ItemsMeant([e EXCEPT !.members = <<>>], m) \cap I = {}
    <2>1. Empty(list, m, I, F) <=>
            \E e \in Range(list.items) :
                Lost(e) \/ \E name \in Range(e.members) \ {"*"} : \A f \in parts : f.owner # e.name \/ f.name # name
        BY DEF Empty
    <2>2. parts = M
        BY <1>2
    <2> HIDE DEF Lost, parts
    <2>3. ASSUME NEW e
          PROVE  (\E name \in Range(e.members) \ {"*"} : \A f \in parts : f.owner # e.name \/ f.name # name)
                 <=> \E name \in Range(e.members) : Memberless(e.name, name)
        BY <2>2
    <2> HIDE DEF Memberless
    <2>4. Empty(list, m, I, F) <=>
            \E e \in Range(list.items) : Lost(e) \/ \E name \in Range(e.members) : Memberless(e.name, name)
        BY <2>1, <2>3
    <2> QED
        BY <2>4, Zenon DEF Lost
<1>4. \A e \in Range(list.items) : Nameless(e) <=> ItemsMeant([e EXCEPT !.members = <<>>], m) \cap I = {}
    BY ListEntries, EntryMatches
<1>5. \A p \in MemberPatterns(list) :
        (p.name # "*" /\ \A f \in M : ~MatchMember(p, f)) <=> Memberless(p.group, p.name)
    <2> TAKE p \in MemberPatterns(list)
    <2>1. ASSUME NEW f \in M, f.kind = "field", p.name # "*", MatchMember(p, f)
          PROVE  \E g \in M : g.owner = p.group /\ g.name = p.name
        <3>1. f.module = m /\ f.owner = p.group /\ p.name \in Fields(f)
            BY <2>1, MemberFacts DEF MatchMember
        <3>2. PICK g \in MembersOf(m) : g.kind = "field" /\ g.owner = f.owner /\ g.name = p.name
            BY <3>1 DEF Fields
        <3>3. g \in M
            BY <2>1, <3>2 DEF FieldClosed
        <3> QED
            BY <3>1, <3>2, <3>3
    <2>2. ASSUME NEW f \in M, f.owner = p.group, f.name = p.name
          PROVE  MatchMember(p, f)
        <3>1. f.module = m /\ f \in MembersOf(m) /\ f.kind \in {"field", "variant"}
            BY <2>2, MemberFacts
        <3>2. f.kind = "field" => f.name \in Fields(f)
            BY <3>1 DEF Fields
        <3> QED
            BY <2>2, <3>1, <3>2 DEF MatchMember
    <2>3. ASSUME NEW f \in M, f.kind # "field", p.name # "*", MatchMember(p, f)
          PROVE  f.owner = p.group /\ f.name = p.name
        BY <2>3 DEF MatchMember
    <2> QED
        BY <2>1, <2>2, <2>3
<1>6. (\E p \in MemberPatterns(list) : Memberless(p.group, p.name))
      <=> \E e \in Range(list.items) : \E name \in Range(e.members) : Memberless(e.name, name)
    <2>1. ASSUME NEW p \in MemberPatterns(list)
          PROVE  \E e \in Range(list.items) : e.name = p.group /\ p.name \in Range(e.members)
        <3> DEFINE owner == p.group
                   names == {p.name}
        <3>1. p.group = owner /\ p.name \in names
            OBVIOUS
        <3> HIDE DEF owner, names
        <3>2. \E e \in Range(list.items) : NamesMember(e, owner, names)
            BY <2>1, <3>1, PatternsNamed
        <3> QED
            BY <3>2 DEF NamesMember, owner, names
    <2>2. ASSUME NEW e \in Range(list.items), NEW name \in Range(e.members)
          PROVE  \E p \in MemberPatterns(list) : p.group = e.name /\ p.name = name
        <3> DEFINE owner == e.name
                   names == {name}
        <3>1. NamesMember(e, owner, names)
            BY <2>2 DEF NamesMember
        <3> HIDE DEF owner, names
        <3>2. \E p \in MemberPatterns(list) : p.group = owner /\ p.name \in names
            BY <2>2, <3>1, PatternsNamed
        <3> QED
            BY <3>2 DEF owner, names
    <2> HIDE DEF Memberless
    <2> QED
        BY <2>1, <2>2
<1>7. (\E k \in DOMAIN list.items : Nameless(list.items[k])) <=> \E e \in Range(list.items) : Nameless(e)
    BY ListEntries
<1> HIDE DEF Nameless, Memberless
<1> QED
    BY <1>1, <1>3, <1>4, <1>5, <1>6, <1>7

-----------------------------------------------------------------------------

\* What depends on the program alone stays what it is, after the implicit imports.
LEMMA SameProgram ==
    ASSUME program' = program
    PROVE  /\ Modules' = Modules
           /\ \A m : /\ ItemsOf(m)' = ItemsOf(m) /\ MembersOf(m)' = MembersOf(m)
                     /\ Exports(m)' = Exports(m)
                     /\ FieldsIn(program[m].exports, m)' = FieldsIn(program[m].exports, m)
                     /\ OwnPaths(m)' = OwnPaths(m) /\ OwnFields(m)' = OwnFields(m)
                     /\ (Doubled(m)' <=> Doubled(m)) /\ (ExportReason(m)' <=> ExportReason(m))
                     /\ (NotFound(m)' <=> NotFound(m)) /\ (ImportReason(m)' <=> ImportReason(m))
           /\ \A m, i : /\ BroughtBy(m, i)' = BroughtBy(m, i)
                        /\ FieldsBroughtBy(m, i)' = FieldsBroughtBy(m, i)
                        /\ Names(m, i)' = Names(m, i)
                        /\ (ListReason(m, i)' <=> ListReason(m, i))
           /\ Reasons' <=> Reasons
<1>1. Modules' = Modules /\ \A name : ModulesNamed(name)' = ModulesNamed(name)
    BY DEF Modules, ModulesNamed
<1>2. \A m : ItemsOf(m)' = ItemsOf(m)
    BY DEF ItemsOf
<1>3. \A m : MembersOf(m)' = MembersOf(m)
    BY DEF MembersOf
<1>4. \A m, e : ItemsMeant(e, m)' = ItemsMeant(e, m)
    BY <1>2 DEF ItemsMeant
<1>5. \A m, e : FieldsMeant(e, m)' = FieldsMeant(e, m)
    BY <1>3 DEF FieldsMeant
<1>6. \A m, list : ItemsIn(list, m)' = ItemsIn(list, m)
    BY <1>2, <1>4 DEF ItemsIn
<1>7. \A m, list : FieldsIn(list, m)' = FieldsIn(list, m)
    BY <1>3, <1>5 DEF FieldsIn
<1>8. \A m : Exports(m)' = Exports(m)
    BY <1>6 DEF Exports
<1>9. \A m, name, from : HiddenBy(m, name, from)' <=> HiddenBy(m, name, from)
    BY DEF HiddenBy
<1>10. \A m, i : Brings(m, i)' = Brings(m, i)
    BY <1>1, <1>6, <1>8 DEF Brings
<1>11. \A m, i : BringsFields(m, i)' = BringsFields(m, i)
    BY <1>1, <1>7 DEF BringsFields
<1>12. \A m, i, item : Paths(m, i, item)' = Paths(m, i, item)
    BY <1>9 DEF Paths
<1>13. \A m : OwnPaths(m)' = OwnPaths(m)
    BY <1>2 DEF OwnPaths
<1>14. \A m : OwnFields(m)' = OwnFields(m)
    BY <1>3 DEF OwnFields
<1>15. \A m, i : BroughtBy(m, i)' = BroughtBy(m, i)
    BY <1>10, <1>12 DEF BroughtBy
<1>16. \A m, i : FieldsBroughtBy(m, i)' = FieldsBroughtBy(m, i)
    BY <1>9, <1>11 DEF FieldsBroughtBy
<1>17. \A m, i : Names(m, i)' = Names(m, i)
    BY <1>10, <1>11 DEF Names
<1>18. \A m : Conflicts(m)' = Conflicts(m)
    BY <1>2 DEF Conflicts
<1>19. \A m : Doubled(m)' <=> Doubled(m)
    BY <1>3, <1>18 DEF Doubled
<1>20. \A list, m, I, F : Empty(list, m, I, F)' <=> Empty(list, m, I, F)
    BY <1>4 DEF Empty
<1>21. \A m : ExportReason(m)' <=> ExportReason(m)
    BY <1>2, <1>3, <1>20 DEF ExportReason
<1>22. \A m : NotFound(m)' <=> NotFound(m)
    BY <1>1 DEF NotFound
<1>23. \A m, i : ListReason(m, i)' <=> ListReason(m, i)
    BY <1>1, <1>7, <1>8, <1>20 DEF ListReason
<1>24. \A m, i : HideReason(m, i)' <=> HideReason(m, i)
    BY <1>17 DEF HideReason
<1>25. \A m : ImportReason(m)' <=> ImportReason(m)
    BY <1>22, <1>23, <1>24 DEF ImportReason
<1>26. Reasons' <=> Reasons
    BY <1>1, <1>19, <1>21, <1>25 DEF Reasons
<1> QED
    BY <1>1, <1>2, <1>3, <1>7, <1>8, <1>13, <1>14, <1>15, <1>16, <1>17, <1>19, <1>21, <1>22, <1>23, <1>25, <1>26


-----------------------------------------------------------------------------
(* What is declared and what is exported.                                  *)

LEMMA ItemsClosed ==
    ASSUME Shape, NEW m \in Modules
    PROVE  /\ ClassClosed(ItemsOf(m))
           /\ \A list \in ListShape : ItemsIn(list, m) \subseteq ItemsOf(m) /\ ClassClosed(ItemsIn(list, m))
<1>1. ClassClosed(ItemsOf(m))
    BY ItemFacts DEF ClassClosed
<1>2. ASSUME NEW list \in ListShape
      PROVE  ItemsIn(list, m) \subseteq ItemsOf(m) /\ ClassClosed(ItemsIn(list, m))
    <2>1. CASE list.all
        BY <1>1, <2>1 DEF ItemsIn
    <2>2. CASE ~list.all
        <3>1. ItemsIn(list, m) = UNION {ItemsMeant(e, m) : e \in Range(list.items)}
            BY <2>2 DEF ItemsIn
        <3>2. \A e : ItemsMeant(e, m) \subseteq ItemsOf(m)
            BY DEF ItemsMeant
        <3>3. ASSUME NEW i \in ItemsIn(list, m), i.kind = "classmember"
              PROVE  \E c \in ItemsIn(list, m) : c.kind = "class" /\ c.name = i.owner
            <4>1. PICK e \in Range(list.items) : i \in ItemsMeant(e, m)
                BY <3>1, <3>3
            <4>2. ~e.group /\ i.owner = e.name /\ i \in ItemsOf(m)
                BY <3>3, <4>1 DEF ItemsMeant, TypeKinds
            <4>3. PICK c \in ItemsOf(m) : c.kind = "class" /\ c.name = i.owner
                BY <3>3, <4>2, ItemFacts
            <4>4. c \in ItemsMeant(e, m)
                BY <4>2, <4>3 DEF ItemsMeant, TypeKinds
            <4> QED
                BY <3>1, <4>3, <4>4
        <3> QED
            BY <3>1, <3>2, <3>3 DEF ClassClosed
    <2> QED
        BY <2>1, <2>2
<1> QED
    BY <1>1, <1>2

LEMMA FieldsClosed ==
    ASSUME NEW m, NEW list, NEW f \in FieldsIn(list, m), NEW g \in MembersOf(m), g.kind = "field", g.owner = f.owner
    PROVE  g \in FieldsIn(list, m)
<1>1. CASE list.all
    BY <1>1 DEF FieldsIn
<1>2. CASE ~list.all
    <2>1. PICK e \in Range(list.items) : f \in FieldsMeant(e, m)
        BY <1>2 DEF FieldsIn
    <2>2. g \in FieldsMeant(e, m)
        BY <2>1 DEF FieldsMeant
    <2> QED
        BY <1>2, <2>2 DEF FieldsIn
<1> QED
    BY <1>1, <1>2

\* What imports select from is what the export list of the source means.
LEMMA ExportedFacts ==
    ASSUME IInv, DeclaredExact, ExportedExact, stage \in {"imports", "import", "resolved"}, NEW m \in Modules
    PROVE  /\ items[m] = ItemsOf(m) /\ members[m] = MembersOf(m)
           /\ exported[m].items = Exports(m)
           /\ FieldsAmong(exported[m].members) = FieldsIn(program[m].exports, m)
           /\ exported[m].items \subseteq ItemsOf(m) /\ ClassClosed(exported[m].items)
           /\ exported[m].members \subseteq MembersOf(m) /\ FieldClosed(exported[m].members, m)
           /\ VariantsOf(exported[m].items) = VariantsOf(exported[m].members)
<1>1. items[m] = ItemsOf(m) /\ members[m] = MembersOf(m)
    BY DEF DeclaredExact
<1>2. exported[m].items = Exports(m) /\ FieldsAmong(exported[m].members) = FieldsIn(program[m].exports, m)
    BY DEF ExportedExact, IsExported
<1>3. /\ exported[m].items \subseteq items[m] /\ exported[m].members \subseteq members[m]
      /\ VariantsOf(exported[m].items) = VariantsOf(exported[m].members)
    BY DEF IInv, Tables
<1>4. program[m].exports \in ListShape
    BY DeclKindsOf, ModuleParts DEF IInv
<1>5. ClassClosed(exported[m].items)
    BY <1>2, <1>4, ItemsClosed DEF IInv, Exports
<1>6. ASSUME NEW f \in exported[m].members, NEW g \in MembersOf(m),
             f.kind = "field", g.kind = "field", g.owner = f.owner
      PROVE  g \in exported[m].members
    <2>1. f \in FieldsIn(program[m].exports, m)
        BY <1>2, <1>6 DEF FieldsAmong
    <2>2. g \in FieldsIn(program[m].exports, m)
        BY <1>6, <2>1, FieldsClosed
    <2> QED
        BY <1>2, <2>2 DEF FieldsAmong
<1> QED
    BY <1>1, <1>2, <1>3, <1>5, <1>6 DEF FieldClosed

Exact == DeclaredExact /\ ExportedExact /\ ImportedExact /\ MatchedExact /\ ReportedExact

LEMMA InitExact == Init => Exact
<1> SUFFICES ASSUME Init
             PROVE  Exact
    OBVIOUS
<1>1. stage = "parsed" /\ errors = {} /\ at = 1
    BY DEF Init
<1> QED
    BY <1>1 DEF Exact, DeclaredExact, ExportedExact, IsExported, ImportedExact, IsStarted, IsDone, MatchedExact,
                ReportedExact

LEMMA AddImplicitImportExact == Exact /\ AddImplicitImport => Exact'
<1> SUFFICES ASSUME Exact, AddImplicitImport
             PROVE  Exact'
    OBVIOUS
<1>1. stage' = "parsed" /\ errors' = {} /\ at' = 1
    BY DEF AddImplicitImport, Exact, ReportedExact
<1> QED
    BY <1>1 DEF Exact, DeclaredExact, ExportedExact, IsExported, ImportedExact, IsStarted, IsDone, MatchedExact,
                ReportedExact

LEMMA RegisterItemsExact == IInv /\ Exact /\ RegisterItems => Exact'
<1> SUFFICES ASSUME IInv, Exact, RegisterItems
             PROVE  Exact'
    OBVIOUS
<1>1. /\ program' = program /\ Modules' = Modules
      /\ stage = "parsed" /\ stage' = IF errors' = {} THEN "exports" ELSE "rejected"
      /\ UNCHANGED <<exported, imported, importedMembers, matched, at, nr>>
    BY DEF RegisterItems, Gate, Modules
<1>2. \A m : ItemsOf(m)' = ItemsOf(m) /\ MembersOf(m)' = MembersOf(m)
    BY <1>1, SameProgram
<1>3. \A m \in Modules : items'[m] = ItemsOf(m)' /\ members'[m] = MembersOf(m)'
    BY <1>2 DEF RegisterItems
<1>4. errors' # {} <=> \E m \in Modules : Doubled(m)
    <2>1. \A m : DeclarationErrors(m) # {} <=> Doubled(m)
        <3> TAKE m
        <3> DEFINE twice ==
                       {f \in MembersOf(m) : \E g \in MembersOf(m) : g # f /\ g.name = f.name /\ g.owner = f.owner}
        <3>1. DeclarationErrors(m) # {} <=> Conflicts(m) # {} \/ twice # {}
            BY DEF DeclarationErrors
        <3> QED
            BY <3>1 DEF Doubled
    <2>2. errors' = UNION {DeclarationErrors(m) : m \in Modules}
        BY DEF RegisterItems
    <2>3. \A e : e \in errors' <=> \E m \in Modules : e \in DeclarationErrors(m)
        BY <2>2
    <2> QED
        BY <2>1, <2>3
<1>5. at' = 1
    BY <1>1 DEF Exact, ReportedExact
<1>6. DeclaredExact' /\ ImportedExact' /\ MatchedExact'
    BY <1>1, <1>3 DEF DeclaredExact, ImportedExact, IsStarted, IsDone, MatchedExact
<1>7. \A m \in Modules : ~(m < 1)
    BY ProgramParts DEF IInv, Shape, Modules
<1>8. ExportedExact'
    BY <1>1, <1>5, <1>7 DEF ExportedExact, IsExported
<1>9. ReportedExact'
    <2>1. Reasons' <=> Reasons
        BY <1>1, SameProgram
    <2>2. \A m : (Doubled(m)' <=> Doubled(m)) /\ (ExportReason(m)' <=> ExportReason(m))
        BY <1>1, SameProgram
    <2>3. errors' # {} => Reasons
        BY <1>4 DEF Reasons
    <2>4. stage' = "rejected" => Reasons'
        BY <1>1, <2>1, <2>3
    <2>5. stage' = "exports" => errors' = {} /\ \A m \in Modules' : ~Doubled(m)'
        BY <1>1, <1>4, <2>2
    <2>6. \A m \in Modules' : ~(m < at')
        BY <1>1, <1>5, <1>7
    <2> QED
        BY <1>1, <2>4, <2>5, <2>6 DEF ReportedExact
<1> QED
    BY <1>6, <1>8, <1>9 DEF Exact

\* The numbers of the modules.
LEMMA ModuleNumbers ==
    ASSUME Shape
    PROVE  /\ Len(program) \in Nat \ {0} /\ Modules = 1..Len(program)
           /\ at \in 1..Len(program) /\ nr \in Nat \ {0}
BY ProgramParts DEF Shape, Modules

\* One module's exports are what its list means, and a name in it that stands for
\* nothing is reported.
LEMMA ExportMeant ==
    ASSUME IInv, Exact, ExportModule
    PROVE  /\ exported'[at].items = Exports(at)
           /\ FieldsAmong(exported'[at].members) = FieldsIn(program[at].exports, at)
           /\ \A m \in Modules \ {at} : exported'[m] = exported[m]
           /\ errors' # {} <=> errors # {} \/ ExportReason(at)
<1> DEFINE list == program[at].exports
           available == [items |-> ItemsOf(at), members |-> MembersOf(at)]
           unmatched == Unmatched(list, available)
<1>1. at \in Modules /\ Shape /\ list \in ListShape
    BY DeclKindsOf, ModuleParts DEF IInv, Shape
<1>2. items[at] = ItemsOf(at) /\ members[at] = MembersOf(at)
    BY <1>1 DEF Exact, DeclaredExact, ExportModule
<1>3. /\ exported' = [exported EXCEPT ![at] = Selected(list, available)]
      /\ errors' = errors \cup {Error("ExportNoMatch", at, n) : n \in unmatched}
    BY <1>2 DEF ExportModule
<1>4. /\ exported'[at] = Selected(list, available)
      /\ \A m \in Modules \ {at} : exported'[m] = exported[m]
    BY <1>1, <1>3 DEF IInv, Shape
<1>5. exported'[at].items = Exports(at)
    <2>1. exported'[at].items = SelectedItems(list, ItemsOf(at))
        BY <1>4 DEF Selected
    <2>2. SelectedItems(list, ItemsOf(at)) = ItemsIn(list, at) \cap ItemsOf(at)
        BY <1>1, ItemsClosed, SelectedItemsMeant
    <2> QED
        BY <1>1, <2>1, <2>2, ItemsClosed DEF Exports
<1>6. FieldsAmong(exported'[at].members) = FieldsIn(list, at)
    <2>1. exported'[at].members = SelectedMembers(list, MembersOf(at))
        BY <1>4 DEF Selected
    <2>2. FieldsAmong(SelectedMembers(list, MembersOf(at))) = FieldsIn(list, at) \cap MembersOf(at)
        BY <1>1, <1>2, SelectedFieldsMeant
    <2>3. FieldsIn(list, at) \subseteq MembersOf(at)
        BY DEF FieldsIn, FieldsMeant
    <2> QED
        BY <2>1, <2>2, <2>3
<1>7. unmatched # {} <=> ExportReason(at)
    <2>1. VariantsOf(ItemsOf(at)) = VariantsOf(MembersOf(at))
        BY <1>1, <1>2 DEF IInv, Tables
    <2>2. available.items = ItemsOf(at) /\ available.members = MembersOf(at)
        OBVIOUS
    <2>3. ClassClosed(ItemsOf(at)) /\ FieldClosed(MembersOf(at), at)
        BY <1>1, ItemsClosed DEF FieldClosed
    <2>4. FieldsAmong(MembersOf(at)) \subseteq MembersOf(at)
        BY DEF FieldsAmong
    <2> HIDE DEF list, available
    <2>5. Unmatched(list, available) # {} <=> Empty(list, at, ItemsOf(at), MembersOf(at))
        BY <1>1, <1>2, <2>1, <2>2, <2>3, <2>4, UnmatchedMeant
    <2> QED
        BY <2>5 DEF ExportReason, list
<1>8. errors' # {} <=> errors # {} \/ unmatched # {}
    <2> HIDE DEF unmatched
    <2> QED
        BY <1>3
<1> QED
    BY <1>4, <1>5, <1>6, <1>7, <1>8

LEMMA ExportModuleExact == IInv /\ Exact /\ ExportModule => Exact'
<1> SUFFICES ASSUME IInv, Exact, ExportModule
             PROVE  Exact'
    OBVIOUS
<1>1. /\ program' = program /\ stage = "exports"
      /\ UNCHANGED <<items, members, imported, importedMembers, matched, nr>>
    BY DEF ExportModule
<1>2. Modules' = Modules /\ Len(program) \in Nat \ {0} /\ Modules = 1..Len(program) /\ at \in 1..Len(program)
    BY <1>1, ModuleNumbers, SameProgram DEF IInv
<1>3. \/ at < Len(program) /\ at' = at + 1 /\ stage' = "exports"
      \/ at = Len(program) /\ at' = 1 /\ stage' = IF errors' = {} THEN "imports" ELSE "rejected"
    <2>1. /\ at < Len(program) => at' = at + 1 /\ stage' = stage
          /\ ~(at < Len(program)) => at' = 1 /\ Gate("imports")
        BY DEF ExportModule
    <2> QED
        BY <1>1, <1>2, <2>1 DEF Gate
<1>4. \A m : /\ ItemsOf(m)' = ItemsOf(m) /\ MembersOf(m)' = MembersOf(m) /\ Exports(m)' = Exports(m)
             /\ FieldsIn(program[m].exports, m)' = FieldsIn(program[m].exports, m)
             /\ (Doubled(m)' <=> Doubled(m)) /\ (ExportReason(m)' <=> ExportReason(m))
    BY <1>1, SameProgram
<1>5. \A m \in Modules : m < at \/ m = at =>
        /\ exported'[m].items = Exports(m)
        /\ FieldsAmong(exported'[m].members) = FieldsIn(program[m].exports, m)
    BY <1>1, <1>2, ExportMeant DEF Exact, ExportedExact, IsExported
<1>6. errors' # {} <=> \E m \in Modules : (m < at \/ m = at) /\ ExportReason(m)
    BY <1>1, <1>2, ExportMeant DEF Exact, ReportedExact
<1>7. DeclaredExact'
    BY <1>1, <1>2, <1>4 DEF Exact, DeclaredExact
<1>8. ExportedExact'
    <2>1. ASSUME NEW m \in Modules', IsExported(m)'
          PROVE  m < at \/ m = at
        BY <1>2, <1>3, <2>1 DEF IsExported
    <2> QED
        BY <1>2, <1>4, <1>5, <2>1 DEF ExportedExact, FieldsAmong
<1>9. ImportedExact' /\ MatchedExact'
    <2>1. \A m \in Modules' : ~IsStarted(m)'
        BY <1>2, <1>3 DEF IsStarted, IsDone
    <2>2. stage' # "import"
        BY <1>3
    <2> QED
        BY <2>1, <2>2 DEF ImportedExact, MatchedExact
<1>10. ReportedExact'
    <2>1. \A m \in Modules : ~Doubled(m)'
        BY <1>1, <1>4 DEF Exact, ReportedExact
    <2>2. CASE stage' = "exports"
        <3>1. \A m \in Modules : m < at' <=> m < at \/ m = at
            BY <1>2, <1>3, <2>2
        <3> QED
            BY <1>2, <1>4, <1>6, <2>1, <2>2, <3>1 DEF ReportedExact
    <2>3. CASE stage' \in {"imports", "rejected"}
        <3>1. \A m \in Modules : m < at \/ m = at
            BY <1>2, <1>3, <2>3
        <3>2. errors' # {} <=> \E m \in Modules : ExportReason(m)
            BY <1>6, <3>1
        <3>3. \A m \in Modules : ~(m < at')
            BY <1>2, <1>3, <2>3
        <3>4. errors' # {} => Reasons'
            BY <1>1, <3>2, SameProgram DEF Reasons
        <3>5. stage' = IF errors' = {} THEN "imports" ELSE "rejected"
            BY <1>3, <2>3
        <3> QED
            BY <1>2, <1>4, <2>1, <3>2, <3>3, <3>4, <3>5 DEF ReportedExact
    <2> QED
        BY <1>3, <2>2, <2>3
<1> QED
    BY <1>7, <1>8, <1>9, <1>10 DEF Exact

-----------------------------------------------------------------------------
(* What is imported.                                                       *)

LEMMA EntriesTriples ==
    ASSUME NEW entries, NEW shown, NEW plain, NEW namespace, NEW by,
           EntriesFor(entries, shown, plain, namespace, by), NEW t
    PROVE  t \in Triples(entries) <=>
            \/ \E i \in shown : t = <<<<namespace, i.name>>, i, by>>
            \/ \E i \in plain : t = <<<<i.name>>, i, by>>
<1>1. entries = {[path |-> <<namespace, i.name>>, item |-> i, by |-> by] : i \in shown} \cup
                {[path |-> <<i.name>>, item |-> i, by |-> by] : i \in plain}
    BY DEF EntriesFor
<1>2. ASSUME t \in Triples(entries)
      PROVE  \/ \E i \in shown : t = <<<<namespace, i.name>>, i, by>>
             \/ \E i \in plain : t = <<<<i.name>>, i, by>>
    <2>1. PICK e \in entries : t = <<e.path, e.item, e.by>>
        BY <1>2 DEF Triples
    <2>2. \/ \E i \in shown : e = [path |-> <<namespace, i.name>>, item |-> i, by |-> by]
          \/ \E i \in plain : e = [path |-> <<i.name>>, item |-> i, by |-> by]
        BY <1>1
    <2>3. CASE \E i \in shown : e = [path |-> <<namespace, i.name>>, item |-> i, by |-> by]
        BY <2>1, <2>3
    <2>4. CASE \E i \in plain : e = [path |-> <<i.name>>, item |-> i, by |-> by]
        BY <2>1, <2>4
    <2> QED
        BY <2>3, <2>4, <2>2
<1>3. ASSUME NEW i \in shown, t = <<<<namespace, i.name>>, i, by>>
      PROVE  t \in Triples(entries)
    <2> DEFINE e == [path |-> <<namespace, i.name>>, item |-> i, by |-> by]
    <2>1. e \in entries /\ t = <<e.path, e.item, e.by>>
        BY <1>3, <1>1
    <2> QED
        BY <2>1 DEF Triples
<1>4. ASSUME NEW i \in plain, t = <<<<i.name>>, i, by>>
      PROVE  t \in Triples(entries)
    <2> DEFINE e == [path |-> <<i.name>>, item |-> i, by |-> by]
    <2>1. e \in entries /\ t = <<e.path, e.item, e.by>>
        BY <1>1, <1>4
    <2> QED
        BY <2>1 DEF Triples
<1> QED
    BY <1>2, <1>3, <1>4

LEMMA MembersPairs ==
    ASSUME NEW by, NEW shown, NEW x
    PROVE  x \in FieldEntries({[member |-> f, by |-> by] : f \in shown}) <=>
            \E f \in FieldsAmong(shown) : x = <<f, by>>
<1> DEFINE entries == {[member |-> f, by |-> by] : f \in shown}
<1>1. ASSUME x \in FieldEntries(entries)
      PROVE  \E f \in FieldsAmong(shown) : x = <<f, by>>
    <2>1. PICK e \in entries : e.member.kind = "field" /\ x = <<e.member, e.by>>
        BY <1>1 DEF FieldEntries
    <2>2. PICK f \in shown : e = [member |-> f, by |-> by]
        BY <2>1
    <2> QED
        BY <2>1, <2>2 DEF FieldsAmong
<1>2. ASSUME NEW f \in FieldsAmong(shown), x = <<f, by>>
      PROVE  x \in FieldEntries(entries)
    <2> DEFINE e == [member |-> f, by |-> by]
    <2>1. e \in entries /\ e.member.kind = "field" /\ x = <<e.member, e.by>>
        BY <1>2 DEF FieldsAmong
    <2> QED
        BY <2>1 DEF FieldEntries
<1> QED
    BY <1>1, <1>2

LEMMA EntriesAdded ==
    ASSUME NEW A, NEW B
    PROVE  /\ Triples(A \cup B) = Triples(A) \cup Triples(B)
           /\ FieldEntries(A \cup B) = FieldEntries(A) \cup FieldEntries(B)
BY DEF Triples, FieldEntries

LEMMA OwnPathsAre ==
    ASSUME NEW m, NEW t
    PROVE  t \in OwnPaths(m) <=>
            \/ \E i \in ItemsOf(m) : t = <<<<program[m].name, i.name>>, i, 0>>
            \/ \E i \in ItemsOf(m) : t = <<<<i.name>>, i, 0>>
BY DEF OwnPaths

LEMMA BroughtByAre ==
    ASSUME NEW m, NEW i, NEW t
    PROVE  t \in BroughtBy(m, i) <=> \E item \in Brings(m, i) : \E path \in Paths(m, i, item) : t = <<path, item, i>>
BY DEF BroughtBy

\* The modules before the one at hand are done and stay as they are.
LEMMA OthersKept ==
    ASSUME IInv, Exact, program' = program, stage \in {"imports", "import"}, stage' = "import", at' = at,
           \A m \in Modules \ {at} : imported'[m] = imported[m] /\ importedMembers'[m] = importedMembers[m]
    PROVE  \A m \in Modules \ {at} : IsStarted(m)' =>
            /\ Triples(imported'[m]) = VisibleSoFar(m)'
            /\ FieldEntries(importedMembers'[m]) = FieldsSoFar(m)'
<1> SUFFICES ASSUME NEW m \in Modules \ {at}, IsStarted(m)'
             PROVE  /\ Triples(imported'[m]) = VisibleSoFar(m)'
                    /\ FieldEntries(importedMembers'[m]) = FieldsSoFar(m)'
    OBVIOUS
<1>1. IsDone(m) /\ IsDone(m)' /\ IsStarted(m)
    BY DEF IsStarted, IsDone
<1>2. Processed(m)' = Processed(m)
    BY <1>1 DEF Processed
<1>3. /\ OwnPaths(m)' = OwnPaths(m) /\ OwnFields(m)' = OwnFields(m)
      /\ \A i : BroughtBy(m, i)' = BroughtBy(m, i) /\ FieldsBroughtBy(m, i)' = FieldsBroughtBy(m, i)
    BY SameProgram
<1>4. VisibleSoFar(m)' = VisibleSoFar(m)
    BY <1>2, <1>3 DEF VisibleSoFar
<1>5. FieldsSoFar(m)' = FieldsSoFar(m)
    BY <1>2, <1>3 DEF FieldsSoFar
<1> QED
    BY <1>1, <1>4, <1>5 DEF Exact, ImportedExact

LEMMA StartImportsExact == IInv /\ Exact /\ StartImports => Exact'
<1> SUFFICES ASSUME IInv, Exact, StartImports
             PROVE  Exact'
    OBVIOUS
<1> DEFINE E == Entries(items[at], program[at].name, TRUE, 0)
           M == {[member |-> f, by |-> 0] : f \in members[at]}
<1>1. /\ program' = program /\ stage = "imports" /\ stage' = "import" /\ nr' = 1 /\ matched' = {}
      /\ imported' = [imported EXCEPT ![at] = E] /\ importedMembers' = [importedMembers EXCEPT ![at] = M]
      /\ UNCHANGED <<items, members, exported, at>>
    BY DEF StartImports
<1>2. Modules' = Modules /\ Len(program) \in Nat \ {0} /\ Modules = 1..Len(program) /\ at \in 1..Len(program)
    BY <1>1, ModuleNumbers, SameProgram DEF IInv
<1>3. items[at] = ItemsOf(at) /\ members[at] = MembersOf(at)
    BY <1>1, <1>2 DEF Exact, DeclaredExact
<1>4. /\ \A m \in Modules : imported'[m] = IF m = at THEN E ELSE imported[m]
      /\ \A m \in Modules : importedMembers'[m] = IF m = at THEN M ELSE importedMembers[m]
    BY <1>1, <1>2 DEF IInv, Shape
<1>5. \A m : /\ ItemsOf(m)' = ItemsOf(m) /\ MembersOf(m)' = MembersOf(m) /\ Exports(m)' = Exports(m)
             /\ FieldsIn(program[m].exports, m)' = FieldsIn(program[m].exports, m)
             /\ OwnPaths(m)' = OwnPaths(m) /\ OwnFields(m)' = OwnFields(m)
             /\ (Doubled(m)' <=> Doubled(m)) /\ (ExportReason(m)' <=> ExportReason(m))
             /\ (NotFound(m)' <=> NotFound(m)) /\ (ImportReason(m)' <=> ImportReason(m))
    BY <1>1, SameProgram
<1>6. \A m, i : BroughtBy(m, i)' = BroughtBy(m, i) /\ FieldsBroughtBy(m, i)' = FieldsBroughtBy(m, i)
    BY <1>1, SameProgram
<1>7. Triples(E) = OwnPaths(at)
    <2> DEFINE own == items[at]
               name == program[at].name
    <2>1. own = ItemsOf(at)
        BY <1>3
    <2>2. EntriesFor(E, own, own, name, 0)
        BY DEF Entries, EntriesFor
    <2> HIDE DEF E, own, name
    <2>3. \A t : t \in Triples(E) <=>
            \/ \E i \in own : t = <<<<name, i.name>>, i, 0>>
            \/ \E i \in own : t = <<<<i.name>>, i, 0>>
        BY <2>2, EntriesTriples
    <2>4. \A t : t \in Triples(E) <=> t \in OwnPaths(at)
        BY <2>1, <2>3, OwnPathsAre DEF name
    <2> QED
        BY <2>4 
<1>8. FieldEntries(M) = OwnFields(at)
    <2>1. \A x : x \in FieldEntries(M) <=> \E f \in FieldsAmong(members[at]) : x = <<f, 0>>
        BY MembersPairs
    <2>2. \A x : x \in OwnFields(at) <=> \E f \in FieldsAmong(MembersOf(at)) : x = <<f, 0>>
        BY DEF OwnFields, FieldsAmong
    <2> HIDE DEF M
    <2> QED
        BY <1>3, <2>1, <2>2 
<1>9. errors' # {} <=> errors # {} \/ NotFound(at)
    <2> DEFINE missing == {program[at].imports[i].from : i \in DOMAIN program[at].imports} \
                              {program[m].name : m \in Modules}
    <2>1. missing # {} <=> NotFound(at)
        BY DEF NotFound, ModulesNamed
    <2>2. errors' = errors \cup {Error("ImportedModuleNotFound", at, name) : name \in missing}
        BY DEF StartImports
    <2> HIDE DEF missing
    <2> QED
        BY <2>1, <2>2
<1>10. (\A m \in Modules : m = at => Processed(m)' = {}) /\ \A m \in Modules : (m < at)' <=> m < at
    <2>1. program[at].imports \in Seq(ImportShape)
        BY <1>2, DeclKindsOf, ModuleParts DEF IInv
    <2>2. \A i \in DOMAIN program[at].imports : ~(i < 1)
        BY <2>1, LenProperties
    <2> QED
        BY <1>1, <1>2, <2>2 DEF IsDone, Processed
<1>11. DeclaredExact' /\ ExportedExact'
    <2>1. DeclaredExact'
        BY <1>1, <1>2, <1>5 DEF Exact, DeclaredExact
    <2>2. ExportedExact'
        BY <1>1, <1>2, <1>5 DEF Exact, ExportedExact, IsExported, FieldsAmong
    <2> QED
        BY <2>1, <2>2
<1>12. ImportedExact'
    <2>1. \A m \in Modules \ {at} : IsStarted(m)' =>
            /\ Triples(imported'[m]) = VisibleSoFar(m)'
            /\ FieldEntries(importedMembers'[m]) = FieldsSoFar(m)'
        BY <1>1, <1>4, OthersKept
    <2>2. ASSUME NEW m \in Modules, m = at
          PROVE  Triples(imported'[m]) = VisibleSoFar(m)' /\ FieldEntries(importedMembers'[m]) = FieldsSoFar(m)'
        <3>1. Processed(m)' = {}
            BY <1>10, <2>2
        <3>2. VisibleSoFar(m)' = OwnPaths(m)
            BY <1>5, <3>1 DEF VisibleSoFar
        <3>3. FieldsSoFar(m)' = OwnFields(m)
            BY <1>5, <3>1 DEF FieldsSoFar
        <3> HIDE DEF E, M
        <3>4. imported'[m] = E /\ importedMembers'[m] = M
            BY <1>4, <2>2
        <3> QED
            BY <1>7, <1>8, <2>2, <3>2, <3>3, <3>4
    <2>3. \A m \in Modules : IsStarted(m)' =>
            Triples(imported'[m]) = VisibleSoFar(m)' /\ FieldEntries(importedMembers'[m]) = FieldsSoFar(m)'
        BY <2>1, <2>2
    <2>4. \A m : Triples(imported'[m]) = Triples(imported[m])' /\
                 FieldEntries(importedMembers'[m]) = FieldEntries(importedMembers[m])'
        BY DEF Triples, FieldEntries
    <2> QED
        BY <1>2, <2>3, <2>4 DEF ImportedExact
<1>13. MatchedExact'
    BY <1>1, <1>2, <1>10 DEF MatchedExact
<1>14. ReportedExact'
    <2>1. /\ \A m \in Modules : ~Doubled(m) /\ ~ExportReason(m)
          /\ errors # {} <=> \E m \in Modules : m < at /\ ImportReason(m)
        BY <1>1 DEF Exact, ReportedExact
    <2> QED
        BY <1>1, <1>2, <1>5, <1>9, <1>10, <2>1 DEF ReportedExact
<1> QED
    BY <1>11, <1>12, <1>13, <1>14 DEF Exact

-----------------------------------------------------------------------------
(* One import.                                                             *)

LEMMA HidePatternsAre ==
    ASSUME NEW p
    PROVE  p \in HidePatterns <=>
            \E i \in DOMAIN program[at].imports :
                /\ program[at].imports[i].hiding /\ ModulesNamed(program[at].imports[i].from) # {}
                /\ \E j \in DOMAIN program[at].imports[i].names : p = <<i, j>>
BY DEF HidePatterns

\* A name is hidden iff an import hides it of that module, if there is one.
LEMMA HiddenMeant ==
    ASSUME NEW name, NEW from, ModulesNamed(from) # {}
    PROVE  Hidden(name, from) <=> HiddenBy(at, name, from)
<1>1. ASSUME NEW p \in HidesOf(name, from)
      PROVE  HiddenBy(at, name, from)
    <2>1. p \in HidePatterns /\ NameOf(p) = name /\ program[at].imports[p[1]].from = from
        BY <1>1 DEF HidesOf
    <2>2. PICK i \in DOMAIN program[at].imports :
            program[at].imports[i].hiding /\ \E j \in DOMAIN program[at].imports[i].names : p = <<i, j>>
        BY <2>1, HidePatternsAre
    <2>3. PICK j \in DOMAIN program[at].imports[i].names : p = <<i, j>>
        BY <2>2
    <2>4. name \in Range(program[at].imports[i].names)
        BY <2>1, <2>3 DEF NameOf, Range
    <2> QED
        BY <2>1, <2>2, <2>3, <2>4 DEF HiddenBy
<1>2. ASSUME HiddenBy(at, name, from)
      PROVE  Hidden(name, from)
    <2>1. PICK i \in DOMAIN program[at].imports :
            /\ program[at].imports[i].hiding /\ program[at].imports[i].from = from
            /\ name \in Range(program[at].imports[i].names)
        BY <1>2 DEF HiddenBy
    <2>2. PICK j \in DOMAIN program[at].imports[i].names : program[at].imports[i].names[j] = name
        BY <2>1 DEF Range
    <2> DEFINE p == <<i, j>>
    <2>3. p \in HidePatterns
        BY <2>1, <2>2, HidePatternsAre
    <2>4. NameOf(p) = name /\ program[at].imports[p[1]].from = from
        BY <2>1, <2>2 DEF NameOf
    <2> QED
        BY <2>3, <2>4 DEF HidesOf, Hidden
<1> QED
    BY <1>1, <1>2 DEF Hidden

LEMMA OneSource ==
    ASSUME Shape, NEW name, NEW source \in ModulesNamed(name)
    PROVE  source \in Modules /\ ModulesNamed(name) = {source}
BY DEF Shape, ModulesNamed

\* An import selects, of what its source exports, what its list means of it, and
\* has a name that stands for nothing iff the list names something not exported.
LEMMA ImportSelects ==
    ASSUME IInv, Exact, stage = "import", NEW i \in DOMAIN program[at].imports, ~program[at].imports[i].hiding,
           NEW source \in ModulesNamed(program[at].imports[i].from), NEW selected,
           selected = Selected(program[at].imports[i].list, exported[source])
    PROVE  /\ Brings(at, i) = selected.items
           /\ BringsFields(at, i) = FieldsAmong(selected.members)
           /\ Names(at, i) = {e.name : e \in selected.items \cup selected.members}
           /\ ListReason(at, i) <=> Unmatched(program[at].imports[i].list, exported[source]) # {}
<1> DEFINE list == program[at].imports[i].list
           available == exported[source]
           I == available.items
           M == available.members
<1>1. /\ source \in Modules /\ ModulesNamed(program[at].imports[i].from) = {source}
      /\ list \in ListShape /\ Shape
    BY OneSource, ImportParts DEF IInv, Shape
<1>2. /\ members[source] = MembersOf(source)
      /\ I = Exports(source) /\ FieldsAmong(M) = FieldsIn(program[source].exports, source)
      /\ I \subseteq ItemsOf(source) /\ ClassClosed(I)
      /\ M \subseteq MembersOf(source) /\ FieldClosed(M, source)
      /\ VariantsOf(I) = VariantsOf(M)
    BY <1>1, ExportedFacts DEF Exact
<1>3. selected.items = SelectedItems(list, I) /\ selected.members = SelectedMembers(list, M)
    BY DEF Selected
<1>4. Brings(at, i) = selected.items
    <2>1. Brings(at, i) = ItemsIn(list, source) \cap Exports(source)
        BY <1>1 DEF Brings
    <2>2. SelectedItems(list, I) = ItemsIn(list, source) \cap I
        BY <1>1, <1>2, SelectedItemsMeant
    <2> QED
        BY <1>2, <1>3, <2>1, <2>2
<1>5. BringsFields(at, i) = FieldsAmong(selected.members)
    <2>1. BringsFields(at, i) = FieldsIn(list, source) \cap FieldsIn(program[source].exports, source)
        BY <1>1 DEF BringsFields
    <2>2. FieldsAmong(SelectedMembers(list, M)) = FieldsIn(list, source) \cap M
        BY <1>1, <1>2, SelectedFieldsMeant
    <2>3. FieldsAmong(selected.members) \subseteq FieldsAmong(M)
        BY <1>3, <2>2 DEF FieldsAmong
    <2> QED
        BY <1>2, <1>3, <2>1, <2>2, <2>3 DEF FieldsAmong
<1>6. Names(at, i) = {e.name : e \in selected.items \cup selected.members}
    <2>1. VariantsOf(selected.items) = VariantsOf(selected.members) /\ selected.members \subseteq M
        BY <1>2, <1>3, SelectedVariants
    <2>2. \A f \in selected.members : f.kind \in {"field", "variant"}
        BY <1>1, <1>2, <2>1, MemberFacts
    <2>3. selected.items \cup FieldsAmong(selected.members) = selected.items \cup selected.members
        BY <2>1, <2>2 DEF VariantsOf, FieldsAmong
    <2> QED
        BY <1>4, <1>5, <2>3 DEF Names
<1>7. ListReason(at, i) <=> Unmatched(list, available) # {}
    <2> DEFINE F == FieldsIn(program[source].exports, source)
    <2>1. FieldsAmong(M) \subseteq F /\ F \subseteq M
        BY <1>2 DEF FieldsAmong
    <2>2. ListReason(at, i) <=> Empty(list, source, I, F)
        BY <1>1, <1>2 DEF ListReason
    <2> HIDE DEF list, available, F
    <2>3. Unmatched(list, available) # {} <=> Empty(list, source, available.items, F)
        BY <1>1, <1>2, <2>1, UnmatchedMeant
    <2> QED
        BY <2>2, <2>3
<1> QED
    BY <1>4, <1>5, <1>6, <1>7

\* What an import that is passed over brings.
LEMMA ImportPasses ==
    ASSUME NEW m, NEW i, program[m].imports[i].hiding \/ ModulesNamed(program[m].imports[i].from) = {}
    PROVE  BroughtBy(m, i) = {} /\ FieldsBroughtBy(m, i) = {} /\ Names(m, i) = {} /\ ~ListReason(m, i)
<1>1. Brings(m, i) = {} /\ BringsFields(m, i) = {}
    BY DEF Brings, BringsFields
<1> QED
    BY <1>1 DEF BroughtBy, FieldsBroughtBy, Names, ListReason

\* An import brings what it is meant to and marks the first patterns of the names
\* it brings; what is reported is a reason to reject the program.
LEMMA ImportAdds ==
    ASSUME IInv, Exact, ProcessImport
    PROVE  /\ nr \in DOMAIN program[at].imports
           /\ Triples(imported'[at]) = Triples(imported[at]) \cup BroughtBy(at, nr)
           /\ FieldEntries(importedMembers'[at]) = FieldEntries(importedMembers[at]) \cup FieldsBroughtBy(at, nr)
           /\ matched' = matched \cup {p \in HidePatterns : IsFirst(p) /\ Used(p, nr)}
           /\ errors' # {} <=> errors # {} \/ ListReason(at, nr)
<1> DEFINE import == program[at].imports[nr]
           from == import.from
<1>1. stage = "import" /\ at \in Modules /\ nr \in Nat \ {0} /\ nr <= Len(program[at].imports)
    BY DEF ProcessImport, IInv, Shape
<1>2. nr \in DOMAIN program[at].imports
    <2>1. program[at].imports \in Seq(ImportShape)
        BY <1>1, DeclKindsOf, ModuleParts DEF IInv
    <2> QED
        BY <1>1, <2>1, LenProperties
<1>3. CASE import.hiding \/ ModulesNamed(from) = {}
    <2>1. UNCHANGED <<imported, importedMembers, matched, errors>>
        BY <1>3 DEF ProcessImport
    <2>2. BroughtBy(at, nr) = {} /\ FieldsBroughtBy(at, nr) = {} /\ Names(at, nr) = {} /\ ~ListReason(at, nr)
        BY <1>3, ImportPasses
    <2>3. {p \in HidePatterns : IsFirst(p) /\ Used(p, nr)} = {}
        BY <2>2 DEF Used
    <2> QED
        BY <1>2, <2>1, <2>2, <2>3
<1>4. ASSUME ~import.hiding, NEW source \in ModulesNamed(from), ImportList(import, source)
      PROVE  /\ Triples(imported'[at]) = Triples(imported[at]) \cup BroughtBy(at, nr)
             /\ FieldEntries(importedMembers'[at]) = FieldEntries(importedMembers[at]) \cup FieldsBroughtBy(at, nr)
             /\ matched' = matched \cup {p \in HidePatterns : IsFirst(p) /\ Used(p, nr)}
             /\ errors' # {} <=> errors # {} \/ ListReason(at, nr)
    <2> DEFINE selected == Selected(import.list, exported[source])
               visible(entries) == {e \in entries : ~Hidden(e.name, from)}
               shown == visible(selected.items)
               plain == IF import.as = None THEN shown ELSE {}
               namespace == IF import.as = None THEN from ELSE import.as
               brought == Entries(shown, namespace, import.as = None, nr)
               fields == {[member |-> f, by |-> nr] : f \in visible(selected.members)}
               names == {e.name : e \in selected.items \cup selected.members}
               unmatched == Unmatched(import.list, exported[source])
    <2>1. /\ imported' = [imported EXCEPT ![at] = imported[at] \cup brought]
          /\ importedMembers' = [importedMembers EXCEPT ![at] = importedMembers[at] \cup fields]
        BY <1>4 DEF ImportList
    <2>2. matched' = MarkHides(names, from)
        BY <1>4 DEF ImportList
    <2>3. errors' = errors \cup {Error("ImportNoMatch", at, n) : n \in unmatched}
        BY <1>4 DEF ImportList
    <2>4. /\ Brings(at, nr) = selected.items
          /\ BringsFields(at, nr) = FieldsAmong(selected.members)
          /\ Names(at, nr) = names
          /\ ListReason(at, nr) <=> unmatched # {}
        <3> HIDE DEF selected
        <3> QED
            BY <1>1, <1>2, <1>4, ImportSelects DEF selected
    <2>5. \A name : Hidden(name, from) <=> HiddenBy(at, name, from)
        BY <1>4, HiddenMeant
    <2>6. imported'[at] = imported[at] \cup brought /\ importedMembers'[at] = importedMembers[at] \cup fields
        BY <1>1, <2>1 DEF IInv, Shape
    <2>7. Triples(brought) = BroughtBy(at, nr)
        <3>1. EntriesFor(brought, shown, plain, namespace, nr)
            BY DEF Entries, EntriesFor
        <3>2. \A item : item \in shown <=> item \in Brings(at, nr) /\ ~HiddenBy(at, item.name, from)
            BY <2>4, <2>5
        <3>3. \A item : Paths(at, nr, item) =
                IF HiddenBy(at, item.name, from) THEN {}
                ELSE IF import.as = None THEN {<<item.name>>, <<from, item.name>>}
                ELSE {<<import.as, item.name>>}
            BY DEF Paths
        <3> HIDE DEF brought, shown
        <3>4. \A t : t \in Triples(brought) <=>
                \/ \E i \in shown : t = <<<<namespace, i.name>>, i, nr>>
                \/ \E i \in plain : t = <<<<i.name>>, i, nr>>
            <4> HIDE DEF plain, namespace
            <4> QED
                BY <3>1, EntriesTriples
        <3>5. \A t : t \in BroughtBy(at, nr) <=>
                \E item \in Brings(at, nr) : \E path \in Paths(at, nr, item) : t = <<path, item, nr>>
            BY BroughtByAre
        <3>6. CASE import.as = None
            <4>1. \A t : t \in Triples(brought) <=>
                    \/ \E i \in shown : t = <<<<from, i.name>>, i, nr>>
                    \/ \E i \in shown : t = <<<<i.name>>, i, nr>>
                BY <3>4, <3>6
            <4>2. \A t : t \in BroughtBy(at, nr) <=>
                    \E item \in shown : \E path \in {<<item.name>>, <<from, item.name>>} : t = <<path, item, nr>>
                BY <3>2, <3>3, <3>5, <3>6
            <4> QED
                BY <4>1, <4>2
        <3>7. CASE import.as # None
            <4>1. \A t : t \in Triples(brought) <=> \E i \in shown : t = <<<<import.as, i.name>>, i, nr>>
                BY <3>4, <3>7
            <4>2. \A t : t \in BroughtBy(at, nr) <=>
                    \E item \in shown : \E path \in {<<import.as, item.name>>} : t = <<path, item, nr>>
                BY <3>2, <3>3, <3>5, <3>7
            <4> QED
                BY <4>1, <4>2
        <3> QED
            BY <3>6, <3>7
    <2>8. FieldEntries(fields) = FieldsBroughtBy(at, nr)
        <3> DEFINE shownMembers == visible(selected.members)
        <3>1. FieldsAmong(shownMembers) = {f \in BringsFields(at, nr) : ~HiddenBy(at, f.name, from)}
            BY <2>4, <2>5 DEF FieldsAmong
        <3>2. \A x : x \in FieldEntries(fields) <=> \E f \in FieldsAmong(shownMembers) : x = <<f, nr>>
            BY MembersPairs
        <3>3. \A x : x \in FieldsBroughtBy(at, nr) <=>
                \E f \in {f \in BringsFields(at, nr) : ~HiddenBy(at, f.name, from)} : x = <<f, nr>>
            BY DEF FieldsBroughtBy
        <3> HIDE DEF fields, shownMembers
        <3> QED
            BY <3>1, <3>2, <3>3
    <2>9. matched' = matched \cup {p \in HidePatterns : IsFirst(p) /\ Used(p, nr)}
        <3>1. \A p : p \in matched' <=>
                \/ p \in matched
                \/ \E name \in names : p \in HidesOf(name, from) /\ \A q \in HidesOf(name, from) : ~Earlier(q, p)
            BY <2>2 DEF MarkHides
        <3>2. \A p, name : p \in HidesOf(name, from) <=> p \in HidePatterns /\ NameOf(p) = name /\ SourceOf(p) = from
            BY DEF HidesOf, SourceOf
        <3> HIDE DEF names
        <3>3. \A p : Used(p, nr) <=> SourceOf(p) = from /\ NameOf(p) \in names
            BY <2>4 DEF Used
        <3> QED
            BY <3>1, <3>2, <3>3 DEF IsFirst
    <2>10. errors' # {} <=> errors # {} \/ ListReason(at, nr)
        <3> HIDE DEF unmatched
        <3> QED
            BY <2>3, <2>4
    <2> HIDE DEF brought, fields, names, shown, selected, unmatched, namespace, plain
    <2>11. Triples(imported'[at]) = Triples(imported[at]) \cup BroughtBy(at, nr)
        <3>1. Triples(imported[at] \cup brought) = Triples(imported[at]) \cup Triples(brought)
            BY EntriesAdded
        <3> QED
            BY <2>6, <2>7, <3>1
    <2>12. FieldEntries(importedMembers'[at]) = FieldEntries(importedMembers[at]) \cup FieldsBroughtBy(at, nr)
        <3>1. FieldEntries(importedMembers[at] \cup fields) = FieldEntries(importedMembers[at]) \cup FieldEntries(fields)
            BY EntriesAdded
        <3> QED
            BY <2>6, <2>8, <3>1
    <2> QED
        BY <2>9, <2>10, <2>11, <2>12
<1> QED
    BY <1>2, <1>3, <1>4 DEF ProcessImport

LEMMA SameHides ==
    ASSUME program' = program, at' = at
    PROVE  /\ HidePatterns' = HidePatterns
           /\ \A p : (IsFirst(p)' <=> IsFirst(p)) /\ \A i : Used(p, i)' <=> Used(p, i)
<1>1. \A name : ModulesNamed(name)' = ModulesNamed(name)
    BY DEF ModulesNamed, Modules
<1>2. HidePatterns' = HidePatterns
    BY <1>1 DEF HidePatterns
<1>3. \A p : NameOf(p)' = NameOf(p) /\ SourceOf(p)' = SourceOf(p)
    BY DEF NameOf, SourceOf
<1>4. \A name, from : HidesOf(name, from)' = HidesOf(name, from)
    BY <1>2, <1>3 DEF HidesOf
<1>5. \A p : IsFirst(p)' <=> IsFirst(p)
    BY <1>3, <1>4 DEF IsFirst, Earlier
<1>6. \A m, i : Names(m, i)' = Names(m, i)
    BY SameProgram
<1>7. \A p, i : Used(p, i)' <=> Used(p, i)
    BY <1>3, <1>6 DEF Used
<1> QED
    BY <1>2, <1>5, <1>7

LEMMA ProcessImportExact == IInv /\ Exact /\ ProcessImport => Exact'
<1> SUFFICES ASSUME IInv, Exact, ProcessImport
             PROVE  Exact'
    OBVIOUS
<1>1. /\ program' = program /\ stage = "import" /\ stage' = "import" /\ nr' = nr + 1
      /\ UNCHANGED <<items, members, exported, at>>
    BY DEF ProcessImport
<1>2. /\ Modules' = Modules /\ Len(program) \in Nat \ {0} /\ Modules = 1..Len(program) /\ at \in 1..Len(program)
      /\ nr \in Nat \ {0}
    BY <1>1, ModuleNumbers, SameProgram DEF IInv
<1>3. \A m \in Modules \ {at} : imported'[m] = imported[m] /\ importedMembers'[m] = importedMembers[m]
    BY <1>2 DEF ProcessImport, ImportList, IInv, Shape
<1>4. \A m : /\ ItemsOf(m)' = ItemsOf(m) /\ MembersOf(m)' = MembersOf(m) /\ Exports(m)' = Exports(m)
             /\ FieldsIn(program[m].exports, m)' = FieldsIn(program[m].exports, m)
             /\ OwnPaths(m)' = OwnPaths(m) /\ OwnFields(m)' = OwnFields(m)
             /\ (Doubled(m)' <=> Doubled(m)) /\ (ExportReason(m)' <=> ExportReason(m))
             /\ (NotFound(m)' <=> NotFound(m)) /\ (ImportReason(m)' <=> ImportReason(m))
    BY <1>1, SameProgram
<1>5. \A m, i : /\ BroughtBy(m, i)' = BroughtBy(m, i) /\ FieldsBroughtBy(m, i)' = FieldsBroughtBy(m, i)
                /\ (ListReason(m, i)' <=> ListReason(m, i)) /\ Names(m, i)' = Names(m, i)
    BY <1>1, SameProgram
<1>6. nr \in DOMAIN program[at].imports
    BY ImportAdds
<1>7. \A m \in Modules : m = at => Processed(m)' = Processed(m) \cup {nr}
    <2>1. program[at].imports \in Seq(ImportShape)
        BY <1>2, DeclKindsOf, ModuleParts DEF IInv
    <2>2. \A i \in DOMAIN program[at].imports : i \in Nat
        BY <2>1, LenProperties
    <2>3. \A m \in Modules : m = at => ~IsDone(m) /\ ~IsDone(m)'
        BY <1>1, <1>2 DEF IsDone
    <2> QED
        BY <1>1, <1>2, <1>6, <2>2, <2>3 DEF Processed
<1>8. DeclaredExact' /\ ExportedExact'
    <2>1. DeclaredExact'
        BY <1>1, <1>2, <1>4 DEF Exact, DeclaredExact
    <2>2. ExportedExact'
        BY <1>1, <1>2, <1>4 DEF Exact, ExportedExact, IsExported, FieldsAmong
    <2> QED
        BY <2>1, <2>2
<1>9. ImportedExact'
    <2>1. \A m \in Modules \ {at} : IsStarted(m)' =>
            /\ Triples(imported'[m]) = VisibleSoFar(m)'
            /\ FieldEntries(importedMembers'[m]) = FieldsSoFar(m)'
        BY <1>1, <1>3, OthersKept
    <2>2. ASSUME NEW m \in Modules, m = at
          PROVE  Triples(imported'[m]) = VisibleSoFar(m)' /\ FieldEntries(importedMembers'[m]) = FieldsSoFar(m)'
        <3>1. Processed(m)' = Processed(m) \cup {nr}
            BY <1>7, <2>2
        <3>2. VisibleSoFar(m)' = VisibleSoFar(m) \cup BroughtBy(m, nr)
            BY <1>4, <1>5, <3>1 DEF VisibleSoFar
        <3>3. FieldsSoFar(m)' = FieldsSoFar(m) \cup FieldsBroughtBy(m, nr)
            BY <1>4, <1>5, <3>1 DEF FieldsSoFar
        <3>4. Triples(imported[m]) = VisibleSoFar(m) /\ FieldEntries(importedMembers[m]) = FieldsSoFar(m)
            BY <1>1, <2>2 DEF Exact, ImportedExact, IsStarted
        <3> QED
            BY <2>2, <3>2, <3>3, <3>4, ImportAdds
    <2>3. \A m \in Modules : IsStarted(m)' =>
            Triples(imported'[m]) = VisibleSoFar(m)' /\ FieldEntries(importedMembers'[m]) = FieldsSoFar(m)'
        BY <2>1, <2>2
    <2>4. \A m : Triples(imported'[m]) = Triples(imported[m])' /\
                 FieldEntries(importedMembers'[m]) = FieldEntries(importedMembers[m])'
        BY DEF Triples, FieldEntries
    <2> QED
        BY <1>2, <2>3, <2>4 DEF ImportedExact
<1>10. MatchedExact'
    <2>1. matched = {p \in HidePatterns : IsFirst(p) /\ \E i \in Processed(at) : Used(p, i)}
        BY <1>1 DEF Exact, MatchedExact
    <2>2. matched' = matched \cup {p \in HidePatterns : IsFirst(p) /\ Used(p, nr)}
        BY ImportAdds
    <2>3. HidePatterns' = HidePatterns /\ \A p : (IsFirst(p)' <=> IsFirst(p)) /\ \A i : Used(p, i)' <=> Used(p, i)
        BY <1>1, SameHides
    <2>4. \A i : i \in Processed(at)' <=> i \in Processed(at) \cup {nr}
        BY <1>1, <1>2, <1>7
    <2>5. matched' = {p \in HidePatterns' : IsFirst(p)' /\ \E i \in Processed(at)' : Used(p, i)'}
        BY <2>1, <2>2, <2>3, <2>4
    <2> QED
        BY <2>5 DEF MatchedExact
<1>11. ReportedExact'
    <2>1. /\ \A m \in Modules : ~Doubled(m) /\ ~ExportReason(m)
          /\ errors # {} <=> \/ \E m \in Modules : m < at /\ ImportReason(m)
                             \/ NotFound(at)
                             \/ \E i \in Processed(at) : ListReason(at, i)
        BY <1>1 DEF Exact, ReportedExact
    <2>2. errors' # {} <=> errors # {} \/ ListReason(at, nr)
        BY ImportAdds
    <2> QED
        BY <1>1, <1>2, <1>4, <1>5, <1>7, <2>1, <2>2 DEF ReportedExact
<1> QED
    BY <1>8, <1>9, <1>10, <1>11 DEF Exact

\* Once all imports are processed, the patterns that hid nothing are those that
\* are a reason to reject the program.
LEMMA UnusedMeant ==
    ASSUME IInv, Exact, EndImports
    PROVE  NotFound(at) \/ (\E i \in Processed(at) : ListReason(at, i)) \/ HidePatterns \ matched # {}
           <=> ImportReason(at)
<1> DEFINE imports == program[at].imports
<1>1. stage = "import" /\ at \in Modules /\ nr \in Nat \ {0} /\ nr > Len(imports)
    BY DEF EndImports, IInv, Shape
<1>2. /\ imports \in Seq(ImportShape) /\ Len(imports) \in Nat
      /\ DOMAIN imports = 1..Len(imports)
    BY <1>1, DeclKindsOf, ModuleParts, LenProperties DEF IInv
<1>3. Processed(at) = DOMAIN imports
    BY <1>1, <1>2 DEF Processed
<1>4. \A p : p \in matched <=> p \in HidePatterns /\ IsFirst(p) /\ \E i \in DOMAIN imports : Used(p, i)
    BY <1>1, <1>3 DEF Exact, MatchedExact
<1>5. ASSUME NEW p \in HidePatterns, p \notin matched
      PROVE  \E i \in DOMAIN imports : HideReason(at, i)
    <2>1. PICK i \in DOMAIN imports :
            /\ imports[i].hiding /\ ModulesNamed(imports[i].from) # {}
            /\ \E k \in DOMAIN imports[i].names : p = <<i, k>>
        BY <1>5, HidePatternsAre
    <2>2. PICK k \in DOMAIN imports[i].names : p = <<i, k>>
        BY <2>1
    <2>3. NameOf(p) = imports[i].names[k] /\ SourceOf(p) = imports[i].from
        BY <2>2 DEF NameOf, SourceOf
    <2>4. CASE \A j \in DOMAIN imports : ~Used(p, j)
        BY <2>1, <2>2, <2>3, <2>4 DEF Used, HideReason
    <2>5. CASE ~IsFirst(p)
        <3>1. PICK q \in HidesOf(NameOf(p), SourceOf(p)) : Earlier(q, p)
            BY <2>5 DEF IsFirst
        <3>2. q \in HidePatterns /\ NameOf(q) = NameOf(p) /\ imports[q[1]].from = SourceOf(p)
            BY <3>1 DEF HidesOf
        <3>3. PICK j \in DOMAIN imports :
                imports[j].hiding /\ \E l \in DOMAIN imports[j].names : q = <<j, l>>
            BY <3>2, HidePatternsAre
        <3>4. PICK l \in DOMAIN imports[j].names : q = <<j, l>>
            BY <3>3
        <3>5. j < i \/ (j = i /\ l < k)
            BY <2>2, <3>1, <3>4 DEF Earlier
        <3>6. j \in 1..i
            BY <1>2, <3>5
        <3>7. imports[j].names[l] = imports[i].names[k] /\ imports[j].from = imports[i].from
            BY <2>3, <3>2, <3>4 DEF NameOf
        <3> QED
            BY <2>1, <3>3, <3>5, <3>6, <3>7 DEF HideReason
    <2> QED
        BY <1>4, <1>5, <2>4, <2>5
<1>6. ASSUME NEW i \in DOMAIN imports, HideReason(at, i), ~NotFound(at)
      PROVE  HidePatterns \ matched # {}
    <2>1. imports[i].hiding /\ ModulesNamed(imports[i].from) # {}
        BY <1>6 DEF HideReason, NotFound
    <2>2. PICK k \in DOMAIN imports[i].names :
            \/ \A j \in DOMAIN imports : imports[j].from # imports[i].from \/ imports[i].names[k] \notin Names(at, j)
            \/ \E j \in 1 .. i :
                /\ imports[j].hiding /\ imports[j].from = imports[i].from
                /\ \E l \in DOMAIN imports[j].names :
                    imports[j].names[l] = imports[i].names[k] /\ (j < i \/ l < k)
        BY <1>6 DEF HideReason
    <2> DEFINE p == <<i, k>>
    <2>3. p \in HidePatterns
        BY <2>1, HidePatternsAre
    <2>4. NameOf(p) = imports[i].names[k] /\ SourceOf(p) = imports[i].from
        BY DEF NameOf, SourceOf
    <2>5. CASE \A j \in DOMAIN imports : imports[j].from # imports[i].from \/ imports[i].names[k] \notin Names(at, j)
        <3>1. \A j \in DOMAIN imports : ~Used(p, j)
            BY <2>4, <2>5 DEF Used
        <3> HIDE DEF p
        <3> QED
            BY <1>4, <2>3, <3>1
    <2>6. ASSUME NEW j \in 1..i, imports[j].hiding, imports[j].from = imports[i].from,
                 NEW l \in DOMAIN imports[j].names, imports[j].names[l] = imports[i].names[k], j < i \/ l < k
          PROVE  p \notin matched
        <3> DEFINE q == <<j, l>>
        <3>1. j \in DOMAIN imports
            BY <1>2, <2>6
        <3>2. q \in HidePatterns
            BY <2>1, <2>6, <3>1, HidePatternsAre
        <3>3. NameOf(q) = NameOf(p) /\ program[at].imports[q[1]].from = SourceOf(p)
            BY <2>4, <2>6 DEF NameOf
        <3>4. Earlier(q, p)
            BY <1>2, <2>6 DEF Earlier
        <3> HIDE DEF p, q
        <3>5. ~IsFirst(p)
            BY <3>2, <3>3, <3>4 DEF IsFirst, HidesOf
        <3> QED
            BY <1>4, <3>5
    <2> QED
        BY <2>2, <2>3, <2>5, <2>6
<1> QED
    BY <1>3, <1>5, <1>6 DEF ImportReason

LEMMA EndImportsExact == IInv /\ Exact /\ EndImports => Exact'
<1> SUFFICES ASSUME IInv, Exact, EndImports
             PROVE  Exact'
    OBVIOUS
<1>1. /\ program' = program /\ stage = "import"
      /\ UNCHANGED <<items, members, exported, imported, importedMembers, matched, nr>>
    BY DEF EndImports
<1>2. Modules' = Modules /\ Len(program) \in Nat \ {0} /\ Modules = 1..Len(program) /\ at \in 1..Len(program)
    BY <1>1, ModuleNumbers, SameProgram DEF IInv
<1>3. \/ at < Len(program) /\ at' = at + 1 /\ stage' = "imports"
      \/ at = Len(program) /\ at' = at /\ stage' = IF errors' = {} THEN "resolved" ELSE "rejected"
    <2>1. /\ at < Len(program) => at' = at + 1 /\ stage' = "imports"
          /\ ~(at < Len(program)) => at' = at /\ Gate("resolved")
        BY DEF EndImports
    <2> QED
        BY <1>1, <1>2, <2>1 DEF Gate
<1>4. \A m : /\ ItemsOf(m)' = ItemsOf(m) /\ MembersOf(m)' = MembersOf(m) /\ Exports(m)' = Exports(m)
             /\ FieldsIn(program[m].exports, m)' = FieldsIn(program[m].exports, m)
             /\ OwnPaths(m)' = OwnPaths(m) /\ OwnFields(m)' = OwnFields(m)
             /\ (Doubled(m)' <=> Doubled(m)) /\ (ExportReason(m)' <=> ExportReason(m))
             /\ (NotFound(m)' <=> NotFound(m)) /\ (ImportReason(m)' <=> ImportReason(m))
    BY <1>1, SameProgram
<1>5. \A m, i : BroughtBy(m, i)' = BroughtBy(m, i) /\ FieldsBroughtBy(m, i)' = FieldsBroughtBy(m, i)
    BY <1>1, SameProgram
<1>6. errors' # {} <=> \E m \in Modules : (m < at \/ m = at) /\ ImportReason(m)
    <2>1. errors # {} <=> \/ \E m \in Modules : m < at /\ ImportReason(m)
                          \/ NotFound(at)
                          \/ \E i \in Processed(at) : ListReason(at, i)
        BY <1>1 DEF Exact, ReportedExact
    <2> DEFINE unused == HidePatterns \ matched
    <2>2. errors' = errors \cup {Error("UnusedHiddenItem", at, NameOf(p)) : p \in unused}
        BY DEF EndImports
    <2>3. NotFound(at) \/ (\E i \in Processed(at) : ListReason(at, i)) \/ unused # {} <=> ImportReason(at)
        BY UnusedMeant
    <2> HIDE DEF unused
    <2>4. errors' # {} <=> errors # {} \/ unused # {}
        BY <2>2
    <2> QED
        BY <1>2, <2>1, <2>3, <2>4
<1>7. DeclaredExact' /\ ExportedExact'
    <2>1. DeclaredExact'
        BY <1>1, <1>2, <1>4 DEF Exact, DeclaredExact
    <2>2. ExportedExact'
        BY <1>1, <1>2, <1>3, <1>4 DEF Exact, ExportedExact, IsExported, FieldsAmong
    <2> QED
        BY <2>1, <2>2
<1>8. ImportedExact'
    <2>1. ASSUME NEW m \in Modules, IsStarted(m)'
          PROVE  IsStarted(m) /\ Processed(m)' = Processed(m)
        <3>1. (m < at \/ m = at) /\ IsDone(m)'
            BY <1>2, <1>3, <2>1 DEF IsStarted, IsDone
        <3>2. IsStarted(m)
            BY <1>1, <3>1 DEF IsStarted, IsDone
        <3>3. Processed(m)' = DOMAIN program[m].imports
            BY <1>1, <3>1 DEF Processed
        <3>4. Processed(m) = DOMAIN program[m].imports
            <4>1. CASE m < at
                BY <1>1, <4>1 DEF Processed, IsDone
            <4>2. CASE m = at
                <5>1. program[at].imports \in Seq(ImportShape)
                    BY <1>2, DeclKindsOf, ModuleParts DEF IInv
                <5>2. nr > Len(program[at].imports) /\ nr \in Nat
                    BY ModuleNumbers DEF EndImports, IInv
                <5>3. \A i \in DOMAIN program[at].imports : i < nr
                    BY <5>1, <5>2, LenProperties
                <5> QED
                    BY <4>2, <5>3 DEF Processed
            <4> QED
                BY <3>1, <4>1, <4>2
        <3> QED
            BY <3>2, <3>3, <3>4
    <2>2. ASSUME NEW m \in Modules, IsStarted(m)'
          PROVE  VisibleSoFar(m)' = VisibleSoFar(m) /\ FieldsSoFar(m)' = FieldsSoFar(m)
        <3>1. Processed(m)' = Processed(m)
            BY <2>1, <2>2
        <3> QED
            BY <1>4, <1>5, <3>1 DEF VisibleSoFar, FieldsSoFar
    <2>3. \A m \in Modules : IsStarted(m)' =>
            Triples(imported[m]) = VisibleSoFar(m)' /\ FieldEntries(importedMembers[m]) = FieldsSoFar(m)'
        BY <2>1, <2>2 DEF Exact, ImportedExact
    <2>4. \A m : /\ Triples(imported[m])' = Triples(imported[m])
                 /\ FieldEntries(importedMembers[m])' = FieldEntries(importedMembers[m])
        BY <1>1 DEF Triples, FieldEntries
    <2> QED
        BY <1>2, <2>3, <2>4 DEF ImportedExact
<1>9. MatchedExact'
    BY <1>3 DEF MatchedExact
<1>10. ReportedExact'
    <2>1. \A m \in Modules : ~Doubled(m) /\ ~ExportReason(m)
        BY <1>1 DEF Exact, ReportedExact
    <2>2. CASE at < Len(program) /\ at' = at + 1 /\ stage' = "imports"
        <3>1. \A m \in Modules : m < at' <=> m < at \/ m = at
            BY <1>2, <2>2
        <3> QED
            BY <1>2, <1>4, <1>6, <2>1, <2>2, <3>1 DEF ReportedExact
    <2>3. CASE at = Len(program) /\ stage' = IF errors' = {} THEN "resolved" ELSE "rejected"
        <3>1. \A m \in Modules : m < at \/ m = at
            BY <1>2, <2>3
        <3>2. errors' # {} <=> \E m \in Modules : ImportReason(m)
            BY <1>6, <3>1
        <3>3. errors' # {} => Reasons'
            BY <1>1, <3>2, SameProgram DEF Reasons
        <3> QED
            BY <1>2, <1>4, <2>1, <2>3, <3>2, <3>3 DEF ReportedExact
    <2> QED
        BY <1>3, <2>2, <2>3
<1> QED
    BY <1>7, <1>8, <1>9, <1>10 DEF Exact

LEMMA StutterExact == Exact /\ UNCHANGED vars => Exact'
<1> SUFFICES ASSUME Exact, UNCHANGED vars
             PROVE  Exact'
    OBVIOUS
<1>1. /\ program' = program
      /\ UNCHANGED <<items, members, exported, imported, importedMembers, matched, at, nr, errors, stage>>
    BY DEF vars
<1>2. /\ Modules' = Modules /\ (Reasons' <=> Reasons)
      /\ \A m : /\ ItemsOf(m)' = ItemsOf(m) /\ MembersOf(m)' = MembersOf(m) /\ Exports(m)' = Exports(m)
                /\ FieldsIn(program[m].exports, m)' = FieldsIn(program[m].exports, m)
                /\ OwnPaths(m)' = OwnPaths(m) /\ OwnFields(m)' = OwnFields(m)
                /\ (Doubled(m)' <=> Doubled(m)) /\ (ExportReason(m)' <=> ExportReason(m))
                /\ (NotFound(m)' <=> NotFound(m)) /\ (ImportReason(m)' <=> ImportReason(m))
    BY <1>1, SameProgram
<1>3. \A m, i : /\ BroughtBy(m, i)' = BroughtBy(m, i) /\ FieldsBroughtBy(m, i)' = FieldsBroughtBy(m, i)
                /\ (ListReason(m, i)' <=> ListReason(m, i))
    BY <1>1, SameProgram
<1>4. \A m : (IsStarted(m)' <=> IsStarted(m)) /\ Processed(m)' = Processed(m)
    BY <1>1 DEF IsStarted, IsDone, Processed
<1>5. DeclaredExact'
    BY <1>1, <1>2 DEF Exact, DeclaredExact
<1>6. ExportedExact'
    BY <1>1, <1>2 DEF Exact, ExportedExact, IsExported, FieldsAmong
<1>7. ImportedExact'
    <2>1. \A m : VisibleSoFar(m)' = VisibleSoFar(m) /\ FieldsSoFar(m)' = FieldsSoFar(m)
        BY <1>2, <1>3, <1>4 DEF VisibleSoFar, FieldsSoFar
    <2>2. \A m : /\ Triples(imported[m])' = Triples(imported[m])
                 /\ FieldEntries(importedMembers[m])' = FieldEntries(importedMembers[m])
        BY <1>1 DEF Triples, FieldEntries
    <2> QED
        BY <1>2, <1>4, <2>1, <2>2 DEF Exact, ImportedExact
<1>8. MatchedExact'
    <2>1. Processed(at)' = Processed(at)
        BY <1>1 DEF Processed, IsDone
    <2>2. HidePatterns' = HidePatterns /\ \A p : (IsFirst(p)' <=> IsFirst(p)) /\ \A i : Used(p, i)' <=> Used(p, i)
        BY <1>1, SameHides
    <2> QED
        BY <1>1, <2>1, <2>2 DEF Exact, MatchedExact
<1>9. ReportedExact'
    <2>1. Processed(at)' = Processed(at) /\ (NotFound(at)' <=> NotFound(at))
        BY <1>1, <1>2 DEF Processed, IsDone
    <2> QED
        BY <1>1, <1>2, <1>3, <1>4, <2>1 DEF Exact, ReportedExact
<1> QED
    BY <1>5, <1>6, <1>7, <1>8, <1>9 DEF Exact

-----------------------------------------------------------------------------

LEMMA ExactInvariance == Spec => [](IInv /\ Exact)
<1>1. Init => IInv /\ Exact
    BY InitIInv, InitExact
<1>2. IInv /\ Exact /\ [Next]_vars => (IInv /\ Exact)'
    BY NextIInv, AddImplicitImportExact, RegisterItemsExact, ExportModuleExact, StartImportsExact,
       ProcessImportExact, EndImportsExact, StutterExact DEF Next, Terminated
<1> QED
    BY <1>1, <1>2, PTL DEF Spec

\* Whatever the modules, their lists and the order of their imports, what a path and
\* a field stand for once process_imports is through is what the lists mean of the
\* declarations, with the hides of all imports, the alternative names and the
\* implicit imports of Parser::parse.
THEOREM ImportsMeanLists == Spec => []VisibleExact
<1>1. IInv /\ Exact => VisibleExact
    <2> SUFFICES ASSUME IInv, Exact, stage = "resolved", NEW m \in Modules
                 PROVE  /\ {<<e.path, e.item, e.by>> : e \in imported[m]} = Visible(m)
                        /\ {<<f.member, f.by>> : f \in {f \in importedMembers[m] : f.member.kind = "field"}} =
                            VisibleFields(m)
        BY DEF VisibleExact
    <2>1. IsStarted(m) /\ Processed(m) = DOMAIN program[m].imports
        BY DEF IsStarted, IsDone, Processed
    <2>2. Triples(imported[m]) = VisibleSoFar(m) /\ FieldEntries(importedMembers[m]) = FieldsSoFar(m)
        BY <2>1 DEF Exact, ImportedExact
    <2>3. VisibleSoFar(m) = Visible(m)
        <3>1. VisibleSoFar(m) = OwnPaths(m) \cup UNION {BroughtBy(m, i) : i \in DOMAIN program[m].imports}
            BY <2>1 DEF VisibleSoFar
        <3>2. Visible(m) = OwnPaths(m) \cup UNION {BroughtBy(m, i) : i \in DOMAIN program[m].imports}
            BY DEF Visible
        <3> QED
            BY <3>1, <3>2
    <2>4. FieldsSoFar(m) = VisibleFields(m)
        BY <2>1 DEF FieldsSoFar, VisibleFields
    <2> QED
        BY <2>2, <2>3, <2>4 DEF Triples, FieldEntries
<1> QED
    BY <1>1, ExactInvariance, PTL

\* Whatever the modules, Resolver::resolve rejects a program iff its declarations
\* conflict or one of its lists or hides names something that is not there.
THEOREM RejectedIffReason == Spec => []ReportsExact
<1>1. IInv /\ Exact => ReportsExact
    <2>1. ASSUME Exact, stage = "resolved"
          PROVE  ~Reasons
        BY <2>1 DEF Exact, ReportedExact, Reasons
    <2> QED
        BY <2>1 DEF Exact, ReportedExact, ReportsExact
<1> QED
    BY <1>1, ExactInvariance, PTL
=============================================================================
