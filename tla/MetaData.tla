------------------------------ MODULE MetaData ------------------------------
(***************************************************************************)
(* What the Pisces Gradle plugin makes of the annotated classes that it    *)
(* scans.  A class annotated as an extension or as a widget gives an entry *)
(* with a name and the class to instantiate; a class annotated @Inherited  *)
(* takes over the entry of a superclass; then entries are dropped that a   *)
(* subclass with the same name replaces.                                   *)
(*                                                                         *)
(* Classes are numbered in the order in which they are scanned, which the  *)
(* build does not fix: every hierarchy over the numbers is an initial      *)
(* state.  Classes without an annotation only lengthen the chains of       *)
(* superclasses and are left out.                                          *)
(*                                                                         *)
(* A list of entries keeps the order of the scan whatever is taken out of  *)
(* it.  So it is a function from classes: list[c] is the entry that the    *)
(* annotation of c gave, Null if there is none or no longer any.           *)
(***************************************************************************)
EXTENDS Integers, FiniteSets, FiniteSetsExt

CONSTANTS
    N,      \* bound: annotated classes
    Names,  \* bound: names of extensions and widgets
    Null

Classes == 1 .. N

\* An entry: the class to instantiate, the class whose superclasses it lists, and
\* needDeleteSuperClasses.
Entries == [classname : Classes, supers : Classes, needs : BOOLEAN]

ASSUME MetaDataAssumption ==
    /\ N \in Nat
    /\ Names # {} /\ Null \notin Names \union Entries

VARIABLES
    processor,  \* QuickApp- or GeminiMetaDataProcessor, or "plain" for the event
                \* target and dependency processors, which only remove parents
    parent,     \* parent[c]: the superclass of c, 0 if it is not annotated
    kind,       \* kind[c]: the annotation of c
    name,       \* name[c]: the name in the annotation
    stage,      \* how far process() is
    sons,       \* the @Inherited classes that are still to be resolved
    extensions, \* the list of entries of extensions
    widgets     \* the list of entries of widgets

inputVars == <<processor, parent, kind, name>>
vars == <<inputVars, stage, sons, extensions, widgets>>

-----------------------------------------------------------------------------
(* Class hierarchies *)

\* getSuperclasses: c and its superclasses, from the nearest to the farthest, then 0
Superclasses(c) ==
    LET up[k \in 0 .. N] == IF k = 0 THEN c ELSE IF up[k - 1] = 0 THEN 0 ELSE parent[up[k - 1]]
    IN  up

Ancestors(c) == LET up == Superclasses(c) IN {up[k] : k \in Classes} \ {0}

\* Functions from classes to superclasses without a cycle.
Hierarchies ==
    {p \in [Classes -> 0 .. N] :
        \A S \in (SUBSET Classes) \ {{}} : \E c \in S : p[c] \notin S}

-----------------------------------------------------------------------------

\* map: the entry that the annotation of class c gives
Entry(c) == [classname |-> c, supers |-> c, needs |-> kind[c] # "lenient widget"]

Scanned(kinds) == {c \in Classes : kind[c] \in kinds}

EntriesOf(kinds) == [c \in Classes |-> IF c \in Scanned(kinds) THEN Entry(c) ELSE Null]

\* The classes whose entries are in a list.
In(list) == {c \in Classes : list[c] # Null}

\* supportAnnotation and map of each processor
Annotations ==
    [p \in {"QuickApp", "Gemini", "plain"} |->
        CASE p = "QuickApp" -> {"inherited", "extension", "widget", "lenient widget"}
          [] p = "Gemini"   -> {"inherited", "extension"}
          [] p = "plain"    -> {"target"}]

\* The classes are scanned; process() filters them by annotation.
Init ==
    /\ processor \in {"QuickApp", "Gemini", "plain"}
    /\ parent \in Hierarchies
    /\ kind \in [Classes -> Annotations[processor]]
    /\ name \in [Classes -> Names \union {Null}]
    /\ \A c \in Classes : name[c] = Null <=> kind[c] \in {"inherited", "target"}
    /\ stage = "start"
    /\ sons = Scanned({"inherited"})
    /\ extensions = EntriesOf({"extension", "target"})
    /\ widgets = EntriesOf({"widget", "lenient widget"})

\* replace: what becomes of the entry that @Inherited class c takes over
Renamed(e, c) == [e EXCEPT !.classname = c, !.supers = c, !.needs = TRUE]

\* The first entry for class s, 0 if there is none
Position(list, s) ==
    LET hits == {c \in In(list) : list[c].classname = s}
    IN  IF hits = {} THEN 0 ELSE Min(hits)

\* Mutant: the direct superclass only is looked for.
Found_Direct(list, c) == IF parent[c] = 0 THEN 0 ELSE Position(list, parent[c])

\* The entry that replace finds for c, 0 if none: that of the nearest superclass
\* that has one.
Found(list, c) ==
    LET up   == Superclasses(c)
        hits == {k \in Classes : Position(list, up[k]) # 0}
    IN  IF hits = {} THEN 0 ELSE Position(list, up[Min(hits)])

Lists(e, f) == f.classname \in Ancestors(e.supers)

\* Mutant: the superclasses of the later entry only are looked at.
DeleteCondition_OneSided(i, item, j, other) ==
    IF Lists(item, other) /\ item.needs THEN j ELSE 0

\* The deleteCondition of both lists: which of two entries goes, 0 for none.
\* Extensions have no needDeleteSuperClasses; theirs counts as set.
DeleteCondition(i, item, j, other) ==
    IF Lists(item, other) /\ item.needs THEN j
    ELSE IF Lists(other, item) /\ other.needs THEN i ELSE 0

\* remove, the body of the two loops: entries with different names are skipped.
Compared(list, i, j) ==
    IF list[i] = Null \/ list[j] = Null \/ name[i] # name[j] THEN list
    ELSE LET pos == DeleteCondition(i, list[i], j, list[j])
         IN  IF pos = 0 THEN list ELSE [list EXCEPT ![pos] = Null]

\* remove, the inner loop: entry i is compared with those behind it.
Row(list, i) ==
    LET after[j \in i .. N] == IF j = i THEN list ELSE Compared(after[j - 1], i, j)
    IN  after[N]

\* remove: each entry in turn; its iterator then takes out the nulls.
RemoveParents(list) ==
    LET after[i \in 0 .. N] == IF i = 0 THEN list ELSE Row(after[i - 1], i)
    IN  after[N]

-----------------------------------------------------------------------------

\* QuickAppMetaDataProcessor.process gives up when one of the lists is empty.
Skip ==
    /\ stage = "start" /\ processor = "QuickApp"
    /\ In(extensions) = {} \/ In(widgets) = {}
    /\ stage' = "skipped"
    /\ UNCHANGED <<inputVars, sons, extensions, widgets>>

\* GeminiMetaDataProcessor.process removes parents before it resolves, too.
Begin ==
    /\ stage = "start"
    /\ \/ processor = "QuickApp" /\ In(extensions) # {} /\ In(widgets) # {} /\ UNCHANGED extensions
       \/ processor = "Gemini" /\ extensions' = RemoveParents(extensions)
       \/ processor = "plain" /\ UNCHANGED extensions
    /\ stage' = "resolve"
    /\ UNCHANGED <<inputVars, sons, widgets>>

\* replace on one list
Takes(list, c) == [list EXCEPT ![Found(list, c)] = Renamed(@, c)]

\* Mutant: the widgets are tried although an extension was found.
Resolve_Both ==
    LET c == Min(sons) IN
    /\ stage = "resolve" /\ sons # {}
    /\ Found(extensions, c) # 0 \/ Found(widgets, c) # 0
    /\ extensions' = IF Found(extensions, c) = 0 THEN extensions ELSE Takes(extensions, c)
    /\ widgets' = IF Found(widgets, c) = 0 THEN widgets ELSE Takes(widgets, c)
    /\ sons' = sons \ {c}
    /\ UNCHANGED <<inputVars, stage>>

\* The next @Inherited class: the extensions are tried before the widgets.
Resolve ==
    LET c == Min(sons) IN
    /\ stage = "resolve" /\ sons # {}
    /\ \/ /\ Found(extensions, c) # 0
          /\ extensions' = Takes(extensions, c)
          /\ UNCHANGED widgets
       \/ /\ Found(extensions, c) = 0 /\ Found(widgets, c) # 0
          /\ widgets' = Takes(widgets, c)
          /\ UNCHANGED extensions
    /\ sons' = sons \ {c}
    /\ UNCHANGED <<inputVars, stage>>

\* "Fail to resolve inherited"; PiscesPlugin then writes an empty class.
Fail ==
    /\ stage = "resolve" /\ sons # {}
    /\ Found(extensions, Min(sons)) = 0 /\ Found(widgets, Min(sons)) = 0
    /\ stage' = "failed"
    /\ UNCHANGED <<inputVars, sons, extensions, widgets>>

\* Parents are removed from both lists, and what is left is injected, unless
\* ExtensionMetaData.validate finds an instance method without a constructor: then
\* process() of the QuickApp processor fails as well.
Inject ==
    /\ stage = "resolve" /\ sons = {}
    /\ extensions' = RemoveParents(extensions)
    /\ widgets' = RemoveParents(widgets)
    /\ \/ stage' = "injected"
       \/ processor = "QuickApp" /\ stage' = "rejected"
    /\ UNCHANGED <<inputVars, sons>>

Next == Skip \/ Begin \/ Resolve \/ Fail \/ Inject

Spec == Init /\ [][Next]_vars

-----------------------------------------------------------------------------
(* Properties *)

\* Entry d of a list replaces entry c, by the class hierarchy.
Replaces(list, d, c) ==
    /\ name[d] = name[c] /\ list[d].needs
    /\ list[c].classname \in Ancestors(list[d].classname)

\* A list without the entries that a subclass in it replaces.
Leaves(list) ==
    [c \in Classes |->
        IF c \in In(list) /\ \E d \in In(list) : Replaces(list, d, c) THEN Null ELSE list[c]]

\* remove() drops exactly the entries that a subclass of the same name replaces,
\* whatever the order of the list, although it empties the list while it compares
\* its pairs and stops comparing an entry once that entry is dropped
\* (MetaDataExt.kt:125-148).
RemovesParents ==
    [][stage = "resolve" /\ stage' \in {"injected", "rejected"}
          => extensions' = Leaves(extensions) /\ widgets' = Leaves(widgets)]_vars

\* No entry is ever instantiated as a class that is not the annotated one or
\* a subclass of it, no class serves two entries, and every @Inherited class
\* that was resolved is used, itself or through a subclass that came later
\* (replace, QuickAppMetaDataProcessor.kt:282-296).
HeirsOfEntries ==
    /\ \A l \in {extensions, widgets} : \A c \in In(l) :
          l[c].classname # c =>
              kind[l[c].classname] = "inherited" /\ c \in Ancestors(l[c].classname)
    /\ \A l, m \in {extensions, widgets} : \A c \in In(l), d \in In(m) :
          l[c].classname = m[d].classname => c = d
    /\ stage = "resolve" =>
          \A s \in Classes \ sons : kind[s] = "inherited" =>
              \E l \in {extensions, widgets} : \E c \in In(l) :
                  s \in {l[c].classname} \union Ancestors(l[c].classname)

\* In whatever order the classes are scanned, an @Inherited class is resolved if
\* it has an annotated superclass whose entry no other @Inherited class can take.
\* GeminiMetaDataProcessor drops entries first; there it holds of those it keeps.
ResolvedUncontested ==
    stage = "failed" =>
        \A a \in Ancestors(Min(sons)) :
            \/ kind[a] = "inherited"
            \/ \E c \in Classes \ {Min(sons)} : kind[c] = "inherited" /\ a \in Ancestors(c)
            \/ /\ processor = "Gemini"
               /\ \E d \in Classes : kind[d] = "extension" /\ name[d] = name[a] /\ a \in Ancestors(d)
=============================================================================
