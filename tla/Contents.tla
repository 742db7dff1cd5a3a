------------------------------ MODULE Contents ------------------------------
(***************************************************************************)
(* What the files of a repository hold for the ingestor: the prepare of    *)
(* its sub-ingestors, which read the files and change nothing.             *)
(*                                                                         *)
(* A file is a record.  named: its path, or the id in it, makes a resource *)
(* location; valid: it is JSON and fits its schema.  Which of two pages    *)
(* with the same id is taken, the order of files, and tags in tags are     *)
(* left out, as the ingestor's model tells no pages apart.  Tags of the    *)
(* mod's own in a recipe, which are registered as items, too, are not      *)
(* among the files.                                                        *)
(***************************************************************************)
EXTENDS Naturals

CONSTANTS
    Own  \* names whose namespace is the project's mod id

isValid(f) == f.named /\ f.valid
OfKind(tree, kind) == {f \in tree : f.kind = kind}

-----------------------------------------------------------------------------
\* Pages: not hidden ones, nor those without an id.
shouldIncludeFile(f) == ~ f.hidden
preparePages(tree) ==
    UNION {f.id : f \in {f \in OfKind(tree, "page") : shouldIncludeFile(f) /\ f.named}}

\* Tags of items in three namespaces.
TagFiles(tree) ==
    {f \in OfKind(tree, "tag") :
        /\ f.namespace \in {"minecraft", "c", "own"}
        /\ f.type = "item"
        /\ isValid(f)}

\* Values that name an item, as a string or as the id of an object; others are reported.
\* Those that name a tag are not registered for that: with its # it is no resource
\* location.
Listed(f) == {v.name : v \in {v \in f.values : v.as \in {"string", "object"} /\ ~ v.tag}}
EntriesOf(f) == {<<f.name, n>> : n \in Listed(f)}

\* (Mutant: the items of a tag are expected to be registered by somebody else.)
TagsWithoutItems(tree) ==
    LET read == TagFiles(tree)
    IN  [names |-> {f.name : f \in read}, items |-> {},
         entries |-> UNION {EntriesOf(f) : f \in read}]
prepareTags(tree) ==
    LET read == TagFiles(tree)
    IN  [names |-> {f.name : f \in read}, items |-> (UNION {Listed(f) : f \in read}) \cap Own,
         entries |-> UNION {EntriesOf(f) : f \in read}]

\* A recipe goes to the parser of its type, which may refuse it or throw.
readRecipe(f, outcome) ==
    /\ isValid(f)
    /\ f.type # "invalid"
    /\ f.parser = outcome
readRecipeType(f) == isValid(f)

\* The recipe, if there is one, and what kind of type it has.
prepareRecipes(tree) ==
    LET read == {f \in OfKind(tree, "recipe") : readRecipe(f, "recipe")}
        own == \E f \in OfKind(tree, "recipe type") : readRecipeType(f)
    IN  [items |-> {f.needs : f \in read},
         types |-> {IF f.type = "own" /\ ~ own THEN "unknown" ELSE f.type : f \in read},
         throws |-> \E f \in OfKind(tree, "recipe") : readRecipe(f, "throws")]

\* ingestGameContentData: only the items of the mod itself are registered.
candidateItems(pages, tags, recipes) == (pages \cup tags.items \cup recipes.items) \cap Own

\* All that the ingestor takes from the files; of their recipes there is at most one.
Prepared(tree) ==
    LET tags == prepareTags(tree)
        recipes == prepareRecipes(tree)
        The(S, default) == IF S = {} THEN default ELSE CHOOSE x \in S : TRUE
    IN  [items |-> candidateItems(preparePages(tree), tags, recipes),
         tags |-> tags.names, entries |-> tags.entries,
         recipe |-> The(recipes.types, "none"), needs |-> The(recipes.items, 1),
         readable |-> ~ recipes.throws]
=============================================================================
