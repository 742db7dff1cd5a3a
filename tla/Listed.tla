------------------------------- MODULE Listed -------------------------------
(***************************************************************************)
(* The ingestor on repositories of files: what a mod's files name, and     *)
(* what the tables hold of it in the end.                                  *)
(***************************************************************************)
EXTENDS GameData, Contents, Recipes

CONSTANTS
    Trees  \* the files of each repository

\* What is ingested of a mod is what has been read from its files, which have one recipe.
ASSUME TreesAssumption ==
    \A r \in Repos :
        LET tree == Trees[r.from]
            p == Prepared(tree) IN
        /\ r.items = p.items /\ r.tags = p.tags /\ r.entries = p.entries
        /\ r.recipe = p.recipe /\ r.needs = p.needs /\ r.readable = p.readable
        /\ \A f, g \in OfKind(tree, "recipe") :
              /\ f.type \in {"own", "game", "invalid"}
              /\ readRecipe(f, "recipe") /\ readRecipe(g, "recipe") => f = g

\* A deployment whose ingestion ended well, without a failed statement, has a row for each
\* of its own items that any of its files names: a page by its id; a tag, which it is
\* linked to; a recipe, which it is an ingredient of (ingestor_content_paths.cc,
\* ingestor_tags.cc, ingestor_recipes.cc, and ingestor.cc, which registers before it links).
ListedIsThere ==
    \A m \in Mods :
        (pc[m] = "done" /\ result[m] = "Ok" /\ trans[m].state = "committed") =>
            \A f \in Trees[repo[m].from] :
                /\ (f.kind = "page" /\ ~ f.hidden /\ f.named) =>
                      \A n \in f.id \cap Own : Row("item", gen[m], <<n>>) \in rows[m]
                /\ (/\ f.kind = "tag" /\ f.named /\ f.valid /\ f.type = "item"
                    /\ f.namespace \in {"minecraft", "c", "own"}) =>
                      \A v \in f.values :
                          (v.as \in {"string", "object"} /\ ~ v.tag /\ v.name \in Own) =>
                              Row("entry", gen[m], <<f.name, v.name>>) \in rows[m]
                /\ (/\ f.kind = "recipe" /\ f.named /\ f.valid /\ f.type # "invalid"
                    /\ f.parser = "recipe" /\ f.needs \in Own) =>
                      (errors[m] \/ Row("recipe", gen[m], <<f.needs>>) \in rows[m])

\* A recipe that has been committed is shown to readers as its file says, whichever file
\* that was: what was stored of it is read back into the slots, items and counts of the
\* file (recipe_builtin.cc, recipe_custom.cc, ingestor_recipes.cc, recipe_resolver.cc).
ShownAsWritten == (\E p \in Projects : \E r \in rows[p] : r.kind = "recipe") => EveryFileIsShown
=============================================================================
