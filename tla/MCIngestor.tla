----------------------------- MODULE MCIngestor -----------------------------
(* Two mods and the game.  Items 1 and 4, tags 2 and 3.  Recipes of two items, *)
(* of a tag with two of them, one that is empty, and one that nobody has.      *)
EXTENDS Listed, TLC

CONSTANTS m1, m2, i1, i2

\* The jar of the game, and what an empty directory holds.
Jar(items, tags, entries) ==
    [items |-> items, tags |-> tags, entries |-> entries, recipe |-> "none", needs |-> 1,
     readable |-> TRUE, from |-> 0]
GameFiles == Jar({1}, {2}, {<<2, 1>>})
LoaderFiles == Jar({1}, {2, 3}, {<<2, 1>>, <<3, 1>>, <<3, 4>>})
NoFiles == Jar({}, {}, {})
OfGame == {GameFiles, LoaderFiles, NoFiles}

\* Files of mods.
Page(hidden, named, id) == [kind |-> "page", hidden |-> hidden, named |-> named, id |-> id]
Value(as, tag, name) == [as |-> as, tag |-> tag, name |-> name]
Tag(name, namespace, type, valid, values) ==
    [kind |-> "tag", name |-> name, namespace |-> namespace, type |-> type, named |-> TRUE,
     valid |-> valid, values |-> values]
RecipeFile(type, needs, parser) ==
    [kind |-> "recipe", named |-> TRUE, valid |-> TRUE, type |-> type, needs |-> needs,
     parser |-> parser]
RecipeType(valid) == [kind |-> "recipe type", named |-> TRUE, valid |-> valid]

\* Tags with an item of the mod and a tag, and some that are left out; pages and a recipe
\* of the mod's own type; one without its type; one that cannot be parsed.
Repositories ==
    <<{Tag(2, "own", "item", TRUE, {Value("object", FALSE, 1), Value("string", TRUE, 3)}),
      Tag(3, "c", "item", TRUE, {Value("string", FALSE, 1)}),
      Tag(4, "c", "block", TRUE, {Value("string", FALSE, 1)}),
      Tag(4, "c", "item", FALSE, {Value("string", FALSE, 1)}), RecipeFile("game", 4, "recipe")},
     {Page(FALSE, TRUE, {}), Page(TRUE, TRUE, {2}), Page(FALSE, TRUE, {1}),
      Tag(3, "other", "item", TRUE, {Value("string", FALSE, 1)}),
      RecipeFile("own", 1, "recipe"), RecipeFile("invalid", 1, "recipe"), RecipeType(TRUE)},
     {RecipeFile("own", 4, "recipe"), RecipeType(FALSE), RecipeFile("game", 1, "nothing")},
     {RecipeFile("own", 1, "throws"), Page(FALSE, FALSE, {1})}>>
\* (A name of its own, for TLC to evaluate it only once.)
PreparedOfMods ==
    {LET r == Prepared(Repositories[i])
     IN  [items |-> r.items, tags |-> r.tags, entries |-> r.entries, recipe |-> r.recipe,
          needs |-> r.needs, readable |-> r.readable, from |-> i] : i \in DOMAIN Repositories}
OfMods == PreparedOfMods

-----------------------------------------------------------------------------
ItemSources == [x \in {"x"} |-> <<"mod">>] @@ [y \in {"y"} |-> <<"mod", "game">>]
TagContent == [t \in {"t"} |-> <<<<"x", "mod">>, <<"z", "game">>>>] @@ [e \in {"e"} |-> <<>>]

Json(as, name) == [as |-> as, name |-> name]
Ingredients ==
    {<<Json("plain", "x")>>, <<Json("hash", "t")>>, <<Json("tag", "u")>>, <<>>,
     <<Json("item", "y"), Json("tag", "t")>>, <<Json("tag", "e"), Json("plain", "x")>>,
     <<Json("plain", "x"), Json("other", "y")>>, <<Json("plain", "x"), Json("item", "x")>>}
Result(count) == [hash |-> FALSE, name |-> "y", count |-> count]

Rows == {<<"a">>, <<"b", " ">>, <<" ", "a", "b">>, <<"a", "b", "a">>}
Patterns == {<<p>> : p \in Rows} \cup {<<p, q>> : p \in Rows, q \in Rows} \cup {<<>>, <<<<>>, <<"b">>>>}
Slots == {[hash |-> h, name |-> n, count |-> c] : h \in BOOLEAN, n \in {"x", "y"}, c \in 1..2}
Files ==
    {[type |-> "shaped", pattern |-> p, key |-> [a \in {"a"} |-> g] @@ [b \in {"b"} |-> h],
      result |-> Result(1)] : p \in Patterns, g \in Ingredients, h \in Ingredients}
    \cup {[type |-> "shapeless", ingredients |-> <<g, h, <<Json("plain", "x")>>>>, result |-> Result(4)] :
            g \in Ingredients, h \in Ingredients}
    \cup {[type |-> t, ingredient |-> g, result |-> Result(1)] :
            t \in {"smelting", "stonecutting"}, g \in Ingredients}
    \cup {[type |-> "smithing", parts |-> <<g, h, g>>, result |-> Result(1)] :
            g \in Ingredients, h \in Ingredients}
    \cup {[type |-> "custom", input |-> [n \in {2, 5} |-> IF n = 2 THEN g ELSE h],
           output |-> [n \in {1} |-> o]] : g \in Slots, h \in Slots, o \in Slots}
=============================================================================
