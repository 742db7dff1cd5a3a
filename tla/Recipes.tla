------------------------------ MODULE Recipes -------------------------------
(***************************************************************************)
(* A recipe on its way from its file to a reader: the parsers              *)
(* (ingestor/recipe), the rows they become (ingestor_recipes.cc) and what  *)
(* is made of them for display (recipe_resolver.cc).                       *)
(*                                                                         *)
(* A file has passed its schema.  The JSON of one alternative says what it *)
(* looks like ("plain" and "hash" are strings, "item", "tag" and "other"   *)
(* objects) and which name it has; an ingredient is a sequence of them,    *)
(* what is no array being a sequence of one.  An optional value is a set   *)
(* of at most one.  The grid of a crafting table has three by three slots. *)
(***************************************************************************)
EXTENDS Integers, Sequences, FiniteSets, SequencesExt

CONSTANTS
    Sources,     \* projects that have an item, for each: getItemSourceProjects
    TagItems,    \* items in a tag and their projects, for each: getGlobalTagItems
    RecipeFiles  \* files to look at

\* What a schema lets pass, with names that are registered for what is an item's.
Jsons ==
    {j \in [as : {"plain", "hash", "item", "tag", "other"}, name : STRING] :
        j.as \in {"plain", "item"} => j.name \in DOMAIN Sources}
SlotJsons ==
    {j \in [hash : BOOLEAN, name : STRING, count : Int] : ~ j.hash => j.name \in DOMAIN Sources}
Results == {j \in SlotJsons : ~ j.hash}

FileOK(f) ==
    /\ f.type \in {"shaped", "shapeless", "smelting", "stonecutting", "smithing", "custom"}
    /\ f.type # "custom" => f.result \in Results
    /\ f.type = "shaped" =>
          /\ f.pattern \in Seq(Seq(STRING)) /\ Len(f.pattern) <= 3
          /\ \A row \in DOMAIN f.pattern : Len(f.pattern[row]) <= 3
          /\ \A char \in DOMAIN f.key : f.key[char] \in Seq(Jsons)
    /\ f.type = "shapeless" => f.ingredients \in Seq(Seq(Jsons))
    /\ f.type \in {"smelting", "stonecutting"} => f.ingredient \in Seq(Jsons)
    /\ f.type = "smithing" => f.parts \in Seq(Seq(Jsons)) /\ Len(f.parts) = 3
    /\ f.type = "custom" =>
          \A side \in {f.input, f.output} :
              IsFiniteSet(DOMAIN side) /\ \A n \in DOMAIN side : side[n] \in SlotJsons

\* No tag has a # in its name.
Hashed == "#"

ASSUME RecipesAssumption ==
    /\ \A x \in DOMAIN Sources : Sources[x] \in Seq(STRING)
    /\ \A t \in DOMAIN TagItems : TagItems[t] \in Seq(STRING \X STRING)
    /\ Hashed \notin DOMAIN TagItems
    /\ \A f \in RecipeFiles : FileOK(f)

\* The elements of s at the indices I.
Only(s, I) == FlattenSeq([i \in DOMAIN s |-> IF i \in I THEN <<s[i]>> ELSE <<>>])

Ingredient(name, slot, count, input, isTag) ==
    [name |-> name, slot |-> slot, count |-> count, input |-> input, isTag |-> isTag]

-----------------------------------------------------------------------------
(* Parsers: the ingredients of a recipe, if it can be read *)

readRecipeIngredient(json, slot) ==
    IF json.as = "other" THEN {}
    ELSE {Ingredient(json.name, slot, 1, TRUE, json.as \in {"hash", "tag"})}

\* One alternative that cannot be read takes the others with it.
parseArrayIngredient(jsons, slot) ==
    IF \E i \in DOMAIN jsons : readRecipeIngredient(jsons[i], slot) = {}
    THEN <<>>
    ELSE [i \in DOMAIN jsons |-> CHOOSE g \in readRecipeIngredient(jsons[i], slot) : TRUE]

parseResult(json) == Ingredient(json.name, 1, json.count, FALSE, FALSE)

\* The parsed ingredients of a recipe one after another, and its result; none of them
\* may be empty.
Assemble(parsed, output) ==
    IF <<>> \in ToSet(parsed) THEN {} ELSE {Append(FlattenSeq(parsed), parseResult(output))}

\* (Mutant: slots are counted in the rows' own width.)
SlotByWidth(pattern, row, col) == (row - 1) * Len(pattern[row]) + col

SlotOf(pattern, row, col) == (row - 1) * 3 + col

\* A character that is no key leaves its slot empty.
readShapedCraftingRecipe(f) ==
    LET keyed(row) ==
            Only([col \in DOMAIN f.pattern[row] |-> <<row, col>>],
                 {col \in DOMAIN f.pattern[row] : f.pattern[row][col] \in DOMAIN f.key})
        cells == FlattenSeq([row \in DOMAIN f.pattern |-> keyed(row)])
    IN  Assemble([i \in DOMAIN cells |->
                    parseArrayIngredient(f.key[f.pattern[cells[i][1]][cells[i][2]]],
                                         SlotOf(f.pattern, cells[i][1], cells[i][2]))],
                 f.result)

readShapelessCraftingRecipe(f) ==
    Assemble([i \in DOMAIN f.ingredients |-> parseArrayIngredient(f.ingredients[i], i)], f.result)

\* Smelting and its like.
readSmeltingRecipe(f) == Assemble(<<parseArrayIngredient(f.ingredient, 1)>>, f.result)
readStonecuttingRecipe(f) == Assemble(<<parseArrayIngredient(f.ingredient, 1)>>, f.result)

\* f.parts: template, base and addition.
readSmithingTransformRecipe(f) ==
    Assemble([i \in 1..3 |-> parseArrayIngredient(f.parts[i], i - 1)], f.result)

\* A name that begins with # is a tag's, and keeps the #.
readSingleIngredient(json, slot, input) ==
    Ingredient(IF json.hash THEN Hashed ELSE json.name, slot, json.count, input, json.hash)

\* (In which order the slots of an object come does not matter.)
readCustomRecipe(f) ==
    LET side(slots, input) ==
            LET order == SetToSeq(DOMAIN slots)
            IN  [i \in 1..Cardinality(DOMAIN slots) |->
                   readSingleIngredient(slots[order[i]], order[i], input)]
    IN  {side(f.input, TRUE) \o side(f.output, FALSE)}

parseRecipe(f) ==
    CASE f.type = "shaped" -> readShapedCraftingRecipe(f)
      [] f.type = "shapeless" -> readShapelessCraftingRecipe(f)
      [] f.type = "smelting" -> readSmeltingRecipe(f)
      [] f.type = "stonecutting" -> readStonecuttingRecipe(f)
      [] f.type = "smithing" -> readSmithingTransformRecipe(f)
      [] f.type = "custom" -> readCustomRecipe(f)

-----------------------------------------------------------------------------
(* Rows *)

\* Every name was registered as an item; a tag that is not known is left out.
ItemRows(gs) == Only(gs, {i \in DOMAIN gs : ~ gs[i].isTag})
TagRows(gs) == Only(gs, {i \in DOMAIN gs : gs[i].isTag /\ gs[i].name \in DOMAIN TagItems})

\* The same name twice in a slot is refused by the primary key.
Duplicate(stored) ==
    \E i, j \in DOMAIN stored :
        /\ i < j
        /\ stored[i].name = stored[j].name
        /\ stored[i].slot = stored[j].slot /\ stored[i].input = stored[j].input

addRecipe(gs) ==
    IF Duplicate(ItemRows(gs)) \/ Duplicate(TagRows(gs)) THEN {}
    ELSE {ItemRows(gs) \o TagRows(gs)}

-----------------------------------------------------------------------------
(* Display *)

resolveIngredient(row) ==
    [slot |-> row.slot, input |-> row.input, count |-> row.count,
     tag |-> IF row.isTag THEN row.name ELSE "",
     items |-> IF row.isTag THEN TagItems[row.name]
               ELSE [i \in DOMAIN Sources[row.name] |-> <<row.name, Sources[row.name][i]>>]]

\* Alternatives of a slot are put together under what the first says.
mergeSlots(slots, input) ==
    LET side == Only(slots, {i \in DOMAIN slots : slots[i].input = input})
        same(n) == Only(side, {i \in DOMAIN side : side[i].slot = n})
    IN  [n \in {side[i].slot : i \in DOMAIN side} |->
           [same(n)[1] EXCEPT !.items = FlattenSeq([i \in DOMAIN same(n) |-> same(n)[i].items])]]

SumOf(f, S) == FoldFunctionOnSet(+, 0, f, S)
SummaryId(s) == IF s.tag = "" THEN s.items[1][1] ELSE "#" \o s.tag

\* How much is needed, or made, of each item or tag.
getIngredientSummary(merged) ==
    LET full == {n \in DOMAIN merged : merged[n].items # <<>>}
        count == [n \in full |-> merged[n].count]
    IN  [id \in {SummaryId(merged[n]) : n \in full} |->
           SumOf(count, {n \in full : SummaryId(merged[n]) = id})]

resolveRecipe(stored) ==
    LET slots == [i \in DOMAIN stored |-> resolveIngredient(stored[i])]
        inputs == mergeSlots(slots, TRUE)
        outputs == mergeSlots(slots, FALSE)
    IN  [inputs |-> inputs, outputs |-> outputs,
         needed |-> getIngredientSummary(inputs), made |-> getIngredientSummary(outputs)]

-----------------------------------------------------------------------------
(* What a file says, without regard to how it is read *)

\* The ingredient in each slot.
Cell(f, n) == <<((n - 1) \div 3) + 1, ((n - 1) % 3) + 1>>
InPattern(f, n) ==
    /\ Cell(f, n)[1] \in DOMAIN f.pattern
    /\ Cell(f, n)[2] \in DOMAIN f.pattern[Cell(f, n)[1]]
    /\ f.pattern[Cell(f, n)[1]][Cell(f, n)[2]] \in DOMAIN f.key

Custom(json) == <<[as |-> IF json.hash THEN "hash" ELSE "plain", name |-> json.name]>>
Written(f) ==
    CASE f.type = "shaped" ->
           [n \in {n \in 1..9 : InPattern(f, n)} |-> f.key[f.pattern[Cell(f, n)[1]][Cell(f, n)[2]]]]
      [] f.type = "shapeless" -> f.ingredients
      [] f.type = "smithing" -> [n \in 0..2 |-> f.parts[n + 1]]
      [] f.type = "custom" -> [n \in DOMAIN f.input |-> Custom(f.input[n])]
      [] OTHER -> [n \in {1} |-> f.ingredient]
Made(f) ==
    IF f.type = "custom" THEN f.output ELSE [n \in {1} |-> f.result]

Items(json) ==
    IF json.as \in {"hash", "tag"}
    THEN IF json.name \in DOMAIN TagItems THEN ToSet(TagItems[json.name]) ELSE {}
    ELSE {<<json.name, p>> : p \in ToSet(Sources[json.name])}
Shown(jsons) == UNION {Items(jsons[i]) : i \in DOMAIN jsons}

Readable(f) ==
    \A n \in DOMAIN Written(f) :
        Written(f)[n] # <<>> /\ \A i \in DOMAIN Written(f)[n] : Written(f)[n][i].as # "other"

Tagged(side) == \E n \in DOMAIN side : side[n].hash

\* What is shown in the slots of a side that the file fills with w, the slot n counted
\* count[n] times.
ShowsSide(slots, summary, w, count) ==
    LET full == {n \in DOMAIN w : Shown(w[n]) # {}}
    IN  /\ DOMAIN slots \subseteq DOMAIN w
        /\ \A n \in full : n \in DOMAIN slots /\ ToSet(slots[n].items) = Shown(w[n])
        /\ SumOf(summary, DOMAIN summary) = SumOf(count, full)

\* How often what a file needs, or makes, is counted.
Needed(f) == [n \in DOMAIN Written(f) |-> IF f.type = "custom" THEN f.input[n].count ELSE 1]
Counted(side) == [n \in DOMAIN side |-> side[n].count]

IsShown(f) ==
    /\ (parseRecipe(f) # {}) <=> Readable(f)
    /\ \A gs \in parseRecipe(f) : \A stored \in addRecipe(gs) :
          LET r == resolveRecipe(stored)
          IN  /\ \/ f.type = "custom" /\ Tagged(f.input)
                 \/ ShowsSide(r.inputs, r.needed, Written(f), Needed(f))
              /\ \/ Tagged(Made(f))
                 \/ ShowsSide(r.outputs, r.made,
                              [n \in DOMAIN Made(f) |-> Custom(Made(f)[n])], Counted(Made(f)))

\* A recipe is read exactly if each of its slots can be.  What is stored is shown: in
\* each slot the items of all alternatives, those of tags included, and nothing
\* elsewhere; the summary counts each slot that has items once, under some item or tag.
\* (Not the inputs or outputs of a mod's own recipe types if one of them is a tag: it is
\* lost.)
EveryFileIsShown == \A f \in RecipeFiles : IsShown(f)
=============================================================================
