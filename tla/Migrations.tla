----------------------------- MODULE Migrations -----------------------------
(***************************************************************************)
(* The tables behind the generated classes, as the files of sql/ make and  *)
(* change them when they are run in the order of their names.  A table is  *)
(* the sequence of its columns.  Types, references, checks and indexes     *)
(* other than primary keys are left out, and tables without a class.       *)
(***************************************************************************)
EXTENDS Naturals, Sequences

\* A column may be null, must be given, has a default or a generated value if it is left
\* out, or gets its value from a trigger.
Nullable(c) == [name |-> c, notNull |-> FALSE, filled |-> "never"]
NotNull(c) == [name |-> c, notNull |-> TRUE, filled |-> "never"]
Default(c) == [name |-> c, notNull |-> TRUE, filled |-> "unless given"]
Generated(c) == Default(c)
Triggered(c, notNull) == [name |-> c, notNull |-> notNull, filled |-> "always"]

AddTables(tables, new) ==
    [t \in DOMAIN tables \cup DOMAIN new |-> IF t \in DOMAIN new THEN new[t] ELSE tables[t]]
AddColumns(tables, t, columns) == [tables EXCEPT ![t] = @ \o columns]
SetNotNull(tables, t, c) ==
    [tables EXCEPT ![t] = [i \in DOMAIN @ |-> IF @[i].name = c THEN NotNull(c) ELSE @[i]]]

-----------------------------------------------------------------------------
(* Each file *)

up(tables) ==
    AddTables(tables,
    [project |->
       <<NotNull("id"), NotNull("name"), NotNull("source_path"), NotNull("source_repo"),
         NotNull("source_branch"), Default("is_community"), NotNull("type"),
         NotNull("platforms"), Triggered("search_vector", FALSE), Default("created_at"),
         Default("is_public"), NotNull("modid")>>])

users(tables) ==
    AddTables(tables,
    [user_ |-> <<NotNull("id"), Nullable("modrinth_id"), Default("created_at")>>,
     user_project |-> <<NotNull("user_id"), NotNull("project_id"), NotNull("role")>>])

Ingredients(name) ==
    <<Generated("recipe_id"), NotNull(name), NotNull("slot"), NotNull("count"), NotNull("input")>>
game_content(tables) ==
    AddTables(tables,
    [project_version |->
       <<Generated("id"), NotNull("project_id"), Nullable("name"), NotNull("branch")>>,
     item |-> <<Generated("id"), NotNull("loc")>>,
     project_item |-> <<Generated("id"), NotNull("item_id"), Nullable("version_id")>>,
     tag |-> <<Generated("id"), Nullable("loc")>>,
     project_tag |-> <<Generated("id"), NotNull("tag_id"), Nullable("version_id")>>,
     recipe_type |-> <<Generated("id"), Nullable("loc"), Nullable("version_id")>>,
     recipe |-> <<Generated("id"), Nullable("version_id"), NotNull("loc"), NotNull("type_id")>>,
     recipe_ingredient_tag |-> Ingredients("tag_id"),
     recipe_ingredient_item |-> Ingredients("item_id"),
     recipe_workbench |-> <<NotNull("type_id"), NotNull("item_id")>>])

system_info(tables) ==
    AddTables(AddColumns(tables, "user_", <<Default("role")>>),
    [data_import |->
       <<Generated("id"), NotNull("game_version"), NotNull("loader"), NotNull("loader_version"),
         Nullable("user_id"), Default("created_at")>>])

deployments(tables) ==
    AddTables(tables,
    [deployment |->
       <<Triggered("id", TRUE), NotNull("project_id"), Nullable("revision"), NotNull("status"),
         Default("active"), Nullable("user_id"), NotNull("source_repo"),
         NotNull("source_branch"), NotNull("source_path"), Default("created_at")>>])

project_issue(tables) ==
    AddTables(tables,
    [project_issue |->
       <<Triggered("id", TRUE), NotNull("level"), NotNull("deployment_id"), NotNull("type"),
         NotNull("subject"), Nullable("details"), Nullable("file"), Nullable("version_name"),
         Default("created_at")>>])

reports(tables) ==
    AddTables(tables,
    [report |->
       <<Triggered("id", TRUE), NotNull("type"), NotNull("reason"), NotNull("body"),
         NotNull("status"), NotNull("submitter_id"), NotNull("project_id"), Nullable("path"),
         Nullable("locale"), Nullable("version_id"), Default("created_at")>>])

keys(tables) ==
    AddTables(tables,
    [access_key |->
       <<Generated("id"), NotNull("name"), NotNull("value"), Nullable("user_id"),
         Nullable("expires_at"), Default("created_at")>>])

\* What it does to rows is left out: the game's project and version, its content.
virtual_projects(tables) ==
    LET added == AddColumns(tables, "project", <<Default("is_virtual")>>)
        item == SetNotNull(added, "project_item", "version_id")
        tag == SetNotNull(item, "project_tag", "version_id")
    IN  SetNotNull(tag, "recipe_type", "version_id")

project_visibility(tables) ==
    AddColumns(tables, "project", <<Default("visibility"), Nullable("flags")>>)

-----------------------------------------------------------------------------
(* All of them *)

Empty == [t \in {} |-> <<>>]
Schema ==
    LET first == system_info(game_content(users(up(Empty))))
        then == keys(reports(project_issue(deployments(first))))
    IN  project_visibility(virtual_projects(then))

-----------------------------------------------------------------------------
(* INSERT and UPDATE of one row, a sequence of values; null is the empty one *)

NullValue == <<>>
Missing(columns, row) == \E i \in DOMAIN columns : columns[i].notNull /\ row[i] = NullValue

\* The columns in the domain of given get its values; others are filled, or null.
NewRow(columns, given, filling) ==
    [i \in DOMAIN columns |->
       LET c == columns[i].name
       IN  IF columns[i].filled # "always" /\ c \in DOMAIN given THEN given[c]
           ELSE IF columns[i].filled # "never" THEN filling[c] ELSE NullValue]

ChangedRow(columns, row, given) ==
    [i \in DOMAIN columns |->
       IF columns[i].name \in DOMAIN given THEN given[columns[i].name] ELSE row[i]]
=============================================================================
