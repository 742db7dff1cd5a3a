------------------------------- MODULE Models --------------------------------
(***************************************************************************)
(* The classes that drogon_ctl has generated from the tables, through      *)
(* which handlers read and write rows.  An object has a value for each     *)
(* column, and remembers which of them have been set: its dirty flags.     *)
(*                                                                         *)
(* Each function of a class is given by the columns it works on, in its    *)
(* order; the flag that it tests for a column, and the member that it      *)
(* reads or assigns, are those of that column.  Types are left out.        *)
(***************************************************************************)
EXTENDS Naturals, Sequences, FiniteSets, Functions

\* A column of metaData_: part of the primary key, NOT NULL, or neither.
Key(c) == [name |-> c, key |-> TRUE, notNull |-> TRUE]
Needed(c) == [name |-> c, key |-> FALSE, notNull |-> TRUE]
Free(c) == [name |-> c, key |-> FALSE, notNull |-> FALSE]

\* The columns from the n-th on, in the order of metaData_, which is that of the flags.
From(n, metaData) == [i \in 1..(Len(metaData) - n + 1) |-> metaData[i + n - 1].name]
\* Each column has a setter; some can also be set to null.
Accessors(metaData, null) == [set |-> Range(From(1, metaData)), null |-> null]
\* The columns that an INSERT lists: some always, as DEFAULT; some always, as DEFAULT
\* unless they have been set; the others if they have been set.
Inserting(metaData, always, unlessSet) ==
    [columns |-> From(1, metaData), always |-> always, unlessSet |-> unlessSet]
Class(t, metaData, row, accessors, json, key, inserting, bound, updated, values) ==
    [table |-> t, metaData |-> metaData, row |-> row, accessors |-> accessors, json |-> json,
     byPrimaryKey |-> key, inserting |-> inserting, outputArgs |-> bound,
     updateColumns |-> updated, updateArgs |-> values]

-----------------------------------------------------------------------------
(* Project *)

Project_metaData ==
    <<Key("id"), Needed("name"), Needed("source_path"), Needed("source_repo"),
      Needed("source_branch"), Needed("is_community"), Needed("type"), Needed("platforms"),
      Free("search_vector"), Needed("created_at"), Needed("is_public"), Free("modid"),
      Needed("is_virtual"), Needed("visibility"), Free("flags")>>
Project_Row ==
    <<"id", "name", "source_path", "source_repo", "source_branch", "is_community", "type",
      "platforms", "search_vector", "created_at", "is_public", "modid", "is_virtual",
      "visibility", "flags">>
Project_accessors == Accessors(Project_metaData, {"search_vector", "modid", "flags"})
Project_sqlForInserting ==
    Inserting(Project_metaData, {},
              {"is_community", "created_at", "is_public", "is_virtual", "visibility"})
Project_outputArgs == From(1, Project_metaData)
Project_updateColumns == From(1, Project_metaData)
Project_updateArgs == From(1, Project_metaData)
Project_toJson == From(1, Project_metaData)
Project_byPrimaryKey == {"id"}
Project ==
    Class("project", Project_metaData, Project_Row, Project_accessors, Project_toJson,
          Project_byPrimaryKey, Project_sqlForInserting, Project_outputArgs,
          Project_updateColumns, Project_updateArgs)

-----------------------------------------------------------------------------
(* User *)

User_metaData == <<Key("id"), Free("modrinth_id"), Needed("created_at"), Needed("role")>>
User_Row == <<"id", "modrinth_id", "created_at", "role">>
User_accessors == Accessors(User_metaData, {"modrinth_id"})
User_sqlForInserting == Inserting(User_metaData, {}, {"created_at", "role"})
User_outputArgs == From(1, User_metaData)
User_updateColumns == From(1, User_metaData)
User_updateArgs == From(1, User_metaData)
User_toJson == From(1, User_metaData)
User_byPrimaryKey == {"id"}
User ==
    Class("user_", User_metaData, User_Row, User_accessors, User_toJson, User_byPrimaryKey,
          User_sqlForInserting, User_outputArgs, User_updateColumns, User_updateArgs)

-----------------------------------------------------------------------------
(* UserProject *)

UserProject_metaData == <<Key("user_id"), Key("project_id"), Needed("role")>>
UserProject_Row == <<"user_id", "project_id", "role">>
UserProject_accessors == Accessors(UserProject_metaData, {})
UserProject_sqlForInserting == Inserting(UserProject_metaData, {}, {})
UserProject_outputArgs == From(1, UserProject_metaData)
UserProject_updateColumns == From(1, UserProject_metaData)
UserProject_updateArgs == From(1, UserProject_metaData)
UserProject_toJson == From(1, UserProject_metaData)
UserProject_byPrimaryKey == {"user_id", "project_id"}
UserProject ==
    Class("user_project", UserProject_metaData, UserProject_Row, UserProject_accessors,
          UserProject_toJson, UserProject_byPrimaryKey, UserProject_sqlForInserting,
          UserProject_outputArgs, UserProject_updateColumns, UserProject_updateArgs)

-----------------------------------------------------------------------------
(* ProjectVersion *)

ProjectVersion_metaData == <<Key("id"), Needed("project_id"), Free("name"), Needed("branch")>>
ProjectVersion_Row == <<"id", "project_id", "name", "branch">>
ProjectVersion_accessors == Accessors(ProjectVersion_metaData, {"name"})
ProjectVersion_sqlForInserting == Inserting(ProjectVersion_metaData, {"id"}, {})
ProjectVersion_outputArgs == From(2, ProjectVersion_metaData)
ProjectVersion_updateColumns == From(2, ProjectVersion_metaData)
ProjectVersion_updateArgs == From(2, ProjectVersion_metaData)
ProjectVersion_toJson == From(1, ProjectVersion_metaData)
ProjectVersion_byPrimaryKey == {"id"}
ProjectVersion ==
    Class("project_version", ProjectVersion_metaData, ProjectVersion_Row,
          ProjectVersion_accessors, ProjectVersion_toJson, ProjectVersion_byPrimaryKey,
          ProjectVersion_sqlForInserting, ProjectVersion_outputArgs,
          ProjectVersion_updateColumns, ProjectVersion_updateArgs)

-----------------------------------------------------------------------------
(* Item *)

Item_metaData == <<Key("id"), Needed("loc")>>
Item_Row == <<"id", "loc">>
Item_accessors == Accessors(Item_metaData, {})
Item_sqlForInserting == Inserting(Item_metaData, {"id"}, {})
Item_outputArgs == From(2, Item_metaData)
Item_updateColumns == From(2, Item_metaData)
Item_updateArgs == From(2, Item_metaData)
Item_toJson == From(1, Item_metaData)
Item_byPrimaryKey == {"id"}
Item ==
    Class("item", Item_metaData, Item_Row, Item_accessors, Item_toJson, Item_byPrimaryKey,
          Item_sqlForInserting, Item_outputArgs, Item_updateColumns, Item_updateArgs)

-----------------------------------------------------------------------------
(* ProjectItem *)

ProjectItem_metaData == <<Key("id"), Needed("item_id"), Needed("version_id")>>
ProjectItem_Row == <<"id", "item_id", "version_id">>
ProjectItem_accessors == Accessors(ProjectItem_metaData, {})
ProjectItem_sqlForInserting == Inserting(ProjectItem_metaData, {"id"}, {})
ProjectItem_outputArgs == From(2, ProjectItem_metaData)
ProjectItem_updateColumns == From(2, ProjectItem_metaData)
ProjectItem_updateArgs == From(2, ProjectItem_metaData)
ProjectItem_toJson == From(1, ProjectItem_metaData)
ProjectItem_byPrimaryKey == {"id"}
ProjectItem ==
    Class("project_item", ProjectItem_metaData, ProjectItem_Row, ProjectItem_accessors,
          ProjectItem_toJson, ProjectItem_byPrimaryKey, ProjectItem_sqlForInserting,
          ProjectItem_outputArgs, ProjectItem_updateColumns, ProjectItem_updateArgs)

-----------------------------------------------------------------------------
(* Tag *)

Tag_metaData == <<Key("id"), Free("loc")>>
Tag_Row == <<"id", "loc">>
Tag_accessors == Accessors(Tag_metaData, {"loc"})
Tag_sqlForInserting == Inserting(Tag_metaData, {"id"}, {})
Tag_outputArgs == From(2, Tag_metaData)
Tag_updateColumns == From(2, Tag_metaData)
Tag_updateArgs == From(2, Tag_metaData)
Tag_toJson == From(1, Tag_metaData)
Tag_byPrimaryKey == {"id"}
Tag ==
    Class("tag", Tag_metaData, Tag_Row, Tag_accessors, Tag_toJson, Tag_byPrimaryKey,
          Tag_sqlForInserting, Tag_outputArgs, Tag_updateColumns, Tag_updateArgs)

-----------------------------------------------------------------------------
(* RecipeType *)

RecipeType_metaData == <<Key("id"), Free("loc"), Needed("version_id")>>
RecipeType_Row == <<"id", "loc", "version_id">>
RecipeType_accessors == Accessors(RecipeType_metaData, {"loc"})
RecipeType_sqlForInserting == Inserting(RecipeType_metaData, {"id"}, {})
RecipeType_outputArgs == From(2, RecipeType_metaData)
RecipeType_updateColumns == From(2, RecipeType_metaData)
RecipeType_updateArgs == From(2, RecipeType_metaData)
RecipeType_toJson == From(1, RecipeType_metaData)
RecipeType_byPrimaryKey == {"id"}
RecipeType ==
    Class("recipe_type", RecipeType_metaData, RecipeType_Row, RecipeType_accessors,
          RecipeType_toJson, RecipeType_byPrimaryKey, RecipeType_sqlForInserting,
          RecipeType_outputArgs, RecipeType_updateColumns, RecipeType_updateArgs)

-----------------------------------------------------------------------------
(* Recipe *)

Recipe_metaData == <<Key("id"), Free("version_id"), Needed("loc"), Needed("type_id")>>
Recipe_Row == <<"id", "version_id", "loc", "type_id">>
Recipe_accessors == Accessors(Recipe_metaData, {"version_id"})
Recipe_sqlForInserting == Inserting(Recipe_metaData, {"id"}, {})
Recipe_outputArgs == From(2, Recipe_metaData)
Recipe_updateColumns == From(2, Recipe_metaData)
Recipe_updateArgs == From(2, Recipe_metaData)
Recipe_toJson == From(1, Recipe_metaData)
Recipe_byPrimaryKey == {"id"}
Recipe ==
    Class("recipe", Recipe_metaData, Recipe_Row, Recipe_accessors, Recipe_toJson,
          Recipe_byPrimaryKey, Recipe_sqlForInserting, Recipe_outputArgs, Recipe_updateColumns,
          Recipe_updateArgs)

-----------------------------------------------------------------------------
(* RecipeIngredientTag *)

RecipeIngredientTag_metaData ==
    <<Key("recipe_id"), Key("tag_id"), Key("slot"), Needed("count"), Key("input")>>
RecipeIngredientTag_Row == <<"recipe_id", "tag_id", "slot", "count", "input">>
RecipeIngredientTag_accessors == Accessors(RecipeIngredientTag_metaData, {})
RecipeIngredientTag_sqlForInserting ==
    Inserting(RecipeIngredientTag_metaData, {"recipe_id"}, {})
RecipeIngredientTag_outputArgs == From(2, RecipeIngredientTag_metaData)
RecipeIngredientTag_updateColumns == From(2, RecipeIngredientTag_metaData)
RecipeIngredientTag_updateArgs == From(2, RecipeIngredientTag_metaData)
RecipeIngredientTag_toJson == From(1, RecipeIngredientTag_metaData)
RecipeIngredientTag_byPrimaryKey == {"recipe_id", "tag_id", "slot", "input"}
RecipeIngredientTag ==
    Class("recipe_ingredient_tag", RecipeIngredientTag_metaData, RecipeIngredientTag_Row,
          RecipeIngredientTag_accessors, RecipeIngredientTag_toJson,
          RecipeIngredientTag_byPrimaryKey, RecipeIngredientTag_sqlForInserting,
          RecipeIngredientTag_outputArgs, RecipeIngredientTag_updateColumns,
          RecipeIngredientTag_updateArgs)

-----------------------------------------------------------------------------
(* RecipeIngredientItem *)

RecipeIngredientItem_metaData ==
    <<Key("recipe_id"), Key("item_id"), Key("slot"), Needed("count"), Key("input")>>
RecipeIngredientItem_Row == <<"recipe_id", "item_id", "slot", "count", "input">>
RecipeIngredientItem_accessors == Accessors(RecipeIngredientItem_metaData, {})
RecipeIngredientItem_sqlForInserting ==
    Inserting(RecipeIngredientItem_metaData, {"recipe_id"}, {})
RecipeIngredientItem_outputArgs == From(2, RecipeIngredientItem_metaData)
RecipeIngredientItem_updateColumns == From(2, RecipeIngredientItem_metaData)
RecipeIngredientItem_updateArgs == From(2, RecipeIngredientItem_metaData)
RecipeIngredientItem_toJson == From(1, RecipeIngredientItem_metaData)
RecipeIngredientItem_byPrimaryKey == {"recipe_id", "item_id", "slot", "input"}
RecipeIngredientItem ==
    Class("recipe_ingredient_item", RecipeIngredientItem_metaData, RecipeIngredientItem_Row,
          RecipeIngredientItem_accessors, RecipeIngredientItem_toJson,
          RecipeIngredientItem_byPrimaryKey, RecipeIngredientItem_sqlForInserting,
          RecipeIngredientItem_outputArgs, RecipeIngredientItem_updateColumns,
          RecipeIngredientItem_updateArgs)

-----------------------------------------------------------------------------
(* RecipeWorkbench *)

RecipeWorkbench_metaData == <<Key("type_id"), Key("item_id")>>
RecipeWorkbench_Row == <<"type_id", "item_id">>
RecipeWorkbench_accessors == Accessors(RecipeWorkbench_metaData, {})
RecipeWorkbench_sqlForInserting == Inserting(RecipeWorkbench_metaData, {}, {})
RecipeWorkbench_outputArgs == From(1, RecipeWorkbench_metaData)
RecipeWorkbench_updateColumns == From(1, RecipeWorkbench_metaData)
RecipeWorkbench_updateArgs == From(1, RecipeWorkbench_metaData)
RecipeWorkbench_toJson == From(1, RecipeWorkbench_metaData)
RecipeWorkbench_byPrimaryKey == {"type_id", "item_id"}
RecipeWorkbench ==
    Class("recipe_workbench", RecipeWorkbench_metaData, RecipeWorkbench_Row,
          RecipeWorkbench_accessors, RecipeWorkbench_toJson, RecipeWorkbench_byPrimaryKey,
          RecipeWorkbench_sqlForInserting, RecipeWorkbench_outputArgs,
          RecipeWorkbench_updateColumns, RecipeWorkbench_updateArgs)

-----------------------------------------------------------------------------
(* DataImport *)

DataImport_metaData ==
    <<Key("id"), Needed("game_version"), Needed("loader"), Needed("loader_version"),
      Free("user_id"), Needed("created_at")>>
DataImport_Row == <<"id", "game_version", "loader", "loader_version", "user_id", "created_at">>
DataImport_accessors == Accessors(DataImport_metaData, {"user_id"})
DataImport_sqlForInserting == Inserting(DataImport_metaData, {"id"}, {"created_at"})
DataImport_outputArgs == From(2, DataImport_metaData)
DataImport_updateColumns == From(2, DataImport_metaData)
DataImport_updateArgs == From(2, DataImport_metaData)
DataImport_toJson == From(1, DataImport_metaData)
DataImport_byPrimaryKey == {"id"}
DataImport ==
    Class("data_import", DataImport_metaData, DataImport_Row, DataImport_accessors,
          DataImport_toJson, DataImport_byPrimaryKey, DataImport_sqlForInserting,
          DataImport_outputArgs, DataImport_updateColumns, DataImport_updateArgs)

-----------------------------------------------------------------------------
(* Deployment *)

Deployment_metaData ==
    <<Key("id"), Needed("project_id"), Free("revision"), Needed("status"), Needed("active"),
      Free("user_id"), Needed("source_repo"), Needed("source_branch"), Needed("source_path"),
      Needed("created_at")>>
Deployment_Row ==
    <<"id", "project_id", "revision", "status", "active", "user_id", "source_repo",
      "source_branch", "source_path", "created_at">>
Deployment_accessors == Accessors(Deployment_metaData, {"revision", "user_id"})
Deployment_sqlForInserting == Inserting(Deployment_metaData, {}, {"active", "created_at"})
Deployment_outputArgs == From(1, Deployment_metaData)
Deployment_updateColumns == From(1, Deployment_metaData)
Deployment_updateArgs == From(1, Deployment_metaData)
Deployment_toJson == From(1, Deployment_metaData)
Deployment_byPrimaryKey == {"id"}
Deployment ==
    Class("deployment", Deployment_metaData, Deployment_Row, Deployment_accessors,
          Deployment_toJson, Deployment_byPrimaryKey, Deployment_sqlForInserting,
          Deployment_outputArgs, Deployment_updateColumns, Deployment_updateArgs)

-----------------------------------------------------------------------------
(* ProjectIssue *)

ProjectIssue_metaData ==
    <<Key("id"), Needed("level"), Needed("deployment_id"), Needed("type"), Needed("subject"),
      Free("details"), Free("file"), Free("version_name"), Needed("created_at")>>
ProjectIssue_Row ==
    <<"id", "level", "deployment_id", "type", "subject", "details", "file", "version_name",
      "created_at">>
ProjectIssue_accessors == Accessors(ProjectIssue_metaData, {"details", "file", "version_name"})
ProjectIssue_sqlForInserting == Inserting(ProjectIssue_metaData, {}, {"created_at"})
ProjectIssue_outputArgs == From(1, ProjectIssue_metaData)
ProjectIssue_updateColumns == From(1, ProjectIssue_metaData)
ProjectIssue_updateArgs == From(1, ProjectIssue_metaData)
ProjectIssue_toJson == From(1, ProjectIssue_metaData)
ProjectIssue_byPrimaryKey == {"id"}
ProjectIssue ==
    Class("project_issue", ProjectIssue_metaData, ProjectIssue_Row, ProjectIssue_accessors,
          ProjectIssue_toJson, ProjectIssue_byPrimaryKey, ProjectIssue_sqlForInserting,
          ProjectIssue_outputArgs, ProjectIssue_updateColumns, ProjectIssue_updateArgs)

-----------------------------------------------------------------------------
(* Report *)

Report_metaData ==
    <<Key("id"), Needed("type"), Needed("reason"), Needed("body"), Needed("status"),
      Needed("submitter_id"), Needed("project_id"), Free("path"), Free("locale"),
      Free("version_id"), Needed("created_at")>>
Report_Row ==
    <<"id", "type", "reason", "body", "status", "submitter_id", "project_id", "path", "locale",
      "version_id", "created_at">>
Report_accessors == Accessors(Report_metaData, {"path", "locale", "version_id"})
Report_sqlForInserting == Inserting(Report_metaData, {}, {"created_at"})
Report_outputArgs == From(1, Report_metaData)
Report_updateColumns == From(1, Report_metaData)
Report_updateArgs == From(1, Report_metaData)
Report_toJson == From(1, Report_metaData)
Report_byPrimaryKey == {"id"}
Report ==
    Class("report", Report_metaData, Report_Row, Report_accessors, Report_toJson,
          Report_byPrimaryKey, Report_sqlForInserting, Report_outputArgs, Report_updateColumns,
          Report_updateArgs)

-----------------------------------------------------------------------------
(* AccessKey *)

AccessKey_metaData ==
    <<Key("id"), Needed("name"), Needed("value"), Free("user_id"), Free("expires_at"),
      Needed("created_at")>>
AccessKey_Row == <<"id", "name", "value", "user_id", "expires_at", "created_at">>
AccessKey_accessors == Accessors(AccessKey_metaData, {"user_id", "expires_at"})
AccessKey_sqlForInserting == Inserting(AccessKey_metaData, {"id"}, {"created_at"})
AccessKey_outputArgs == From(2, AccessKey_metaData)
AccessKey_updateColumns == From(2, AccessKey_metaData)
AccessKey_updateArgs == From(2, AccessKey_metaData)
AccessKey_toJson == From(1, AccessKey_metaData)
AccessKey_byPrimaryKey == {"id"}
AccessKey ==
    Class("access_key", AccessKey_metaData, AccessKey_Row, AccessKey_accessors,
          AccessKey_toJson, AccessKey_byPrimaryKey, AccessKey_sqlForInserting,
          AccessKey_outputArgs, AccessKey_updateColumns, AccessKey_updateArgs)

-----------------------------------------------------------------------------
(* Objects of any class *)

Models ==
    {Project, User, UserProject, ProjectVersion, Item, ProjectItem, Tag, RecipeType, Recipe,
     RecipeIngredientTag, RecipeIngredientItem, RecipeWorkbench, DataImport, Deployment,
     ProjectIssue, Report, AccessKey}

Null == <<>>
ColumnsOf(C) == Range(C.row)
KeysOf(C) == {C.metaData[i].name : i \in {i \in DOMAIN C.metaData : C.metaData[i].key}}
Place(columns, c) == CHOOSE i \in DOMAIN columns : columns[i] = c

New(C) == [values |-> [c \in ColumnsOf(C) |-> Null], dirty |-> {}]

\* An object of the first columns of a row, if there are enough of them.
\* (Mutant: what has been read counts as set.)
FromRow_all_set(C, row) ==
    IF Len(C.row) > Len(row) THEN New(C)
    ELSE [values |-> [c \in ColumnsOf(C) |-> row[Place(C.row, c)]],
          dirty |-> ColumnsOf(C) \ KeysOf(C)]
FromRow(C, row) ==
    IF Len(C.row) > Len(row) THEN New(C)
    ELSE [values |-> [c \in ColumnsOf(C) |-> row[Place(C.row, c)]], dirty |-> {}]

\* Its columns as members of a JSON object.
toJson(C, o) == [c \in Range(C.json) |-> o.values[c]]

\* Setters, of the columns in null to null and of the others in set to new values.
Assign(o, set, null, value) ==
    [values |-> [c \in DOMAIN o.values |->
                   IF c \in null THEN Null ELSE IF c \in set THEN value[c] ELSE o.values[c]],
     dirty |-> o.dirty \cup set \cup null]

\* A statement names some columns, and the n-th of them gets the n-th value that is bound,
\* of those that have been set, in the order of args.
Number(columns, some, c) == Cardinality({columns[i] : i \in 1..Place(columns, c)} \cap some)
Bound(o, args, columns, named) ==
    LET set == Range(args) \cap o.dirty
    IN  [c \in named |-> o.values[CHOOSE d \in set : Number(args, set, d) = Number(columns, named, c)]]

\* INSERT: the values of the columns that are not left to the table; whether it returns
\* the row.
\* (Mutant: the row is not asked for.)
InsertOf_no_selection(C, o) ==
    LET how == C.inserting
        left == how.always \cup (how.unlessSet \ o.dirty)
    IN  [values |-> Bound(o, C.outputArgs, how.columns, (Range(how.columns) \cap o.dirty) \ left),
         returns |-> FALSE]
\* (Mutant: it leaves to the table what the table always fills in, and nothing else.)
InsertOf_nulls(C, o) ==
    LET left == C.inserting.always
    IN  [values |-> [c \in Range(C.inserting.columns) \ left |-> o.values[c]],
         returns |-> left # {}]
InsertOf(C, o) ==
    LET how == C.inserting
        left == how.always \cup (how.unlessSet \ o.dirty)
    IN  [values |-> Bound(o, C.outputArgs, how.columns, (Range(how.columns) \cap o.dirty) \ left),
         returns |-> left # {}]

\* UPDATE: the columns that have been set, and their values.
\* (Mutant: all columns, set or not.)
UpdateOf_all(C, o) == [c \in Range(C.updateColumns) |-> o.values[c]]
UpdateOf(C, o) == Bound(o, C.updateArgs, C.updateColumns, Range(C.updateColumns) \cap o.dirty)
=============================================================================
