--------------------------- MODULE MCProjectCache ---------------------------
(* Two requests and two deployments of one project, and what its trees are   *)
(* made of: directories with up to three pages, among files that are none,   *)
(* with and without _meta.json and a translation.                            *)
EXTENDS CachedTrees, TLC

CONSTANTS q1, q2, pageTree, recipe

Symmetry == Permutations(Requests)

-----------------------------------------------------------------------------
\* 1 .content, 2 .translated, 3 _a.mdx, 4 _meta.json, 5 a.mdx, 6 b.mdx, 7 c, 8 d.png, 9 de
NoFile == [x \in {} |-> x]
File(path, file) == [p \in {path} |-> file]
PageFile(front, title, heading) ==
    [front |-> front, title |-> title, id |-> "", heading |-> heading]
Meta(readable, entries) == [readable |-> readable, entries |-> entries]
Entry(n, title) == [key |-> n, name |-> title]

APages ==
    {PageFile("ok", <<"front">>, <<"heading">>), PageFile("ok", NoTitle, NoTitle),
     PageFile("none", NoTitle, <<"heading">>), PageFile("broken", NoTitle, NoTitle)}
Metas ==
    {Meta(FALSE, <<>>), Meta(TRUE, <<Entry(7, <<"meta">>), Entry(5, NoTitle)>>),
     Meta(TRUE, <<Entry(6, NoTitle), Entry(5, <<"meta">>)>>)}

Optional(path, files) == {NoFile} \cup {File(path, f) : f \in files}
DirectoriesUnder(dir) ==
    {[locale |-> l,
      files |-> File(dir \o <<5>>, f) @@ File(dir \o <<3>>, f) @@ File(dir \o <<8>>, f)
                @@ other @@ deep @@ listed @@ translated @@ named] :
        l \in {0, 9}, f \in APages,
        other \in Optional(dir \o <<6>>, {PageFile("ok", <<"other">>, NoTitle)}),
        deep \in Optional(dir \o <<7, 5>>, {PageFile("none", NoTitle, NoTitle)}),
        listed \in Optional(dir \o <<4>>, Metas),
        translated \in Optional(<<2, 9>> \o dir \o <<5>>, {PageFile("none", NoTitle, <<"seite">>)}),
        named \in Optional(<<2, 9>> \o dir \o <<4>>, {Meta(TRUE, <<Entry(6, <<"meta">>), Entry(5, NoTitle)>>)})}
\* A translation that is itself translated.
Nested ==
    [locale |-> 9,
     files |-> File(<<5>>, PageFile("ok", NoTitle, <<"heading">>))
               @@ File(<<2, 9, 4>>, Meta(TRUE, <<Entry(5, NoTitle)>>))
               @@ File(<<2, 9, 5>>, PageFile("none", NoTitle, <<"seite">>))
               @@ File(<<2, 9, 2, 9, 5>>, PageFile("none", NoTitle, <<"blatt">>))]
AllDirectories == DirectoriesUnder(<<>>) \cup DirectoriesUnder(<<1>>) \cup {Nested}
=============================================================================
