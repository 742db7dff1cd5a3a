------------------------------- MODULE Pages --------------------------------
(***************************************************************************)
(* The pages of a deployment: where they are in its directory              *)
(* (project/format.cc), the tree in which they are listed, their names     *)
(* (project/pages.cc) and the tree of content pages (project/content.cc).  *)
(*                                                                         *)
(* A directory is a function from paths to files, a path a sequence of     *)
(* names, and names are numbers in their alphabetical order.  Of a page    *)
(* we keep its front matter ("none", "broken" or "ok" with title and id)   *)
(* and its heading, of _meta.json the sequence of its entries, or that it  *)
(* cannot be read.  A title is a tuple that says who gave it, empty for    *)
(* none.  A tree is a function from its directories to the sequences of    *)
(* their entries: the children of an entry are those at its path.          *)
(***************************************************************************)
EXTENDS Integers, Sequences, FiniteSets, SequencesExt

CONSTANTS
    Hidden,       \* names that begin with . or _
    Docs,         \* names that end in .mdx
    MetaFile, I18n, ContentDir,    \* _meta.json, .translated, .content
    Directories   \* directories to look at, each with a locale

NoLocale == 0
NoTitle == <<>>

\* Whether the path p is in the directory dir.
Under(dir, p) == Len(dir) < Len(p) /\ \A i \in 1..Len(dir) : p[i] = dir[i]

\* The paths of the directory d that are directories.
Folders(d) == {<<>>} \cup UNION {{SubSeq(p, 1, n) : n \in 1..(Len(p) - 1)} : p \in DOMAIN d.files}
Exists(d, path) == path \in DOMAIN d.files \cup Folders(d)

\* What a file system and a schema let pass: no file is a directory, the keys of an object
\* differ.
DirectoryOK(d) ==
    /\ d.locale \in Nat
    /\ IsFiniteSet(DOMAIN d.files) /\ DOMAIN d.files \subseteq Seq(Nat)
    /\ DOMAIN d.files \cap Folders(d) = {}
    /\ \A p \in DOMAIN d.files :
         /\ p[Len(p)] \in Docs =>
              \A t \in {d.files[p].title, d.files[p].heading} :
                  t \in Seq(STRING) /\ (t = NoTitle \/ t[1] \notin {"auto", "meta"})
         /\ p[Len(p)] = MetaFile /\ d.files[p].readable =>
              LET entries == d.files[p].entries
              IN  /\ entries \in Seq([key : Nat, name : Seq(STRING)])
                  /\ \A i, j \in DOMAIN entries : entries[i].key = entries[j].key => i = j
                  /\ \A i \in DOMAIN entries :
                       entries[i].name = NoTitle \/ entries[i].name[1] = "meta"

ASSUME PagesAssumption ==
    /\ MetaFile \in Nat /\ I18n \in Nat /\ ContentDir \in Nat
    /\ \A d \in Directories : DirectoryOK(d)

-----------------------------------------------------------------------------
(* V0ProjectFormat *)

Localized(d, path) == <<I18n, d.locale>> \o path

\* The file that a reader of this locale gets.
getLocalizedFilePath(d, path) ==
    IF d.locale # NoLocale /\ Exists(d, Localized(d, path)) THEN Localized(d, path) ELSE path

getFolderMetaFilePath(d, dir) == getLocalizedFilePath(d, Append(dir, MetaFile))

-----------------------------------------------------------------------------
(* Pages *)

AutoName(name) == <<"auto", name>>
NoPage == [front |-> "none", title |-> NoTitle, id |-> "", heading |-> NoTitle]
Page(d, path) ==
    LET file == getLocalizedFilePath(d, path)
    IN  IF file \in DOMAIN d.files /\ file[Len(file)] \in Docs THEN d.files[file] ELSE NoPage

\* The front matter of a page, if it can be read.
readPageAttributes(d, path) ==
    {[title |-> p.title, id |-> p.id] : p \in {p \in {Page(d, path)} : p.front = "ok"}}

getPageTitle(d, path) ==
    IF \E a \in readPageAttributes(d, path) : a.title # NoTitle
    THEN Page(d, path).title
    ELSE Page(d, path).heading

\* getPagePath: a page that has only been translated is found as well.
getPagePath(d, path) ==
    {file \in {getLocalizedFilePath(d, path)} : Exists(d, file)}

\* The entries of _meta.json.  Those without a name get the title of the page that lies
\* next to the file that was read, or else one made from the key.
getFolderMetadata(d, file) ==
    IF file \notin DOMAIN d.files \/ ~ d.files[file].readable THEN <<>>
    ELSE [i \in DOMAIN d.files[file].entries |->
            LET e == d.files[file].entries[i]
                title == getPageTitle(d, Append(Front(file), e.key))
            IN  [key |-> e.key,
                 name |-> IF e.name # NoTitle THEN e.name
                          ELSE IF title # NoTitle THEN title ELSE AutoName(e.key)]]

\* (Mutant: what is not listed comes first.)
UnlistedFirst(meta, a, b) ==
    LET at(x) == {i \in DOMAIN meta : meta[i].key = x}
    IN  IF meta = <<>> THEN a < b
        ELSE at(b) # {} /\ \A j \in at(b) : \A i \in at(a) : i < j

\* createDirEntriesComparator: in the order of the metadata; what it does not list comes
\* after that.
Before(meta, a, b) ==
    LET at(x) == {i \in DOMAIN meta : meta[i].key = x}
    IN  IF meta = <<>> THEN a < b
        ELSE at(a) # {} /\ \A i \in at(a) : \A j \in at(b) : i < j

\* Names are sorted; those of which neither comes before the other are in any order.
Sorted(names, meta) ==
    CHOOSE s \in SetToSeqs(names) :
        \A i, j \in DOMAIN s : i < j => ~ Before(meta, s[j], s[i])

\* Directories and pages in dir that are not hidden.
Listed(d, dir) ==
    {n \in {p[Len(dir) + 1] : p \in {p \in DOMAIN d.files : Under(dir, p)}} \ Hidden :
       Append(dir, n) \in Folders(d) \/ n \in Docs}

\* The entries of one directory.
EntriesOf(d, dir) ==
    LET meta == getFolderMetadata(d, getFolderMetaFilePath(d, dir))
        names == Sorted(Listed(d, dir), meta)
        given(n) == {i \in DOMAIN meta : meta[i].key = n}
        title(n) == getPageTitle(d, Append(dir, n))
        entry(n) ==
            [path |-> Append(dir, n),
             name |-> IF given(n) # {} THEN meta[CHOOSE i \in given(n) : TRUE].name
                      ELSE IF title(n) # NoTitle THEN title(n) ELSE AutoName(n),
             isDir |-> Append(dir, n) \in Folders(d),
             id |-> ""]
    IN  [i \in DOMAIN names |-> entry(names[i])]

\* The directories that the recursion comes to, from each.
Reached(d) ==
    LET reached[dir \in Folders(d)] ==
            {dir} \cup UNION {reached[e.path] : e \in {e \in ToSet(EntriesOf(d, dir)) : e.isDir}}
    IN  reached

getDirectoryTree(d, dir) == [x \in Reached(d)[dir] |-> EntriesOf(d, x)]

\* Pages get their id from their front matter, those without any are taken out.
WithMetadata(d, e) ==
    IF e.isDir THEN <<e>>
    ELSE IF readPageAttributes(d, e.path) = {} THEN <<>>
    ELSE <<[e EXCEPT !.id = (CHOOSE a \in readPageAttributes(d, e.path) : TRUE).id]>>
addPageMetadata(d, tree) ==
    LET kept(entries) ==
            LET first[n \in 0..Len(entries)] ==
                    IF n = 0 THEN <<>> ELSE first[n - 1] \o WithMetadata(d, entries[n])
            IN  first[Len(entries)]
    IN  [dir \in DOMAIN tree |-> kept(tree[dir])]

NoTree == [dir \in {} |-> <<>>]
getProjectContents(d) ==
    IF <<ContentDir>> \in Folders(d)
    THEN addPageMetadata(d, getDirectoryTree(d, <<ContentDir>>)) ELSE NoTree

Places(tree) == UNION {{<<dir, i>> : i \in DOMAIN tree[dir]} : dir \in DOMAIN tree}
Entries(tree) == {tree[place[1]][place[2]] : place \in Places(tree)}

countPagesRecursive(tree) ==
    Cardinality({place \in Places(tree) : ~ tree[place[1]][place[2]].isDir})

\* What is reported of the pages of a tree: a missing title, or id.
validatePagesTree(d, tree, required) ==
    LET pages == {e.path : e \in {e \in Entries(tree) : ~ e.isDir}}
    IN  {<<"NO_PAGE_TITLE", p>> : p \in {p \in pages : getPageTitle(d, p) = NoTitle}}
        \cup {<<"MISSING_REQUIRED_ATTRIBUTE", p>> :
                p \in {p \in pages : required /\ \E a \in readPageAttributes(d, p) : a.id = ""}}
validatePages(d) ==
    validatePagesTree(d, getDirectoryTree(d, <<>>), FALSE)
        \cup validatePagesTree(d, getProjectContents(d), TRUE)

-----------------------------------------------------------------------------
(* What a directory holds, without regard to how it is walked *)

\* Pages under dir that are not hidden, nor in a hidden directory.
PagesUnder(d, dir) ==
    {p \in DOMAIN d.files : /\ Under(dir, p) /\ p[Len(p)] \in Docs
                            /\ \A i \in (Len(dir) + 1)..Len(p) : p[i] \notin Hidden}

PagesOf(tree) == {e \in Entries(tree) : ~ e.isDir}
NameOf(e) == e.path[Len(e.path)]
MetaOf(d, e) == getFolderMetadata(d, getFolderMetaFilePath(d, Front(e.path)))

\* Each page once.
ListsEachPage(d, dir, tree) ==
    /\ {e.path : e \in PagesOf(tree)} = PagesUnder(d, dir)
    /\ countPagesRecursive(tree) = Cardinality(PagesUnder(d, dir))
    /\ \A e \in PagesOf(tree) : getPagePath(d, e.path) # {}

\* What _meta.json lists is in its order and first; without it, names are.
InItsOrder(d, tree) ==
    \A dir \in DOMAIN tree : \A i, j \in DOMAIN tree[dir] :
        LET meta == MetaOf(d, tree[dir][i])
            name(k) == NameOf(tree[dir][k])
            at(k) == {m \in DOMAIN meta : meta[m].key = name(k)}
        IN  i < j => IF meta = <<>> THEN name(i) < name(j)
                     ELSE \A m \in at(j) : at(i) # {} /\ \A l \in at(i) : l < m

\* Whether titles are given by a translated _meta.json, and the page is not translated, or
\* its translation is.
HalfTranslated(d, path) ==
    /\ d.locale # NoLocale
    /\ Exists(d, Localized(d, Append(Front(path), MetaFile)))
    /\ ~ Exists(d, Localized(d, path))
TwiceTranslated(d, path) ==
    d.locale # NoLocale /\ Exists(d, Localized(d, Localized(d, path)))

\* Under the title that a reader of this locale finds in it, unless _meta.json names it.
NamedAsTitled(d, tree) ==
    \A e \in Entries(tree) :
        LET meta == MetaOf(d, e)
            title == getPageTitle(d, e.path)
        IN  /\ e.name # NoTitle
            /\ \/ /\ e.name[1] = "meta"
                  /\ \E i \in DOMAIN meta : meta[i].key = NameOf(e) /\ meta[i].name = e.name
               \/ title # NoTitle /\ e.name = title
               \/ (title = NoTitle \/ HalfTranslated(d, e.path)) /\ e.name = AutoName(NameOf(e))
               \/ TwiceTranslated(d, e.path)

\* A page whose name had to be made from its file's is reported, except those that are
\* left out of the contents.
ReportsUntitled(d, dir, tree) ==
    \A e \in PagesOf(tree) :
        e.name[1] = "auto" => \/ <<"NO_PAGE_TITLE", e.path>> \in validatePages(d)
                              \/ dir # <<>> /\ readPageAttributes(d, e.path) = {}

\* The tree of d's pages, and that of its content pages, list each page once, in order,
\* and under its title as a reader of this locale finds it, unless _meta.json names it;
\* each can be opened.  Where only _meta.json is translated and has no name, the name is
\* made from the file's.  (A translation may itself be in two places, and then the title
\* may be of either.)  The contents are the content pages with front matter.  A
\* deployment reports pages without a title.
IsComplete(d) ==
    /\ {e.path : e \in PagesOf(getProjectContents(d))} =
          {p \in PagesUnder(d, <<ContentDir>>) : Page(d, p).front = "ok"}
    /\ \A dir \in {<<>>, <<ContentDir>>} \cap Folders(d) :
         LET tree == getDirectoryTree(d, dir)
         IN  /\ ListsEachPage(d, dir, tree)
             /\ InItsOrder(d, tree)
             /\ NamedAsTitled(d, tree)
             /\ d.locale = NoLocale => ReportsUntitled(d, dir, tree)
EveryTreeIsComplete == \A d \in Directories : IsComplete(d)
=============================================================================
