----------------------------- MODULE CachedTrees ------------------------------
(***************************************************************************)
(* The cache of a project and the file trees that are put into it.         *)
(***************************************************************************)
EXTENDS ProjectCache, Pages

\* What getDirectoryTree has put into the cache is complete, whatever the directory of
\* its deployment: each page is listed once, in order and under its title as a reader of
\* the locale finds it, and those without a title were reported (pages.cc, content.cc).
TreeIsComplete == (\E t \in Trees : cache[t] # NoDep) => EveryTreeIsComplete
=============================================================================
