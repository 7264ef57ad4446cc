-------------------------- MODULE DirectoryListing --------------------------
(****************************************************************************)
(* directory_list_contents_malloc: a breadth first walk over a tree of      *)
(* directories without links, with a queue of the directories found and one *)
(* search handle of the system for each. A search that the system refuses   *)
(* or breaks off is cut: the walk takes it for one that is over. The queue  *)
(* has fewer directories than the first block of its buffer holds, as the   *)
(* loop keeps a pointer into it across a push.                              *)
(****************************************************************************)
EXTENDS Integers, Sequences, FiniteSets

CONSTANTS
  Trees,        \* the trees: the entries of every directory, in order
  Root          \* the directory that is listed

VARIABLES
  tree, recursive,
  phase,        \* idle, listing, closing, listed, failed or freed
  queue,        \* what was found: the path, how far its search has come, whether it was cut
  reading_from,
  entries,      \* the entries reported, the terminator among them
  handles,      \* the search handles that are open
  paths,        \* the paths that were allocated for the queue
  strings,      \* the paths that were allocated for entries
  patterns      \* the search patterns allocated, which nothing frees

vars == <<tree, recursive, phase, queue, reading_from, entries, handles, paths, strings, patterns>>

Terminator == "terminator"
IsDirectory(e) == e \in DOMAIN tree
Search(path, cut) == [path |-> path, next |-> 1, cut |-> cut]
Has(search) == ~search.cut /\ search.next <= Len(tree[search.path])

Init ==
  /\ tree \in Trees /\ recursive \in BOOLEAN
  /\ phase = "idle"
  /\ queue = <<>> /\ reading_from = 1 /\ entries = <<>>
  /\ handles = {} /\ paths = {} /\ strings = {} /\ patterns = {}

\* A search that is cut at once has no handle, or was cut on its way past "." and
\* ".."; only a pattern that is too long for the local buffer is allocated.
Begins(path, cut) ==
  /\ handles' \in {handles \cup {path}} \cup (IF cut THEN {handles} ELSE {})
  /\ patterns' \in {patterns, patterns \cup {path}}

\* of a root with nothing in it the handle stays open
Start ==
  /\ phase = "idle"
  /\ \E cut \in BOOLEAN :
       /\ Begins(Root, cut)
       /\ IF Has(Search(Root, cut)) THEN phase' = "listing" /\ queue' = <<Search(Root, cut)>>
          ELSE phase' = "failed" /\ UNCHANGED queue
  /\ UNCHANGED <<tree, recursive, reading_from, entries, paths, strings>>

\* a search that returned an entry, and the next it was asked for
Moved(stops) ==
  [queue EXCEPT ![reading_from] = [path |-> @.path, next |-> @.next + 1, cut |-> stops]]

Visit ==
  LET search == queue[reading_from]
      e == tree[search.path][search.next]
  IN  /\ phase = "listing" /\ reading_from <= Len(queue) /\ Has(search)
      /\ entries' = Append(entries, e)
      /\ strings' = strings \cup {e}
      /\ \E stops, cut \in BOOLEAN :
           IF IsDirectory(e) /\ recursive
           THEN queue' = Append(Moved(stops), Search(e, cut)) /\ paths' = paths \cup {e} /\ Begins(e, cut)
           ELSE queue' = Moved(stops) /\ UNCHANGED <<handles, paths, patterns>>
      /\ UNCHANGED <<tree, recursive, phase, reading_from>>

NextDirectory ==
  /\ phase = "listing" /\ reading_from <= Len(queue) /\ ~Has(queue[reading_from])
  /\ reading_from' = reading_from + 1
  /\ UNCHANGED <<tree, recursive, phase, queue, entries, handles, paths, strings, patterns>>

\* mutant: the last path of the queue is forgotten
FreedButLast == {queue[i].path : i \in 1 .. Len(queue) - 1} \ {Root}

\* the path of the root belongs to the caller
Freed == {queue[i].path : i \in 1 .. Len(queue)} \ {Root}

\* closes every search and puts a terminator behind the entries
Close ==
  /\ phase = "listing" /\ reading_from > Len(queue)
  /\ phase' = "listed"
  /\ handles' = handles \ {queue[i].path : i \in 1 .. Len(queue)}
  /\ paths' = paths \ Freed
  /\ entries' = Append(entries, Terminator)
  /\ UNCHANGED <<tree, recursive, queue, reading_from, strings, patterns>>

\* up to the entry whose path is null
FreedStrings ==
  {entries[i] : i \in {j \in 1 .. Len(entries) : \A k \in 1 .. j : entries[k] # Terminator}}

directory_list_contents_free ==
  /\ phase \in {"listed", "failed"} /\ phase' = "freed"
  /\ strings' = strings \ FreedStrings
  /\ UNCHANGED <<tree, recursive, queue, reading_from, entries, handles, paths, patterns>>

Next == Start \/ Visit \/ NextDirectory \/ Close \/ directory_list_contents_free

Spec == Init /\ [][Next]_vars

-----------------------------------------------------------------------------
Entries(dirs) == UNION {{tree[d][i] : i \in 1 .. Len(tree[d])} : d \in dirs}

\* everything below the root
Below ==
  LET walk[dirs \in SUBSET DOMAIN tree] ==
        LET more == dirs \cup (Entries(dirs) \cap DOMAIN tree)
        IN  IF more = dirs THEN Entries(dirs) ELSE walk[more]
  IN  walk[{Root}]

NoneCut == \A i \in 1 .. Len(queue) : ~queue[i].cut

\* A listing reports entries of the root, or from all below it, each once, a
\* directory before what is in it, and the terminator last; it has them all
\* unless the system cut one of its searches.
ListedOnce ==
  phase = "listed" =>
    LET listed == SubSeq(entries, 1, Len(entries) - 1)
        found == {listed[i] : i \in 1 .. Len(listed)}
        all == IF recursive THEN Below ELSE Entries({Root})
    IN
    /\ entries[Len(entries)] = Terminator
    /\ found \subseteq all /\ (NoneCut => found = all)
    /\ \A i, j \in 1 .. Len(listed) : i # j => listed[i] # listed[j]
    /\ \A i, j \in 1 .. Len(listed) :
         IsDirectory(listed[i]) /\ (\E k \in 1 .. Len(tree[listed[i]]) : tree[listed[i]][k] = listed[j]) => i < j

\* A listing that reports entries closes its searches and frees the paths of its
\* queue, and freeing the list frees the paths of the entries. What is not given
\* back is no more than the long search patterns, one for each search, and the
\* handle of a root whose search returned nothing.
EntriesReturned ==
  /\ phase = "listed" => handles = {} /\ paths = {}
  /\ phase = "freed" => strings = {} /\ paths = {} /\ (entries # <<>> => handles = {})
  /\ phase = "failed" => entries = <<>> /\ paths = {} /\ handles \subseteq {Root}
  /\ patterns \subseteq {Root} \cup {queue[i].path : i \in 1 .. Len(queue)}
=============================================================================
