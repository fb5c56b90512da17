----------------------------- MODULE UrlSquasher ----------------------------
(***************************************************************************)
(* How URLs with too many variants are replaced, for one service:          *)
(* genericize_path of src/src/tm_utils.c, the path squasher of             *)
(* src/src/tm_url_squasher.c, the publication of its regexes at the end of *)
(* tm_flush_team_metrics, and the readers of the topics tracemate_urls and *)
(* tracemate_regexes.                                                      *)
(*                                                                         *)
(* A URL is the sequence of its segments.  A node of the tree is the       *)
(* sequence of the segments that lead to it, so that the tree is a set of  *)
(* sequences; a regex is the node it was made from.                        *)
(***************************************************************************)
EXTENDS Integers, Sequences, FiniteSets

CONSTANTS
  Segments,     \* path segments
  Dots,         \* "{...}"
  Urls,         \* the URLs of the documents of the service
  Configured,   \* the ones that a regex of the configuration matches
  Seeds,        \* regexes that are on tracemate_regexes to begin with
  Factor,       \* path_squash_cardinality_factor
  MaxSegments,  \* the depth at which paths are cut off
  Flushers,     \* flush jobs
  MayFail,      \* whether a produce may fail
  MaxDocs,      \* bound on the documents
  MaxCrashes    \* bound on process crashes

Pattern == Seq(Segments \cup {Dots})

ASSUME SquasherAssumption ==
  /\ Dots \notin Segments
  /\ \A u \in Urls : u \in Seq(Segments)
  /\ Configured \subseteq Urls
  /\ \A r \in Seeds : r \in Pattern
  /\ Factor \in Nat /\ MaxSegments \in Nat \ {0}
  /\ MayFail \in BOOLEAN /\ MaxDocs \in Nat /\ MaxCrashes \in Nat

VARIABLES
  docs,      \* number of documents handled so far
  urls,      \* the topic tracemate_urls
  taken,     \* how much of it was read
  nodes,     \* the tree: the root is the empty sequence
  squashed,  \* nodes with children_squashed
  locked,    \* whether tm_path_squasher_add_path is in progress
  at,        \* the node it has come to ("parent")
  added,     \* URLs given to the squasher since the start (history)
  batch,     \* batch[f]: regexes that flush job f has yet to consider
  unread,    \* the topic tracemate_regexes, where it was not read yet
  known,     \* squash_regexes of the service; {} if it has no table
  crashes    \* number of crashes so far

vars == <<docs, urls, taken, nodes, squashed, locked, at, added, batch, unread,
          known, crashes>>

Init ==
  /\ docs = 0
  /\ urls = <<>> /\ taken = 0
  /\ nodes = {<<>>} /\ squashed = {}
  /\ locked = FALSE /\ at = <<>>
  /\ added = {}
  /\ batch = [f \in Flushers |-> {}]
  /\ unread = Seeds /\ known = {}
  /\ crashes = 0

(***************************************************************************)
(* Documents.                                                              *)
(***************************************************************************)

\* A regex has no anchors, and ends in ".*".
Matches(r, u) ==
  \E skip \in 0 .. Len(u) - Len(r) : \A i \in DOMAIN r : r[i] \in {Dots, u[skip + i]}

\* genericize_path: a URL that no regex matches is published.
HandleUrl(u) ==
  /\ docs < MaxDocs
  /\ docs' = docs + 1
  /\ \/ /\ u \notin Configured
        /\ \A r \in known : ~Matches(r, u)
        /\ urls' = Append(urls, u)
     \/ /\ u \in Configured \/ (\E r \in known : Matches(r, u)) \/ MayFail
        /\ UNCHANGED urls
  /\ UNCHANGED <<taken, nodes, squashed, locked, at, added, batch, unread, known,
                 crashes>>

(***************************************************************************)
(* The path squasher.                                                      *)
(***************************************************************************)

\* Node n is somewhere below node p.
Under(p, n) == Len(n) > Len(p) /\ \A i \in DOMAIN p : n[i] = p[i]

Children(tree, p) == {n \in tree : Under(p, n) /\ Len(n) = Len(p) + 1}

\* How many children a node at a depth may have.
Limit(depth) == Factor \div (3 * 2 ^ depth)

\* tm_path_squasher_add_path takes the lock of the squasher ...
BeginAdd ==
  /\ ~locked
  /\ taken < Len(urls)
  /\ taken' = taken + 1
  /\ locked' = TRUE
  /\ at' = <<>>
  /\ added' = added \cup {urls[taken + 1]}
  /\ UNCHANGED <<docs, urls, nodes, squashed, batch, unread, known, crashes>>

\* The URL whose segments are being added, and whether any are left.
Url  == urls[taken]
MoreMutant == Len(at) < Len(Url) /\ Len(at) <= MaxSegments  \* one too deep
More       == Len(at) < Len(Url) /\ Len(at) < MaxSegments

\* maybe_add_child
Child == IF at \in squashed THEN Append(at, Dots) ELSE Append(at, Url[Len(at) + 1])
Grown == nodes \cup {Child}

\* The root is never squashed.
TooManyMutant == at # <<>> /\ Cardinality(Children(Grown, at)) >= Limit(Len(at))
TooMany       == at # <<>> /\ Cardinality(Children(Grown, at)) > Limit(Len(at))

\* squash_children: the grandchildren are moved to a new child "{...}".  Below
\* it, nodes with the same segments become one, and a squashed level becomes
\* an ordinary node with a child "{...}".
Merge(p, n) == IF Under(p, n) THEN [n EXCEPT ![Len(p) + 1] = Dots] ELSE n

MergedMutant(tree, p) ==  \* the grandchildren are lost
  {n \in tree : ~Under(p, n)} \cup {Append(p, Dots)}
Merged(tree, p) == {Merge(p, n) : n \in tree}

\* ... goes down the tree segment by segment, ...
AddSegment ==
  /\ locked
  /\ More
  /\ \/ /\ at \in squashed \/ ~TooMany
        /\ nodes' = Grown
        /\ at' = Child
        /\ UNCHANGED squashed
     \/ /\ at \notin squashed /\ TooMany
        /\ nodes' = Merged(Grown, at)
        /\ squashed' = {p \in squashed : ~Under(at, p)} \cup {at}
        /\ at' = Append(at, Dots)
  /\ UNCHANGED <<docs, urls, taken, locked, added, batch, unread, known, crashes>>

\* ... and releases the lock.
EndAdd ==
  /\ locked
  /\ ~More
  /\ locked' = FALSE
  /\ at' = <<>>
  /\ UNCHANGED <<docs, urls, taken, nodes, squashed, added, batch, unread, known,
                 crashes>>

(***************************************************************************)
(* Regexes.                                                                *)
(***************************************************************************)

\* recurse_regex: a leaf gives a regex if there is a squashed node on its way.
Leaf(n)   == n # <<>> /\ Children(nodes, n) = {}
Regexes   == {n \in nodes : Leaf(n) /\ \E p \in squashed : Under(p, n)}

\* A flush job gets the regexes of the squasher, with its lock, ...
FlushRead(f) ==
  /\ batch[f] = {}
  /\ ~locked
  /\ batch' = [batch EXCEPT ![f] = Regexes]
  /\ UNCHANGED <<docs, urls, taken, nodes, squashed, locked, at, added, unread,
                 known, crashes>>

\* ... and publishes the ones that are not in the table of the service,
\* provided that it has one.
WantedMutant(r) == known = {}
Wanted(r)       == known # {} /\ r \notin known

Consider(f, r) == r \in batch[f] /\ batch' = [batch EXCEPT ![f] = @ \ {r}]

FlushPublish(f) ==
  /\ \E r \in batch[f] : Consider(f, r) /\ Wanted(r) /\ unread' = unread \cup {r}
  /\ UNCHANGED <<docs, urls, taken, nodes, squashed, locked, at, added, known,
                 crashes>>

FlushSkip(f) ==
  /\ \E r \in batch[f] : Consider(f, r) /\ (~Wanted(r) \/ MayFail)
  /\ UNCHANGED <<docs, urls, taken, nodes, squashed, locked, at, added, unread,
                 known, crashes>>

\* process_regex_message: the first regex of a service makes its table.
LearnRegex ==
  /\ \E r \in unread : unread' = unread \ {r} /\ known' = known \cup {r}
  /\ UNCHANGED <<docs, urls, taken, nodes, squashed, locked, at, added, batch,
                 crashes>>

\* The process dies and starts again.  The tree and the table were in memory;
\* Kafka delivers again what was read after the last commit of the offsets.
Crash ==
  /\ crashes < MaxCrashes
  /\ crashes' = crashes + 1
  /\ nodes' = {<<>>} /\ squashed' = {}
  /\ locked' = FALSE /\ at' = <<>>
  /\ added' = {}
  /\ batch' = [f \in Flushers |-> {}]
  /\ taken' \in 0 .. taken
  /\ \E again \in SUBSET known : unread' = unread \cup again
  /\ known' = {}
  /\ UNCHANGED <<docs, urls>>

Squash == BeginAdd \/ AddSegment \/ EndAdd

Next ==
  \/ \E u \in Urls : HandleUrl(u)
  \/ Squash
  \/ \E f \in Flushers : FlushRead(f) \/ FlushPublish(f) \/ FlushSkip(f)
  \/ LearnRegex
  \/ Crash

Spec == Init /\ [][Next]_vars

\* The readers read what is there, flush jobs come again and again, and a
\* produce that is tried again and again succeeds at last.
FairSpec ==
  /\ Spec
  /\ WF_vars(Squash)
  /\ WF_vars(LearnRegex)
  /\ \A f \in Flushers : WF_vars(FlushSkip(f)) /\ SF_vars(FlushRead(f)) /\ SF_vars(FlushPublish(f))

(***************************************************************************)
(* Properties.                                                             *)
(***************************************************************************)

\* Types, and the place of add_path in the tree.
TypeOK ==
  /\ docs \in 0 .. MaxDocs /\ crashes \in 0 .. MaxCrashes
  /\ urls \in Seq(Urls) /\ taken \in 0 .. Len(urls)
  /\ nodes \subseteq Pattern /\ <<>> \in nodes
  /\ squashed \subseteq nodes \ {<<>>}
  /\ locked \in BOOLEAN
  /\ at \in nodes /\ Len(at) <= MaxSegments
  /\ locked => taken > 0 /\ Len(at) <= Len(Url)
  /\ added \subseteq Urls
  /\ DOMAIN batch = Flushers /\ \A f \in Flushers : batch[f] \subseteq Pattern
  /\ unread \subseteq Pattern /\ known \subseteq Pattern

\* Node n stands for the beginning of URL u.
StandsFor(n, u) == Len(n) <= Len(u) /\ \A i \in DOMAIN n : n[i] \in {u[i], Dots}

\* Squashing a level, or squashing above a level that was squashed before,
\* loses no URL: each of them, as far as it was added, has a node.
UrlsKeepTheirPlace ==
  \A u \in added : \E n \in nodes :
     /\ StandsFor(n, u)
     /\ \/ Len(n) = Len(u) \/ Len(n) = MaxSegments
        \/ locked /\ u = Url /\ n = at

\* A segment is replaced only if its level was over its limit: in the tree and
\* in every regex that goes around, other than the seeds, "{...}" stands where
\* the URLs published so far have had more than the allowed number of segments.
Published == {urls[j] : j \in DOMAIN urls}
Variants(r, i) ==
  {u[i] : u \in {v \in Published : Len(v) >= i /\ \A k \in 1 .. i - 1 : r[k] \in {v[k], Dots}}}
Earned(r) == \A i \in DOMAIN r : r[i] = Dots => Cardinality(Variants(r, i)) > Limit(i - 1)

WildcardsAreEarned ==
  /\ \A n \in nodes : Earned(n)
  /\ \A r \in (unread \cup known \cup UNION {batch[f] : f \in Flushers}) \ Seeds : Earned(r)

\* Once documents stop coming, a process that has a table of regexes for the
\* service has every regex of its squasher in it.
RegexesAreLearned == <>[](known # {} => Regexes \subseteq known)

\* "When a URL becomes squashed tracemate produces a regular expression that
\* is publishes to tracemate_regexes" (README.md): whatever the squasher
\* squashes comes to be known.  Nothing is published for a service without a
\* table, and only what is published makes the table.
SquashedIsPublished == <>[](Regexes \subseteq known)
=============================================================================
