------------------------- MODULE UrlSquasherProofs --------------------------
(***************************************************************************)
(* Proofs about UrlSquasher: its types, that every URL keeps its place in  *)
(* the tree, and that every wildcard is earned, for all sets of URLs, any  *)
(* cardinality factor and any number of documents, flush jobs and crashes. *)
(***************************************************************************)
EXTENDS UrlSquasher, FiniteSetTheorems, SequenceTheorems, TLAPS

USE DEF Pattern

(***************************************************************************)
(* Sequences.                                                              *)
(***************************************************************************)

\* A limit is a number.
LEMMA LimitType ==
  ASSUME NEW d \in Nat
  PROVE  Limit(d) \in Nat
<1>1. IsFiniteSet(1 .. d) /\ Cardinality(1 .. d) = d
  BY FS_Interval
<1>2. IsFiniteSet(SUBSET (1 .. d)) /\ Cardinality(SUBSET (1 .. d)) = 2 ^ d
  BY <1>1, FS_SUBSET, Zenon
<1>3. 2 ^ d \in Nat
  BY <1>2, FS_CardinalityType
<1>4. 2 ^ d # 0
  BY <1>2, FS_EmptySet, SUBSET (1 .. d) # {}, Zenon
<1> QED
  BY <1>3, <1>4, SquasherAssumption DEF Limit

\* What the merge of a squash does to one node: at most one segment, the one
\* below the squashed node, becomes "{...}".
LEMMA MergeProperties ==
  ASSUME NEW p \in Pattern, NEW n \in Pattern
  PROVE  /\ Merge(p, n) \in Pattern
         /\ Len(Merge(p, n)) = Len(n)
         /\ \A i \in 1 .. Len(n) :
              Merge(p, n)[i] = IF Under(p, n) /\ i = Len(p) + 1 THEN Dots ELSE n[i]
<1>1. CASE Under(p, n)
  <2>1. Len(p) + 1 \in 1 .. Len(n)
    BY <1>1, LenProperties DEF Under
  <2> QED
    BY <1>1, <2>1, ExceptSeq, Dots \in Segments \cup {Dots} DEF Merge
<1>2. CASE ~Under(p, n)
  BY <1>2 DEF Merge
<1> QED
  BY <1>1, <1>2

\* A node that stands for the beginning of a URL does so after the merge.
LEMMA MergeStandsFor ==
  ASSUME NEW p \in Pattern, NEW n \in Pattern, NEW u, StandsFor(n, u)
  PROVE  StandsFor(Merge(p, n), u)
<1>1. DOMAIN n = 1 .. Len(n) /\ DOMAIN Merge(p, n) = 1 .. Len(n)
  BY MergeProperties, LenProperties
<1> QED
  BY <1>1, MergeProperties DEF StandsFor

(***************************************************************************)
(* The step of add_path down the tree.                                     *)
(***************************************************************************)

\* The next node, before and after a squash.
LEMMA ChildProperties ==
  ASSUME TypeOK, locked, More
  PROVE  /\ Url \in Urls /\ Url \in Seq(Segments)
         /\ Len(at) \in Nat /\ Len(at) + 1 \in 1 .. Len(Url)
         /\ Child \in Pattern
         /\ Len(Child) = Len(at) + 1
         /\ \A i \in 1 .. Len(at) : Child[i] = at[i]
         /\ at \in squashed => Child[Len(at) + 1] = Dots
         /\ at \notin squashed => Child[Len(at) + 1] = Url[Len(at) + 1]
         /\ Url[Len(at) + 1] \in Segments
         /\ Append(at, Dots) = Merge(at, Child)
<1>1. taken \in 1 .. Len(urls) /\ at \in Pattern /\ Len(at) \in Nat
  BY LenProperties DEF TypeOK
<1>2. Url \in Urls /\ Url \in Seq(Segments)
  BY <1>1, ElementOfSeq, SquasherAssumption DEF TypeOK, Url
<1>3. Len(at) + 1 \in 1 .. Len(Url)
  BY <1>1, <1>2, LenProperties DEF More
<1>4. Url[Len(at) + 1] \in Segments
  BY <1>2, <1>3, ElementOfSeq
<1>5. /\ Child \in Pattern
      /\ Len(Child) = Len(at) + 1
      /\ \A i \in 1 .. Len(at) : Child[i] = at[i]
      /\ at \in squashed => Child[Len(at) + 1] = Dots
      /\ at \notin squashed => Child[Len(at) + 1] = Url[Len(at) + 1]
  BY <1>1, <1>4, AppendProperties DEF Child
<1>6. Append(at, Dots) = Merge(at, Child)
  <2>1. Under(at, Child)
    BY <1>1, <1>5, LenProperties DEF Under
  <2>2. /\ Append(at, Dots) \in Pattern
        /\ Len(Append(at, Dots)) = Len(at) + 1
        /\ \A i \in 1 .. Len(at) : Append(at, Dots)[i] = at[i]
        /\ Append(at, Dots)[Len(at) + 1] = Dots
    BY <1>1, AppendProperties
  <2>3. /\ Merge(at, Child) \in Pattern
        /\ Len(Merge(at, Child)) = Len(at) + 1
        /\ \A i \in 1 .. Len(at) + 1 :
             Merge(at, Child)[i] = IF i = Len(at) + 1 THEN Dots ELSE Child[i]
    BY <1>1, <1>5, <2>1, MergeProperties
  <2>4. \A i \in 1 .. Len(at) + 1 : Append(at, Dots)[i] = Merge(at, Child)[i]
    BY <1>1, <1>5, <2>2, <2>3
  <2> QED
    BY <2>2, <2>3, <2>4, SeqEqual
<1> QED
  BY <1>1, <1>2, <1>3, <1>4, <1>5, <1>6

\* Where a node comes to be in a step that squashes the level or does not.
Moved(squashing, n) == IF squashing THEN Merge(at, n) ELSE n

\* A step of add_path moves every node, and its own place like the others.
LEMMA SegmentAdded ==
  ASSUME TypeOK, AddSegment
  PROVE  \E squashing \in BOOLEAN :
           /\ nodes' = {Moved(squashing, n) : n \in Grown}
           /\ at' = Moved(squashing, Child)
           /\ IF squashing
              THEN /\ at \notin squashed /\ TooMany
                   /\ squashed' = {p \in squashed : ~Under(at, p)} \cup {at}
              ELSE squashed' = squashed
<1>1. CASE (at \in squashed \/ ~TooMany) /\ nodes' = Grown /\ at' = Child /\ squashed' = squashed
  <2> WITNESS FALSE \in BOOLEAN
  <2> QED
    BY <1>1 DEF Moved
<1>2. CASE /\ at \notin squashed /\ TooMany
           /\ nodes' = Merged(Grown, at)
           /\ squashed' = {p \in squashed : ~Under(at, p)} \cup {at}
           /\ at' = Append(at, Dots)
  <2>1. at' = Merge(at, Child)
    BY <1>2, ChildProperties DEF AddSegment
  <2> WITNESS TRUE \in BOOLEAN
  <2> QED
    BY <1>2, <2>1 DEF Moved, Merged
<1> QED
  BY <1>1, <1>2 DEF AddSegment

\* Nodes remain patterns.
LEMMA GrownPatterns ==
  ASSUME TypeOK, locked, More
  PROVE  Grown \subseteq Pattern
BY ChildProperties DEF Grown, TypeOK

LEMMA MovedProperties ==
  ASSUME TypeOK, NEW squashing \in BOOLEAN, NEW n \in Pattern
  PROVE  /\ Moved(squashing, n) \in Pattern
         /\ Len(Moved(squashing, n)) = Len(n)
         /\ \A u : StandsFor(n, u) => StandsFor(Moved(squashing, n), u)
<1>1. at \in Pattern
  BY DEF TypeOK
<1> QED
  BY <1>1, MergeProperties, MergeStandsFor DEF Moved

(***************************************************************************)
(* Types.                                                                  *)
(***************************************************************************)

LEMMA TypeInit == Init => TypeOK
<1> SUFFICES ASSUME Init PROVE TypeOK
  OBVIOUS
<1>1. <<>> \in Pattern /\ Len(<<>>) = 0 /\ <<>> \in Seq(Urls) /\ Len(urls) = 0
  BY EmptySeq DEF Init
<1>2. /\ docs \in 0 .. MaxDocs /\ crashes \in 0 .. MaxCrashes
      /\ taken \in 0 .. Len(urls)
      /\ Len(at) <= MaxSegments
  BY <1>1, SquasherAssumption DEF Init
<1>3. unread \subseteq Pattern
  BY SquasherAssumption DEF Init
<1> QED
  BY <1>1, <1>2, <1>3 DEF Init, TypeOK

LEMMA TypeAddSegment ==
  ASSUME TypeOK, AddSegment
  PROVE  TypeOK'
<1>1. PICK squashing \in BOOLEAN :
        /\ nodes' = {Moved(squashing, n) : n \in Grown}
        /\ at' = Moved(squashing, Child)
        /\ IF squashing
           THEN /\ at \notin squashed /\ TooMany
                /\ squashed' = {p \in squashed : ~Under(at, p)} \cup {at}
           ELSE squashed' = squashed
  BY SegmentAdded
<1>2. locked /\ More /\ UNCHANGED <<docs, urls, taken, locked, added, batch, unread, known, crashes>>
  BY DEF AddSegment
<1>3. nodes' \subseteq Pattern
  BY <1>1, <1>2, GrownPatterns, MovedProperties
<1>4. <<>> \in nodes'
  <2>1. <<>> \in Grown /\ ~Under(at, <<>>)
    BY EmptySeq, LenProperties DEF TypeOK, Grown, Under
  <2> QED
    BY <1>1, <2>1 DEF Moved, Merge
<1>5. squashed' \subseteq nodes' \ {<<>>}
  <2>1. ASSUME NEW p \in squashed, squashing => ~Under(at, p)
        PROVE  p \in nodes'
    BY <1>1, <2>1 DEF Moved, Merge, Grown, TypeOK
  <2>2. squashing => at \in nodes' /\ at # <<>>
    <3>1. ~Under(at, at)
      BY LenProperties DEF TypeOK, Under
    <3> QED
      BY <1>1, <3>1 DEF Moved, Merge, Grown, TypeOK, TooMany
  <2> QED
    BY <1>1, <2>1, <2>2 DEF TypeOK
<1>6. at' \in nodes' /\ Len(at') <= MaxSegments /\ Len(at') <= Len(Url')
  <2>1. at' \in nodes'
    BY <1>1 DEF Grown
  <2>2. Len(at') = Len(at) + 1
    BY <1>1, <1>2, ChildProperties, MovedProperties
  <2>3. Len(Url) \in Nat /\ Len(at) \in Nat
    BY <1>2, ChildProperties, LenProperties
  <2>4. Url' = Url
    BY <1>2 DEF Url
  <2> QED
    BY <1>2, <2>1, <2>2, <2>3, <2>4, SquasherAssumption DEF More
<1> QED
  BY <1>2, <1>3, <1>4, <1>5, <1>6 DEF TypeOK

\* A new URL on the topic does not change the one that is being added.
LEMMA UrlStays ==
  ASSUME TypeOK, NEW u \in Urls, HandleUrl(u), locked
  PROVE  Url' = Url
<1>1. taken \in 1 .. Len(urls)
  BY LenProperties DEF TypeOK
<1>2. taken' = taken /\ (urls' = Append(urls, u) \/ urls' = urls)
  BY DEF HandleUrl
<1>3. CASE urls' = Append(urls, u)
  <2>1. Append(urls, u)[taken] = urls[taken]
    BY <1>1, AppendProperties DEF TypeOK
  <2> QED
    BY <1>2, <1>3, <2>1 DEF Url
<1> QED
  BY <1>2, <1>3 DEF Url

LEMMA TypeStep == TypeOK /\ [Next]_vars => TypeOK'
<1> SUFFICES ASSUME TypeOK, [Next]_vars PROVE TypeOK'
  OBVIOUS
<1>e. <<>> \in Pattern /\ Len(<<>>) = 0
  BY EmptySeq
<1>l. Len(urls) \in Nat
  BY LenProperties DEF TypeOK
\* add_path rests at the root.
<1>r. ASSUME at' = <<>>, <<>> \in nodes'
      PROVE  at' \in nodes' /\ Len(at') <= MaxSegments
  BY <1>e, <1>r, SquasherAssumption
<1>t. squashed \subseteq nodes \ {<<>>} /\ <<>> \in nodes
  BY DEF TypeOK
<1>1. ASSUME NEW u \in Urls, HandleUrl(u) PROVE TypeOK'
  <2>1. urls' \in Seq(Urls) /\ taken' \in 0 .. Len(urls')
    <3>1. Append(urls, u) \in Seq(Urls) /\ Len(Append(urls, u)) = Len(urls) + 1
      BY AppendProperties DEF TypeOK
    <3>2. urls \in Seq(Urls) /\ taken \in 0 .. Len(urls)
      BY DEF TypeOK
    <3>3. taken' = taken /\ (urls' = Append(urls, u) \/ urls' = urls)
      BY <1>1 DEF HandleUrl
    <3> QED
      BY <1>l, <3>1, <3>2, <3>3
  <2>2. docs' \in 0 .. MaxDocs
    BY <1>1, SquasherAssumption DEF HandleUrl, TypeOK
  <2>3. locked => Url' = Url
    BY <1>1, UrlStays
  <2> QED
    BY <1>1, <2>1, <2>2, <2>3 DEF HandleUrl, TypeOK
<1>2. CASE BeginAdd
  <2>1. taken + 1 \in 1 .. Len(urls)
    BY <1>2, <1>l DEF BeginAdd, TypeOK
  <2>2. urls[taken + 1] \in Urls
    BY <2>1, ElementOfSeq DEF TypeOK
  <2>3. Len(Url') \in Nat
    BY <1>2, <2>2, SquasherAssumption, LenProperties DEF BeginAdd, Url
  <2> QED
    BY <1>2, <1>r, <1>t, <1>e, <2>1, <2>2, <2>3 DEF BeginAdd, TypeOK
<1>3. CASE AddSegment
  BY <1>3, TypeAddSegment
<1>4. CASE EndAdd
  BY <1>4, <1>r, <1>t DEF EndAdd, TypeOK
<1>5. ASSUME NEW f \in Flushers, FlushRead(f) PROVE TypeOK'
  BY <1>5 DEF FlushRead, TypeOK, Regexes, Url
<1>6. ASSUME NEW f \in Flushers, FlushPublish(f) \/ FlushSkip(f) PROVE TypeOK'
  <2>1. PICK r \in batch[f] : Consider(f, r) /\ (unread' = unread \cup {r} \/ unread' = unread)
    BY <1>6 DEF FlushPublish, FlushSkip
  <2>2. unread' \subseteq Pattern /\ DOMAIN batch' = Flushers
    BY <2>1 DEF Consider, TypeOK
  <2>3. \A g \in Flushers : batch'[g] \subseteq Pattern
    BY <2>1 DEF Consider, TypeOK
  <2>4. UNCHANGED <<docs, urls, taken, nodes, squashed, locked, at, added, known, crashes>>
    BY <1>6 DEF FlushPublish, FlushSkip
  <2> QED
    BY <2>2, <2>3, <2>4 DEF TypeOK, Url
<1>7. CASE LearnRegex
  BY <1>7 DEF LearnRegex, TypeOK, Url
<1>8. CASE Crash
  <2>1. taken' \in 0 .. Len(urls)
    BY <1>8, <1>l DEF Crash, TypeOK
  <2>2. crashes' \in 0 .. MaxCrashes /\ unread' \subseteq Pattern
    BY <1>8, SquasherAssumption DEF Crash, TypeOK
  <2> QED
    BY <1>8, <1>r, <1>e, <2>1, <2>2 DEF Crash, TypeOK
<1>9. CASE UNCHANGED vars
  BY <1>9 DEF vars, TypeOK, Url
<1> QED
  BY <1>1, <1>2, <1>3, <1>4, <1>5, <1>6, <1>7, <1>8, <1>9 DEF Next, Squash

\* The types, and the place of tm_path_squasher_add_path in its tree.
THEOREM TypeCorrect == Spec => []TypeOK
<1> QED
  BY TypeInit, TypeStep, PTL DEF Spec

(***************************************************************************)
(* Every URL keeps its place.                                              *)
(***************************************************************************)

\* add_path has come to a node that stands for its URL.
ComesToUrl == locked => StandsFor(at, Url)

PlaceInv == TypeOK /\ ComesToUrl /\ UrlsKeepTheirPlace

LEMMA RootStandsFor ==
  ASSUME NEW u \in Seq(Segments)
  PROVE  StandsFor(<<>>, u)
BY EmptySeq, LenProperties DEF StandsFor

LEMMA ChildStandsFor ==
  ASSUME TypeOK, ComesToUrl, locked, More
  PROVE  StandsFor(Child, Url)
<1>1. DOMAIN Child = 1 .. Len(at) + 1 /\ DOMAIN at = 1 .. Len(at)
  BY ChildProperties, LenProperties DEF TypeOK
<1>2. Len(Url) \in Nat
  BY ChildProperties, LenProperties
<1> QED
  BY <1>1, <1>2, ChildProperties DEF ComesToUrl, StandsFor

LEMMA PlaceInit == Init => ComesToUrl /\ UrlsKeepTheirPlace
BY DEF Init, ComesToUrl, UrlsKeepTheirPlace

LEMMA PlaceAddSegment ==
  ASSUME PlaceInv, AddSegment
  PROVE  ComesToUrl' /\ UrlsKeepTheirPlace'
<1> USE DEF PlaceInv
<1>1. PICK squashing \in BOOLEAN :
        /\ nodes' = {Moved(squashing, n) : n \in Grown}
        /\ at' = Moved(squashing, Child)
  BY SegmentAdded
<1>2. locked /\ More /\ locked' = locked /\ added' = added /\ Url' = Url
  BY DEF AddSegment, Url
<1>3. at' \in nodes' /\ StandsFor(at', Url)
  BY <1>1, <1>2, ChildProperties, ChildStandsFor, MovedProperties DEF Grown
<1>4. ComesToUrl'
  BY <1>2, <1>3 DEF ComesToUrl, StandsFor
<1>5. ASSUME NEW u \in added
      PROVE  \E n \in nodes' :
               /\ StandsFor(n, u)
               /\ \/ Len(n) = Len(u) \/ Len(n) = MaxSegments
                  \/ locked' /\ u = Url' /\ n = at'
  <2>1. PICK n \in nodes : /\ StandsFor(n, u)
                           /\ \/ Len(n) = Len(u) \/ Len(n) = MaxSegments
                              \/ locked /\ u = Url /\ n = at
    BY DEF UrlsKeepTheirPlace
  <2>2. CASE u = Url /\ n = at
    BY <1>2, <1>3, <2>2
  <2>3. CASE Len(n) = Len(u) \/ Len(n) = MaxSegments
    <3>1. n \in Pattern /\ n \in Grown
      BY DEF TypeOK, Grown
    <3>2. StandsFor(Moved(squashing, n), u) /\ Len(Moved(squashing, n)) = Len(n)
      BY <2>1, <3>1, MovedProperties
    <3> QED
      BY <1>1, <2>3, <3>1, <3>2
  <2> QED
    BY <2>1, <2>2, <2>3
<1> QED
  BY <1>2, <1>4, <1>5 DEF UrlsKeepTheirPlace, StandsFor

LEMMA PlaceStep == PlaceInv /\ [Next]_vars => PlaceInv'
<1> SUFFICES ASSUME PlaceInv, [Next]_vars PROVE ComesToUrl' /\ UrlsKeepTheirPlace'
  BY TypeStep DEF PlaceInv
<1> USE DEF PlaceInv
<1>l. Len(urls) \in Nat
  BY LenProperties DEF TypeOK
<1>s. ASSUME UNCHANGED <<nodes, locked, at, added>>, locked => Url' = Url
      PROVE  ComesToUrl' /\ UrlsKeepTheirPlace'
  BY <1>s DEF ComesToUrl, UrlsKeepTheirPlace, StandsFor
<1>1. ASSUME NEW u \in Urls, HandleUrl(u) PROVE ComesToUrl' /\ UrlsKeepTheirPlace'
  <2>2. locked => Url' = Url
    BY <1>1, UrlStays
  <2> QED
    BY <1>1, <1>s, <2>2 DEF HandleUrl
<1>2. CASE BeginAdd
  <2>1. taken + 1 \in 1 .. Len(urls)
    BY <1>2, <1>l DEF BeginAdd, TypeOK
  <2>2. Url' \in Seq(Segments) /\ Url' = urls[taken + 1]
    BY <1>2, <2>1, ElementOfSeq, SquasherAssumption DEF BeginAdd, TypeOK, Url
  <2>3. locked' /\ at' = <<>> /\ StandsFor(<<>>, Url') /\ <<>> \in nodes'
    BY <1>2, <2>2, RootStandsFor DEF BeginAdd, TypeOK
  <2>4. ASSUME NEW u \in added'
        PROVE  \E n \in nodes' :
                 /\ StandsFor(n, u)
                 /\ \/ Len(n) = Len(u) \/ Len(n) = MaxSegments
                    \/ locked' /\ u = Url' /\ n = at'
    <3>1. CASE u \in added
      BY <1>2, <3>1 DEF BeginAdd, UrlsKeepTheirPlace
    <3>2. CASE u = Url'
      BY <2>3, <3>2
    <3> QED
      BY <1>2, <2>2, <2>4, <3>1, <3>2 DEF BeginAdd
  <2> QED
    BY <2>3, <2>4 DEF ComesToUrl, UrlsKeepTheirPlace, StandsFor
<1>3. CASE AddSegment
  BY <1>3, PlaceAddSegment
<1>4. CASE EndAdd
  <2>1. Len(at) = Len(Url) \/ Len(at) = MaxSegments
    <3>1. Url \in Seq(Segments) /\ at \in Pattern
      BY <1>4, <1>l, ElementOfSeq, SquasherAssumption DEF EndAdd, TypeOK, Url
    <3>2. Len(Url) \in Nat /\ Len(at) \in Nat
      BY <3>1, LenProperties
    <3> QED
      BY <1>4, <3>2, SquasherAssumption DEF EndAdd, More, TypeOK
  <2>2. UNCHANGED <<nodes, added>> /\ ~locked'
    BY <1>4 DEF EndAdd
  <2>3. \A u \in added : \E n \in nodes :
          StandsFor(n, u) /\ (Len(n) = Len(u) \/ Len(n) = MaxSegments)
    BY <2>1 DEF UrlsKeepTheirPlace
  <2> QED
    BY <2>2, <2>3 DEF ComesToUrl, UrlsKeepTheirPlace, StandsFor
<1>5. ASSUME NEW f \in Flushers, FlushRead(f) \/ FlushPublish(f) \/ FlushSkip(f)
      PROVE  ComesToUrl' /\ UrlsKeepTheirPlace'
  BY <1>5, <1>s DEF FlushRead, FlushPublish, FlushSkip, Url
<1>6. CASE LearnRegex \/ UNCHANGED vars
  BY <1>6, <1>s DEF LearnRegex, vars, Url
<1>7. CASE Crash
  BY <1>7 DEF Crash, ComesToUrl, UrlsKeepTheirPlace
<1> QED
  BY <1>1, <1>2, <1>3, <1>4, <1>5, <1>6, <1>7 DEF Next, Squash

\* No squash, and no merge of levels squashed before, loses a URL that
\* tm_path_squasher_add_path was given.
THEOREM PlacesKept == Spec => []UrlsKeepTheirPlace
<1>1. Init => PlaceInv
  BY TypeInit, PlaceInit DEF PlaceInv
<1>2. PlaceInv => UrlsKeepTheirPlace
  BY DEF PlaceInv
<1> QED
  BY <1>1, <1>2, PlaceStep, PTL DEF Spec

(***************************************************************************)
(* Every wildcard is earned.                                               *)
(***************************************************************************)

\* A node is there because of a URL, and a level is squashed because of the
\* URLs that pass through it.
NodesHaveUrls   == \A n \in nodes : n # <<>> => \E u \in Published : StandsFor(n, u)
SquashedEarned  == \A p \in squashed : Cardinality(Variants(p, Len(p) + 1)) > Limit(Len(p))
TreeInv ==
  /\ PlaceInv
  /\ IsFiniteSet(nodes)
  /\ NodesHaveUrls
  /\ SquashedEarned
  /\ \A n \in nodes : Earned(n)

EarnedInv == TreeInv /\ WildcardsAreEarned

\* A set of URLs, and the segments some of them have at a position.
Elements(q) == {q[j] : j \in DOMAIN q}
At(U, i)    == {u[i] : u \in U}

LEMMA ElementsFinite ==
  ASSUME NEW q \in Seq(Urls)
  PROVE  IsFiniteSet(Elements(q))
<1> DEFINE f == [j \in DOMAIN q |-> q[j]]
<1>1. IsFiniteSet(DOMAIN q)
  <2>1. Len(q) \in Nat /\ DOMAIN q = 1 .. Len(q)
    BY LenProperties
  <2> QED
    BY <2>1, FS_Interval
<1>2. f \in Surjection(DOMAIN q, Elements(q))
  BY DEF Surjection, Elements
<1> QED
  BY <1>1, <1>2, FS_Surjection, Zenon

LEMMA AtFinite ==
  ASSUME NEW U, IsFiniteSet(U), NEW i
  PROVE  IsFiniteSet(At(U, i))
<1> DEFINE f == [u \in U |-> u[i]]
<1>1. f \in Surjection(U, At(U, i))
  BY DEF Surjection, At
<1> QED
  BY <1>1, FS_Surjection, Zenon

\* The variants of a segment are finitely many.
Passing(q, r, i) ==
  {v \in Elements(q) : Len(v) >= i /\ \A k \in 1 .. i - 1 : r[k] \in {v[k], Dots}}

LEMMA VariantsFinite ==
  ASSUME NEW q \in Seq(Urls), NEW r, NEW i
  PROVE  /\ IsFiniteSet(At(Passing(q, r, i), i))
         /\ Cardinality(At(Passing(q, r, i), i)) \in Nat
<1>1. IsFiniteSet(Passing(q, r, i))
  BY ElementsFinite, FS_Subset, Passing(q, r, i) \in SUBSET Elements(q), Zenon DEF Passing
<1> QED
  BY <1>1, AtFinite, FS_CardinalityType

\* They become more if the segments before become more general ...
LEMMA VariantsGrow ==
  ASSUME TypeOK, NEW r, NEW s, NEW i,
         \A k \in 1 .. i - 1 : s[k] \in {r[k], Dots}
  PROVE  /\ Variants(r, i) \subseteq Variants(s, i)
         /\ Cardinality(Variants(r, i)) \in Nat /\ Cardinality(Variants(s, i)) \in Nat
         /\ Cardinality(Variants(r, i)) <= Cardinality(Variants(s, i))
<1>1. Variants(r, i) \subseteq Variants(s, i)
  BY DEF Variants
<1>2. /\ Variants(r, i) = At(Passing(urls, r, i), i)
      /\ Variants(s, i) = At(Passing(urls, s, i), i)
  BY DEF Variants, At, Passing, Published, Elements
<1>3. urls \in Seq(Urls)
  BY DEF TypeOK
<1> QED
  BY <1>1, <1>2, <1>3, VariantsFinite, FS_Subset

\* ... or more URLs are published.
LEMMA VariantsStay ==
  ASSUME TypeOK, TypeOK', Published \subseteq Published', NEW r, NEW i
  PROVE  /\ Cardinality(Variants(r, i)) \in Nat /\ Cardinality(Variants(r, i)') \in Nat
         /\ Cardinality(Variants(r, i)) <= Cardinality(Variants(r, i)')
<1>1. Variants(r, i) \subseteq Variants(r, i)'
  BY DEF Variants
<1>2. /\ Variants(r, i) = At(Passing(urls, r, i), i)
      /\ Variants(r, i)' = At(Passing(urls', r, i), i)
  BY DEF Variants, At, Passing, Published, Elements
<1>3. urls \in Seq(Urls) /\ urls' \in Seq(Urls)
  BY DEF TypeOK
<1> QED
  BY <1>1, <1>2, <1>3, VariantsFinite, FS_Subset

\* What was earned stays earned.
LEMMA EarnedStays ==
  ASSUME TypeOK, TypeOK', Published \subseteq Published', NEW r \in Pattern, Earned(r)
  PROVE  Earned(r)'
<1> SUFFICES ASSUME NEW i \in DOMAIN r, r[i] = Dots
             PROVE  Cardinality(Variants(r, i)') > Limit(i - 1)
  BY DEF Earned
<1>1. i - 1 \in Nat
  BY LenProperties
<1>2. Cardinality(Variants(r, i)) > Limit(i - 1)
  BY DEF Earned
<1>3. Limit(i - 1) \in Nat
  BY <1>1, LimitType
<1>4. /\ Cardinality(Variants(r, i)) \in Nat /\ Cardinality(Variants(r, i)') \in Nat
      /\ Cardinality(Variants(r, i)) <= Cardinality(Variants(r, i)')
  BY VariantsStay
<1> QED
  BY <1>2, <1>3, <1>4

\* The children that make a squash necessary show so many variants: each has
\* a segment of its own, unless one of them is a "{...}" that was earned.
LEMMA TooManyVariants ==
  ASSUME TreeInv, locked, More, at \notin squashed, TooMany
  PROVE  Cardinality(Variants(at, Len(at) + 1)) > Limit(Len(at))
<1> USE DEF TreeInv, PlaceInv
<1> DEFINE l == Len(at)
           C == Children(Grown, at)
           V == Variants(at, l + 1)
<1>1. at \in Pattern /\ l \in Nat /\ Limit(l) \in Nat
  BY LenProperties, LimitType DEF TypeOK
<1>2. Cardinality(C) > Limit(l)
  BY DEF TooMany
<1>3. ASSUME NEW c \in C
      PROVE  /\ c \in Pattern /\ Len(c) = l + 1 /\ DOMAIN c = 1 .. l + 1
             /\ \A k \in 1 .. l : c[k] = at[k]
  <2>1. c \in Pattern /\ Len(c) = l + 1 /\ Under(at, c)
    BY GrownPatterns DEF Children
  <2> QED
    BY <2>1, <1>1, LenProperties DEF Under
<1>4. CASE \E c \in C : c[l + 1] = Dots
  <2>1. PICK c \in C : c[l + 1] = Dots
    BY <1>4
  <2>2. c # Child
    BY <2>1, ChildProperties, SquasherAssumption
  <2>3. Earned(c)
    BY <2>2 DEF Grown, Children
  <2>4. Cardinality(Variants(c, l + 1)) > Limit(l)
    BY <1>1, <1>3, <2>1, <2>3 DEF Earned
  <2>5. \A k \in 1 .. (l + 1) - 1 : at[k] \in {c[k], Dots}
    BY <1>1, <1>3
  <2> QED
    BY <1>1, <2>4, <2>5, VariantsGrow
<1>5. CASE \A c \in C : c[l + 1] # Dots
  <2> DEFINE f == [c \in C |-> c[l + 1]]
  <2>1. ASSUME NEW c \in C
        PROVE  c[l + 1] \in V
    <3>1. \E u \in Published : StandsFor(c, u)
      <4>1. CASE c = Child
        <5>1. Url \in Published
          BY LenProperties DEF TypeOK, Published, Url
        <5> QED
          BY <4>1, <5>1, ChildStandsFor
      <4>2. CASE c \in nodes
        <5>1. c # <<>>
          BY <1>1, <1>3, EmptySeq
        <5> QED
          BY <4>2, <5>1 DEF NodesHaveUrls
      <4> QED
        BY <4>1, <4>2 DEF Grown, Children
    <3>2. PICK u \in Published : StandsFor(c, u)
      BY <3>1
    <3>3. Len(u) >= l + 1 /\ \A k \in 1 .. l + 1 : c[k] \in {u[k], Dots}
      <4>1. Len(u) \in Nat
        BY ElementOfSeq, SquasherAssumption, LenProperties DEF Published, TypeOK
      <4> QED
        BY <1>1, <1>3, <3>2, <4>1 DEF StandsFor
    <3>4. c[l + 1] = u[l + 1]
      BY <1>1, <1>5, <3>3
    <3>5. \A k \in 1 .. (l + 1) - 1 : at[k] \in {u[k], Dots}
      BY <1>1, <1>3, <3>3
    <3> QED
      BY <3>3, <3>4, <3>5 DEF Variants
  <2>2. ASSUME NEW c \in C, NEW d \in C, c[l + 1] = d[l + 1]
        PROVE  c = d
    <3>1. \A k \in 1 .. l + 1 : c[k] = d[k]
      BY <1>1, <1>3, <2>2
    <3> QED
      BY <1>3, <3>1, SeqEqual
  <2>3. f \in Injection(C, V)
    BY <2>1, <2>2 DEF Injection, IsInjective
  <2>4. IsFiniteSet(V) /\ Cardinality(V) \in Nat
    <3>1. V = At(Passing(urls, at, l + 1), l + 1) /\ urls \in Seq(Urls)
      BY DEF Variants, At, Passing, Published, Elements, TypeOK
    <3> QED
      BY <3>1, VariantsFinite
  <2>5. IsFiniteSet(C) /\ Cardinality(C) <= Cardinality(V) /\ Cardinality(C) \in Nat
    BY <2>3, <2>4, FS_Injection, FS_CardinalityType, Zenon
  <2> QED
    BY <1>1, <1>2, <2>4, <2>5
<1> QED
  BY <1>4, <1>5

\* The node that add_path comes to next is earned.
LEMMA ChildEarned ==
  ASSUME TreeInv, locked, More
  PROVE  Earned(Child)
<1> USE DEF TreeInv, PlaceInv
<1> SUFFICES ASSUME NEW i \in DOMAIN Child, Child[i] = Dots
             PROVE  Cardinality(Variants(Child, i)) > Limit(i - 1)
  BY DEF Earned
<1>1. at \in Pattern /\ Len(at) \in Nat /\ DOMAIN at = 1 .. Len(at)
  BY LenProperties DEF TypeOK
<1>2. i \in 1 .. Len(at) + 1
  BY LenProperties, ChildProperties
<1>3. \A k \in 1 .. i - 1 : Child[k] \in {at[k], Dots}
  BY <1>1, <1>2, ChildProperties
<1>p. i - 1 \in Nat
  BY <1>1, <1>2
<1>4. Limit(i - 1) \in Nat
  BY <1>p, LimitType
<1>5. Cardinality(Variants(at, i)) > Limit(i - 1)
  <2>1. CASE i \in 1 .. Len(at)
    <3>1. at[i] = Dots /\ Earned(at)
      BY <2>1, ChildProperties DEF TypeOK
    <3> QED
      BY <1>1, <2>1, <3>1 DEF Earned
  <2>2. CASE i = Len(at) + 1
    <3>1. at \in squashed
      BY <2>2, ChildProperties, SquasherAssumption
    <3>2. Cardinality(Variants(at, Len(at) + 1)) > Limit(Len(at))
      BY <3>1 DEF SquashedEarned
    <3>3. i - 1 = Len(at)
      BY <1>1, <2>2
    <3> QED
      BY <2>2, <3>2, <3>3
  <2> QED
    BY <1>1, <1>2, <2>1, <2>2
<1> QED
  BY <1>3, <1>4, <1>5, VariantsGrow

\* So is every node after the merge of a squash.
LEMMA MergeEarned ==
  ASSUME TreeInv, locked, More, at \notin squashed, TooMany,
         NEW n \in Grown
  PROVE  Earned(Merge(at, n))
<1> USE DEF TreeInv, PlaceInv
<1> DEFINE m == Merge(at, n)
<1>1. n \in Pattern /\ at \in Pattern /\ Len(at) \in Nat /\ Len(n) \in Nat /\ DOMAIN n = 1 .. Len(n)
  BY GrownPatterns, LenProperties DEF TypeOK
<1>2. /\ DOMAIN m = 1 .. Len(n)
      /\ \A k \in 1 .. Len(n) : m[k] = IF Under(at, n) /\ k = Len(at) + 1 THEN Dots ELSE n[k]
  BY <1>1, MergeProperties, LenProperties
<1>3. Earned(n)
  BY ChildEarned DEF Grown
<1> SUFFICES ASSUME NEW i \in 1 .. Len(n), m[i] = Dots
             PROVE  Cardinality(Variants(m, i)) > Limit(i - 1)
  BY <1>2 DEF Earned
<1>p. i - 1 \in Nat
  BY <1>1
<1>4. Limit(i - 1) \in Nat
  BY <1>p, LimitType
<1>5. CASE n[i] = Dots
  <2>1. \A k \in 1 .. i - 1 : m[k] \in {n[k], Dots}
    BY <1>1, <1>2
  <2>2. Cardinality(Variants(n, i)) > Limit(i - 1)
    BY <1>1, <1>3, <1>5 DEF Earned
  <2> QED
    BY <1>4, <2>1, <2>2, VariantsGrow
<1>6. CASE n[i] # Dots
  <2>1. Under(at, n) /\ i = Len(at) + 1
    BY <1>2, <1>6
  <2>2. \A k \in 1 .. Len(at) : n[k] = at[k]
    BY <2>1, <1>1, LenProperties DEF Under
  <2>3. \A k \in 1 .. i - 1 : m[k] \in {at[k], Dots}
    BY <1>1, <1>2, <2>1, <2>2
  <2>4. Cardinality(Variants(at, i)) > Limit(i - 1)
    BY <1>1, <2>1, TooManyVariants
  <2> QED
    BY <1>4, <2>3, <2>4, VariantsGrow
<1> QED
  BY <1>5, <1>6

LEMMA TreeAddSegment ==
  ASSUME TreeInv, AddSegment, PlaceInv'
  PROVE  TreeInv'
<1> USE DEF TreeInv, PlaceInv
<1>1. PICK squashing \in BOOLEAN :
        /\ nodes' = {Moved(squashing, n) : n \in Grown}
        /\ IF squashing
           THEN /\ at \notin squashed /\ TooMany
                /\ squashed' = {p \in squashed : ~Under(at, p)} \cup {at}
           ELSE squashed' = squashed
  BY SegmentAdded
<1>2. locked /\ More /\ urls' = urls
  BY DEF AddSegment
<1>3. Published' = Published
  BY <1>2 DEF Published
<1>4. \A r, i : Variants(r, i)' = Variants(r, i)
  BY <1>3 DEF Variants
<1>5. IsFiniteSet(nodes')
  <2> DEFINE f == [n \in Grown |-> Moved(squashing, n)]
  <2>1. IsFiniteSet(Grown)
    BY FS_AddElement DEF Grown
  <2>2. f \in Surjection(Grown, nodes')
    BY <1>1 DEF Surjection
  <2> QED
    BY <2>1, <2>2, FS_Surjection, Zenon
<1>6. NodesHaveUrls'
  <2> SUFFICES ASSUME NEW m \in nodes', m # <<>>
               PROVE  \E u \in Published : StandsFor(m, u)
    BY <1>3 DEF NodesHaveUrls, StandsFor
  <2>1. PICK n \in Grown : m = Moved(squashing, n)
    BY <1>1
  <2>2. n \in Pattern /\ Len(m) = Len(n)
    BY <1>2, <2>1, GrownPatterns, MovedProperties
  <2>3. \E u \in Published : StandsFor(n, u)
    <3>1. CASE n = Child
      <4>1. Url \in Published
        BY <1>2, LenProperties DEF TypeOK, Published, Url
      <4> QED
        BY <1>2, <3>1, <4>1, ChildStandsFor
    <3>2. CASE n \in nodes
      <4>1. n # <<>>
        <5>1. ~Under(at, <<>>)
          BY EmptySeq, LenProperties DEF TypeOK, Under
        <5> QED
          BY <2>1, <5>1 DEF Moved, Merge
      <4> QED
        BY <3>2, <4>1 DEF NodesHaveUrls
    <3> QED
      BY <3>1, <3>2 DEF Grown
  <2> QED
    BY <2>1, <2>2, <2>3, MovedProperties
<1>7. SquashedEarned'
  <2> SUFFICES ASSUME NEW p \in squashed'
               PROVE  Cardinality(Variants(p, Len(p) + 1)) > Limit(Len(p))
    BY <1>4 DEF SquashedEarned
  <2>1. CASE p \in squashed
    BY <2>1 DEF SquashedEarned
  <2>2. CASE p \notin squashed
    BY <1>1, <1>2, <2>2, TooManyVariants
  <2> QED
    BY <2>1, <2>2
<1>8. ASSUME NEW m \in nodes'
      PROVE  Earned(m)'
  <2>1. PICK n \in Grown : m = Moved(squashing, n)
    BY <1>1
  <2>2. Earned(m)
    <3>1. CASE squashing
      BY <1>1, <1>2, <2>1, <3>1, MergeEarned DEF Moved
    <3>2. CASE ~squashing
      BY <1>2, <2>1, <3>2, ChildEarned DEF Moved, Grown
    <3> QED
      BY <3>1, <3>2
  <2> QED
    BY <1>4, <2>2 DEF Earned
<1> QED
  BY <1>5, <1>6, <1>7, <1>8

\* In all other steps the tree stays or starts anew.
LEMMA TreeStep ==
  ASSUME TreeInv, [Next]_vars
  PROVE  TreeInv' /\ Published \subseteq Published'
<1> USE DEF TreeInv
<1>1. PlaceInv'
  BY PlaceStep
<1>2. TypeOK /\ TypeOK'
  BY <1>1 DEF PlaceInv
<1>3. CASE AddSegment
  BY <1>1, <1>3, TreeAddSegment DEF AddSegment, Published
<1>4. CASE UNCHANGED <<nodes, squashed>> /\ Published \subseteq Published'
  <2>1. NodesHaveUrls'
    BY <1>4 DEF NodesHaveUrls, StandsFor
  <2>2. ASSUME NEW n \in nodes'
        PROVE  Earned(n)'
    BY <1>2, <1>4, EarnedStays DEF TypeOK
  <2>3. ASSUME NEW p \in squashed
        PROVE  Cardinality(Variants(p, Len(p) + 1)') > Limit(Len(p))
    <3>1. Cardinality(Variants(p, Len(p) + 1)) > Limit(Len(p))
      BY DEF SquashedEarned
    <3>2. Limit(Len(p)) \in Nat
      BY <1>2, LenProperties, LimitType DEF TypeOK
    <3>3. /\ Cardinality(Variants(p, Len(p) + 1)) \in Nat
          /\ Cardinality(Variants(p, Len(p) + 1)') \in Nat
          /\ Cardinality(Variants(p, Len(p) + 1)) <= Cardinality(Variants(p, Len(p) + 1)')
      BY <1>2, <1>4, VariantsStay
    <3> QED
      BY <3>1, <3>2, <3>3
  <2>4. SquashedEarned'
    BY <1>4, <2>3 DEF SquashedEarned
  <2>5. IsFiniteSet(nodes')
    BY <1>4
  <2> QED
    BY <1>1, <1>4, <2>1, <2>2, <2>4, <2>5
<1>5. CASE nodes' = {<<>>} /\ squashed' = {} /\ urls' = urls
  <2>1. IsFiniteSet(nodes')
    BY <1>5, FS_Singleton
  <2>2. NodesHaveUrls' /\ SquashedEarned' /\ Published' = Published
    BY <1>5 DEF NodesHaveUrls, SquashedEarned, Published
  <2>3. \A n \in nodes' : Earned(n)'
    BY <1>5, DOMAIN <<>> = {} DEF Earned
  <2> QED
    BY <1>1, <2>1, <2>2, <2>3
<1>6. ASSUME NEW u \in Urls, HandleUrl(u)
      PROVE  Published \subseteq Published'
  <2>1. CASE urls' = Append(urls, u)
    <3>1. \A j \in DOMAIN urls : j \in DOMAIN urls' /\ urls'[j] = urls[j]
      BY <1>2, <2>1, AppendProperties, LenProperties DEF TypeOK
    <3> QED
      BY <3>1 DEF Published
  <2>2. CASE urls' = urls
    BY <2>2 DEF Published
  <2> QED
    BY <1>6, <2>1, <2>2 DEF HandleUrl
<1>7. ASSUME NEW u \in Urls, HandleUrl(u)
      PROVE  UNCHANGED <<nodes, squashed>>
  BY <1>7 DEF HandleUrl
<1>8. CASE BeginAdd \/ EndAdd \/ LearnRegex \/ UNCHANGED vars
  BY <1>4, <1>8 DEF BeginAdd, EndAdd, LearnRegex, vars, Published
<1>9. ASSUME NEW f \in Flushers, FlushRead(f) \/ FlushPublish(f) \/ FlushSkip(f)
      PROVE  UNCHANGED <<nodes, squashed, urls>>
  BY <1>9 DEF FlushRead, FlushPublish, FlushSkip
<1>10. CASE \E f \in Flushers : FlushRead(f) \/ FlushPublish(f) \/ FlushSkip(f)
  BY <1>4, <1>9, <1>10 DEF Published
<1>11. CASE Crash
  BY <1>5, <1>11 DEF Crash
<1> QED
  BY <1>3, <1>4, <1>6, <1>7, <1>8, <1>10, <1>11 DEF Next, Squash

\* The regexes that are somewhere between a squasher and a table.
Around == (unread \cup known \cup UNION {batch[f] : f \in Flushers}) \ Seeds

\* A regex comes from the tree; after that it is only passed on.
LEMMA RegexesPassedOn ==
  ASSUME TypeOK, [Next]_vars
  PROVE  Around' \subseteq Around \cup nodes
<1>1. ASSUME UNCHANGED <<unread, known, batch>>
      PROVE  Around' \subseteq Around
  BY <1>1 DEF Around
<1>2. (\E u \in Urls : HandleUrl(u)) \/ Squash \/ UNCHANGED vars => UNCHANGED <<unread, known, batch>>
  BY DEF HandleUrl, Squash, BeginAdd, AddSegment, EndAdd, vars
<1>3. ASSUME NEW f \in Flushers, FlushRead(f)
      PROVE  Around' \subseteq Around \cup nodes
  <2>1. unread' = unread /\ known' = known
    BY <1>3 DEF FlushRead
  <2>2. \A g \in Flushers : batch'[g] \subseteq batch[g] \cup nodes
    BY <1>3 DEF FlushRead, Regexes, TypeOK
  <2> QED
    BY <2>1, <2>2 DEF Around
<1>4. ASSUME NEW f \in Flushers, FlushPublish(f) \/ FlushSkip(f)
      PROVE  Around' \subseteq Around
  <2>1. PICK r \in batch[f] : Consider(f, r) /\ unread' \subseteq unread \cup {r}
    BY <1>4 DEF FlushPublish, FlushSkip
  <2>2. \A g \in Flushers : batch'[g] \subseteq batch[g]
    BY <2>1 DEF Consider, TypeOK
  <2>3. known' = known
    BY <1>4 DEF FlushPublish, FlushSkip
  <2> QED
    BY <2>1, <2>2, <2>3 DEF Around
<1>5. CASE LearnRegex
  BY <1>5 DEF LearnRegex, Around
<1>6. CASE Crash
  BY <1>6 DEF Crash, Around
<1> QED
  BY <1>1, <1>2, <1>3, <1>4, <1>5, <1>6 DEF Next

LEMMA EarnedInit == Init => EarnedInv
<1> SUFFICES ASSUME Init PROVE EarnedInv
  OBVIOUS
<1>1. PlaceInv
  BY TypeInit, PlaceInit DEF PlaceInv
<1>2. IsFiniteSet(nodes) /\ NodesHaveUrls /\ SquashedEarned
  BY FS_Singleton DEF Init, NodesHaveUrls, SquashedEarned
<1>3. \A n \in nodes : Earned(n)
  BY DOMAIN <<>> = {} DEF Init, Earned
<1>4. Around = {}
  BY DEF Init, Around
<1> QED
  BY <1>1, <1>2, <1>3, <1>4 DEF EarnedInv, TreeInv, WildcardsAreEarned, Around

LEMMA EarnedStep == EarnedInv /\ [Next]_vars => EarnedInv'
<1> SUFFICES ASSUME EarnedInv, [Next]_vars PROVE EarnedInv'
  OBVIOUS
<1>1. TreeInv' /\ Published \subseteq Published'
  BY TreeStep DEF EarnedInv
<1>2. TypeOK /\ TypeOK'
  BY <1>1 DEF EarnedInv, TreeInv, PlaceInv
<1>3. ASSUME NEW r \in Around'
      PROVE  Earned(r)'
  <2>1. r \in Around \cup nodes
    BY <1>2, RegexesPassedOn
  <2>2. r \in Pattern
    BY <1>2, <2>1 DEF Around, TypeOK
  <2>3. Earned(r)
    BY <2>1 DEF EarnedInv, TreeInv, WildcardsAreEarned, Around
  <2> QED
    BY <1>1, <1>2, <2>2, <2>3, EarnedStays
<1>4. WildcardsAreEarned'
  BY <1>1, <1>3 DEF TreeInv, WildcardsAreEarned, Around
<1> QED
  BY <1>1, <1>4 DEF EarnedInv

\* "{...}" replaces a segment, in the tree and in every regex published, learnt
\* or about to be, only where the published URLs had more variants than allowed.
THEOREM Wildcards == Spec => []WildcardsAreEarned
<1>1. EarnedInv => WildcardsAreEarned
  BY DEF EarnedInv
<1> QED
  BY <1>1, EarnedInit, EarnedStep, PTL DEF Spec
=============================================================================
