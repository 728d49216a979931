-------------------------- MODULE DcBotWalkProofs --------------------------
(***************************************************************************)
(* Proofs about the two walks of DcBot over pages that move: what a        *)
(* backfill that reached the end knows, which holes Latest can leave, how  *)
(* far its search goes, and that the goroutines together implement the     *)
(* archive, for any number of documents, page size, flags and restarts.    *)
(***************************************************************************)

EXTENDS DcBotProofs

\* How many of docs documents are on a page and behind it: they are
\* 1..Left(docs, page).
Left(docs, page) ==
  LET n == docs - (page - 1) * PerPage IN IF n > 0 THEN n ELSE 0

\* The newest document that a walk has still to look at. It goes down by one with
\* every document, and up when a publication moves the next page.
Front(docs, walk) == IF walk.pc = "insert" THEN walk.todo[1] ELSE Left(docs, walk.page)

Walking(walk) == walk.pc \in {"search", "insert"}

Last(s) == s[Len(s)]

\* The rest of a page is a run of documents down to the next page or over its head.
Shape(docs, walk) ==
  walk.pc = "insert" =>
    /\ walk.page < MaxPage /\ walk.todo # <<>>
    /\ \A i \in 1..Len(walk.todo) : walk.todo[i] = walk.todo[1] - i + 1
    /\ Last(walk.todo) <= Left(docs, walk.page + 1) + 1 /\ walk.todo[1] <= docs

\* The next page has not moved since the search.
Exact(docs, walk) ==
  walk.pc = "insert" => Last(walk.todo) = Left(docs, walk.page + 1) + 1

-----------------------------------------------------------------------------
(* The pages                                                               *)

LEMMA LeftType ==
  ASSUME published \in 0..MaxDocs, NEW page \in 1..(MaxPage + 1)
  PROVE  Left(published, page) \in 0..published
<1>1. page - 1 \in Nat /\ PerPage \in Nat
  BY DcAssumption DEF MaxPage
<1>2. (page - 1) * PerPage \in Nat
  BY <1>1, SMT
<1> QED
  BY <1>2 DEF Left

LEMMA LeftNext ==
  ASSUME published \in 0..MaxDocs, NEW page \in 1..MaxPage
  PROVE  Left(published, page + 1) =
           IF Left(published, page) > PerPage THEN Left(published, page) - PerPage ELSE 0
<1>1. page \in Int /\ PerPage \in Int /\ PerPage > 0 /\ published \in Int
  BY DcAssumption DEF MaxPage
<1>2. /\ (page - 1) * PerPage \in Int
      /\ ((page + 1) - 1) * PerPage = (page - 1) * PerPage + PerPage
  BY <1>1, SMT
<1> QED
  BY <1>1, <1>2 DEF Left

\* No document is on the last page.
LEMMA LeftEnd ==
  ASSUME published \in 0..MaxDocs
  PROVE  Left(published, MaxPage) = 0
<1>1. MaxDocs * PerPage >= MaxDocs
  BY DcAssumption, SMT
<1>2. MaxDocs * PerPage \in Int
  BY DcAssumption, SMT
<1>3. (MaxPage - 1) * PerPage = MaxDocs * PerPage
  BY DcAssumption DEF MaxPage
<1> QED
  BY <1>1, <1>2, <1>3, DcAssumption DEF Left

\* The first page begins with the newest document.
LEMMA LeftFirst ==
  ASSUME published \in 0..MaxDocs
  PROVE  Left(published, 1) = published
BY DcAssumption DEF Left

\* A search answers with the run of documents at the head of its page.
LEMMA ResultsShape ==
  ASSUME published \in 0..MaxDocs, NEW page \in 1..MaxPage
  PROVE  /\ Len(Results(page)) = IF Left(published, page) < PerPage THEN Left(published, page) ELSE PerPage
         /\ \A i \in 1..Len(Results(page)) : Results(page)[i] = Left(published, page) - i + 1
<1> DEFINE first == published - (page - 1) * PerPage
           size  == IF first < 0 THEN 0 ELSE IF first < PerPage THEN first ELSE PerPage
<1>1. (page - 1) * PerPage \in Int
  BY DcAssumption, SMT DEF MaxPage
<1>2. first \in Int
  BY <1>1
<1>3. Left(published, page) = IF first > 0 THEN first ELSE 0
  BY DEF Left
<1> HIDE DEF first
<1>4. size = (IF Left(published, page) < PerPage THEN Left(published, page) ELSE PerPage) /\ size \in Nat
      /\ (size > 0 => Left(published, page) = first)
  BY <1>2, <1>3, DcAssumption
<1> HIDE DEF size
<1>5. Results(page) = [i \in 1..size |-> first - i + 1]
  BY DEF Results, first, size
<1> QED
  BY <1>2, <1>4, <1>5

\* Where a walk is after a search that moves on behind an empty page.
LEMMA SearchWalk ==
  ASSUME published \in 0..MaxDocs, NEW page \in 1..MaxPage,
         NEW w, w = After(page, Results(page))
  PROVE  /\ Walking(w) /\ Shape(published, w) /\ Exact(published, w)
         /\ Front(published, w) = Left(published, page)
         /\ (w.pc = "search" => Left(published, page) = 0 /\ (w.page = 1 => page = 1))
<1>1. /\ Left(published, page) \in Nat /\ Left(published, page + 1) \in Nat
      /\ Left(published, page + 1) =
           IF Left(published, page) > PerPage THEN Left(published, page) - PerPage ELSE 0
      /\ Results(page) \in Seq(Docs) /\ Left(published, page) <= published
  BY LeftType, LeftNext, ResultsType, DcAssumption DEF MaxPage
<1>2. /\ Len(Results(page)) = IF Left(published, page) < PerPage THEN Left(published, page) ELSE PerPage
      /\ \A i \in 1..Len(Results(page)) : Results(page)[i] = Left(published, page) - i + 1
  BY ResultsShape
<1>3. CASE Results(page) = <<>>
  <2>1. Left(published, page) = 0
    BY <1>1, <1>2, <1>3, DcAssumption
  <2>2. Left(published, NextPage(page)) = 0
    BY <1>1, <2>1, LeftEnd, DcAssumption DEF NextPage
  <2>3. NextPage(page) = 1 => page = 1
    BY DcAssumption DEF NextPage, MaxPage
  <2> QED
    BY <1>3, <2>1, <2>2, <2>3 DEF After, At, Walking, Shape, Exact, Front
<1>4. CASE Results(page) # <<>>
  <2>1. Len(Results(page)) \in Nat \ {0}
    BY <1>1, <1>4
  <2>2. w = At("insert", page, Results(page))
    BY <1>4 DEF After
  <2>3. page < MaxPage
    <3>1. Left(published, page) # 0
      BY <1>1, <1>2, <2>1, DcAssumption
    <3>2. page # MaxPage
      BY <3>1, LeftEnd
    <3> QED
      BY <3>2, DcAssumption DEF MaxPage
  <2>4. Results(page)[1] = Left(published, page) /\ Last(Results(page)) = Left(published, page + 1) + 1
    <3>1. 1 \in 1..Len(Results(page)) /\ Len(Results(page)) \in 1..Len(Results(page))
      BY <2>1
    <3>2. Last(Results(page)) = Left(published, page) - Len(Results(page)) + 1
      BY <1>2, <3>1 DEF Last
    <3>3. Results(page)[1] = Left(published, page)
      BY <1>1, <1>2, <3>1
    <3> QED
      BY <1>1, <1>2, <3>2, <3>3, DcAssumption
  <2>5. w.pc = "insert" /\ w.page = page /\ w.todo = Results(page)
    BY <2>2 DEF At
  <2> QED
    BY <1>1, <1>2, <1>4, <2>3, <2>4, <2>5 DEF Walking, Shape, Exact, Front
<1> QED
  BY <1>3, <1>4

\* Where a walk is after the document at its front.
LEMMA InsertWalk ==
  ASSUME published \in 0..MaxDocs, NEW walk \in Walk, walk.pc = "insert", Shape(published, walk),
         NEW w, w = After(walk.page, Tail(walk.todo))
  PROVE  /\ Walking(w) /\ Shape(published, w) /\ Front(published, walk) - 1 <= Front(published, w)
         /\ Front(published, walk) \in Docs /\ Front(published, w) \in 0..MaxDocs
         /\ Front(published, walk) = Head(walk.todo)
         /\ w.pc = "search" => w.page # 1
         /\ Exact(published, walk) => Exact(published, w) /\ Front(published, w) = Front(published, walk) - 1
<1> DEFINE s == walk.todo
<1>1. s \in Seq(Docs) /\ s # <<>> /\ walk.page \in 1..MaxPage /\ walk.page < MaxPage
      /\ walk.page + 1 \in 2..MaxPage
  BY DcAssumption DEF Walk, Shape, MaxPage
<1>2. Len(s) \in Nat \ {0} /\ \A i \in 1..Len(s) : s[i] \in Docs
  BY <1>1
<1>3. Left(published, walk.page + 1) \in 0..MaxDocs
  BY <1>1, LeftType, DcAssumption DEF MaxPage
<1>4. /\ \A i \in 1..Len(s) : s[i] = s[1] - i + 1
      /\ Last(s) <= Left(published, walk.page + 1) + 1
  BY DEF Shape
<1>5. Front(published, walk) = s[1] /\ s[1] \in Docs /\ Head(s) = s[1]
  BY <1>1, <1>2 DEF Front
<1>6. CASE Tail(s) = <<>>
  <2>1. Len(s) = 1 /\ Last(s) = s[1]
    <3>1. Len(s) = 1
      <4>1. Len(Tail(s)) = Len(s) - 1 /\ Len(<<>>) = 0
        BY <1>1, HeadTailProperties, EmptySeq
      <4> HIDE DEF s
      <4> QED
        BY <1>2, <1>6, <4>1
    <3> QED
      BY <3>1 DEF Last
  <2>2. w.pc = "search" /\ w.page = walk.page + 1
    BY <1>1, <1>6 DEF After, At, NextPage
  <2>3. Front(published, w) = Left(published, walk.page + 1)
    BY <2>2 DEF Front
  <2>4. Walking(w) /\ Shape(published, w) /\ Exact(published, w) /\ w.page # 1
    BY <1>1, <2>2, SMT DEF Walking, Shape, Exact
  <2>5. Exact(published, walk) => Front(published, w) = Front(published, walk) - 1
    BY <1>2, <1>3, <1>5, <2>1, <2>3 DEF Exact, Docs
  <2> QED
    BY <1>2, <1>3, <1>4, <1>5, <2>1, <2>3, <2>4, <2>5 DEF Docs
<1>7. CASE Tail(s) # <<>>
  <2>1. w.pc = "insert" /\ w.page = walk.page /\ w.todo = Tail(s)
    BY <1>7 DEF After, At
  <2>2. /\ Len(Tail(s)) = Len(s) - 1 /\ Len(s) > 1
        /\ \A i \in 1..Len(Tail(s)) : Tail(s)[i] = s[i + 1]
    BY <1>1, <1>2, <1>7
  <2>3. Tail(s)[1] = s[1] - 1 /\ Last(Tail(s)) = Last(s)
    BY <1>2, <1>4, <2>2 DEF Last, Docs
  <2>4. ASSUME NEW i \in 1..Len(Tail(s)) PROVE Tail(s)[i] = Tail(s)[1] - i + 1
    <3>1. i + 1 \in 1..Len(s) /\ Tail(s)[i] = s[i + 1] /\ s[i + 1] = s[1] - (i + 1) + 1
      BY <1>2, <1>4, <2>2
    <3> QED
      BY <1>5, <2>3, <3>1 DEF Docs
  <2>5. Front(published, w) = s[1] - 1
    BY <2>1, <2>3 DEF Front
  <2>6. Tail(s)[1] \in Docs /\ Tail(s)[1] <= published
    <3>1. s[1] <= published /\ s[1] \in Int
      BY <1>2, DcAssumption DEF Shape, Docs
    <3> QED
      BY <1>2, <2>2, <2>3, <3>1, DcAssumption
  <2>7. Walking(w) /\ Shape(published, w) /\ (Exact(published, walk) => Exact(published, w))
    BY <1>1, <1>4, <1>7, <2>1, <2>3, <2>4, <2>6 DEF Walking, Shape, Exact
  <2>8. Front(published, w) \in 0..MaxDocs /\ Front(published, walk) - 1 <= Front(published, w)
        /\ Front(published, w) = Front(published, walk) - 1
    BY <1>5, <2>3, <2>5, <2>6, DcAssumption DEF Docs
  <2>9. w.pc # "search"
    BY <2>1
  <2> QED
    BY <1>5, <2>7, <2>8, <2>9, Zenon
<1> QED
  BY <1>6, <1>7

-----------------------------------------------------------------------------
(* The invariant                                                           *)

ShapeInv == Shape(published, latest) /\ Shape(published, back)

KnownInv == known \subseteq 1..published /\ found \subseteq known

\* What a search of Latest inserted has no hole above the front.
LatestInv ==
  /\ ~up => latest.pc = "search"
  /\ latest.pc = "sleep" \/ ~up \/ (latest.pc = "search" /\ latest.page = 1) => found = {}
  /\ Walking(latest) =>
       \A hi \in found : \A d \in 1..hi : d > Front(published, latest) => d \in known

\* While nothing is published, a search does not meet what it inserted.
StillInv ==
  ~moved /\ Walking(latest) =>
    /\ \A x \in found : x > Front(published, latest)
    /\ Exact(published, latest)

\* What Backfill has to know in the end.
Base == from.docs - (from.page - 1) * PerPage

\* Above its front Backfill knows it.
BackInv ==
  from.page # Off =>
    /\ from.docs <= published
    /\ Walking(back) => \A d \in 1..Base : d > Front(published, back) => d \in known

\* Backfill will come to a document, or end the process.
BackCovers(d) ==
  up /\ back.pc # "done" /\ (Walking(back) => d <= Front(published, back))

\* What is unknown below a document of an earlier search, or of Backfill, was
\* passed over, or Backfill comes to it.
HolesInv ==
  \A hi \in known \ found : \A d \in 1..hi :
    d \in known \/ d \in passedOver \/ BackCovers(d)

WInv == ShapeInv /\ KnownInv /\ LatestInv /\ StillInv /\ BackInv /\ BackfillReachesAll /\ HolesInv

-----------------------------------------------------------------------------
(* The steps                                                               *)

LEMMA FrontType ==
  ASSUME published \in 0..MaxDocs, NEW walk \in Walk, Shape(published, walk)
  PROVE  Front(published, walk) \in 0..MaxDocs
<1>1. CASE walk.pc = "insert"
  <2>1. walk.todo \in Seq(Docs) /\ walk.todo # <<>>
    BY <1>1 DEF Walk, Shape
  <2>2. walk.todo[1] \in Docs
    BY <2>1
  <2> QED
    BY <1>1, <2>2, DcAssumption DEF Front, Docs
<1>2. CASE walk.pc # "insert"
  <2>1. walk.page \in 1..(MaxPage + 1)
    BY DcAssumption DEF Walk, MaxPage
  <2> QED
    BY <1>2, <2>1, LeftType, DcAssumption DEF Front
<1> QED
  BY <1>1, <1>2

\* A publication moves pages back: the front of a walk goes up, if at all.
LEMMA PublishWalk ==
  ASSUME published \in 0..MaxDocs, NEW walk \in Walk, Shape(published, walk)
  PROVE  /\ Shape(published + 1, walk)
         /\ Front(published, walk) <= Front(published + 1, walk)
         /\ Front(published + 1, walk) \in Int
<1>1. ASSUME NEW page \in Nat \ {0}
      PROVE  /\ Left(published, page) \in Int /\ Left(published + 1, page) \in Int
             /\ Left(published, page) <= Left(published + 1, page)
  <2>1. (page - 1) * PerPage \in Int
    BY DcAssumption, SMT
  <2> QED
    BY <2>1, DcAssumption DEF Left
<1>2. walk.page \in Nat \ {0} /\ walk.page + 1 \in Nat \ {0}
  BY DcAssumption DEF Walk, MaxPage
<1>3. CASE walk.pc = "insert"
  <2>1. walk.todo \in Seq(Docs) /\ walk.todo # <<>>
    BY <1>3 DEF Walk, Shape
  <2>2. walk.todo[1] \in Int /\ Last(walk.todo) \in Int
    <3>1. Len(walk.todo) \in 1..Len(walk.todo) /\ 1 \in 1..Len(walk.todo)
      BY <2>1
    <3> QED
      BY <2>1, <3>1, DcAssumption DEF Docs, Last
  <2>3. Shape(published + 1, walk)
    <3>1. /\ Left(published, walk.page + 1) \in Int /\ Left(published + 1, walk.page + 1) \in Int
          /\ Left(published, walk.page + 1) <= Left(published + 1, walk.page + 1)
      BY <1>1, <1>2
    <3>2. Last(walk.todo) <= Left(published, walk.page + 1) + 1 /\ walk.todo[1] <= published
      BY <1>3 DEF Shape
    <3>3. /\ Last(walk.todo) <= Left(published + 1, walk.page + 1) + 1
          /\ walk.todo[1] <= published + 1
      BY <2>2, <3>1, <3>2, DcAssumption
    <3> QED
      BY <1>3, <3>3 DEF Shape
  <2> QED
    BY <1>3, <2>2, <2>3 DEF Front
<1>4. CASE walk.pc # "insert"
  BY <1>1, <1>2, <1>4 DEF Front, Shape
<1> QED
  BY <1>3, <1>4

LEMMA InitW == Init => WInv
<1> SUFFICES ASSUME Init PROVE WInv
  OBVIOUS
<1>1. /\ published \in 0..MaxDocs /\ found = {} /\ up /\ latest = At("search", 1, <<>>)
      /\ latest.pc = "search"
  BY DEF Init, At
<1>2. PICK f \in Flags : back = BackfillFrom(f[1]) /\ from = [page |-> f[1], docs |-> published]
  BY DEF Init
<1>3. PICK n \in 0..published : known = 1..n
  BY DEF Init
<1>4. /\ back.pc # "insert"
      /\ from.page # Off => back.pc = "search" /\ back.page = from.page
      /\ from.page \in {Off} \cup 1..MaxPage /\ from.docs = published
  BY <1>2, DcAssumption DEF BackfillFrom, At, MaxPage
<1>5. ShapeInv /\ KnownInv /\ LatestInv /\ StillInv
  <2>1. known \subseteq 1..published
    BY <1>1, <1>3, DcAssumption
  <2> QED
    BY <1>1, <1>4, <2>1 DEF ShapeInv, KnownInv, LatestInv, StillInv, Shape, Exact
<1>6. BackInv /\ BackfillReachesAll
  <2>1. CASE from.page = Off
    BY <2>1 DEF BackInv, BackfillReachesAll
  <2>2. CASE from.page # Off
    <3>1. (from.page - 1) * PerPage \in Int
      BY <1>4, <2>2, DcAssumption, SMT DEF MaxPage
    <3>2. Front(published, back) >= Base /\ Front(published, back) \in Int /\ Base \in Int
      BY <1>1, <1>4, <2>2, <3>1, DcAssumption DEF Front, Left, Base
    <3> QED
      BY <1>1, <1>4, <2>2, <3>2 DEF BackInv, BackfillReachesAll
  <2> QED
    BY <2>1, <2>2
<1>7. HolesInv
  BY <1>1, <1>3 DEF HolesInv
<1> QED
  BY <1>5, <1>6, <1>7 DEF WInv

\* What a step of Latest has to show.
LEMMA LatestFrame ==
  ASSUME WInv, UNCHANGED <<published, up, back, from>>, known \subseteq known',
         Shape(published', latest'), KnownInv', LatestInv', StillInv',
         \A hi \in known' \ found' : \A d \in 1..hi :
           d \in known' \/ d \in passedOver' \/ BackCovers(d)
  PROVE  WInv'
<1>1. ShapeInv'
  BY DEF WInv, ShapeInv
<1>2. BackInv' /\ BackfillReachesAll'
  BY DEF WInv, BackInv, BackfillReachesAll, Base
<1>3. HolesInv'
  BY DEF HolesInv, BackCovers
<1> QED
  BY <1>1, <1>2, <1>3 DEF WInv

LEMMA LatestSearchStep == DcInv /\ DcInv' /\ WInv /\ LatestSearch => WInv'
<1> SUFFICES ASSUME DcInv, DcInv', WInv, LatestSearch PROVE WInv'
  OBVIOUS
<1> DEFINE page == latest.page
<1>1. /\ published \in 0..MaxDocs /\ page \in 1..MaxPage /\ latest.pc = "search" /\ up
      /\ latest' = After(page, Results(page)) /\ moved' = (page # 1 /\ moved)
      /\ UNCHANGED <<published, up, back, from, known, found, passedOver>>
  BY DEF DcInv, TypeOK, Walk, LatestSearch, siteVars, backVars
<1>2. /\ Walking(latest') /\ Shape(published, latest') /\ Exact(published, latest')
      /\ Front(published, latest') = Front(published, latest)
      /\ latest'.pc = "search" => (latest'.page = 1 => page = 1)
  <2>1. Front(published, latest) = Left(published, page)
    BY <1>1 DEF Front
  <2> QED
    BY <1>1, <2>1, SearchWalk
<1>3. latest'.pc \in {"search", "insert"} /\ Walking(latest)
  BY <1>1, <1>2 DEF Walking
<1>4. KnownInv' /\ LatestInv'
  BY <1>1, <1>2, <1>3 DEF WInv, KnownInv, LatestInv
<1>5. StillInv'
  <2>1. ASSUME ~moved' PROVE \A x \in found : x > Front(published, latest)
    <3>1. CASE page = 1
      BY <1>1, <3>1 DEF WInv, LatestInv
    <3>2. CASE page # 1
      BY <1>1, <1>3, <2>1, <3>2 DEF WInv, StillInv
    <3> QED
      BY <3>1, <3>2
  <2> QED
    BY <1>1, <1>2, <2>1 DEF StillInv
<1>6. \A hi \in known' \ found' : \A d \in 1..hi :
        d \in known' \/ d \in passedOver' \/ BackCovers(d)
  BY <1>1 DEF WInv, HolesInv
<1> QED
  BY <1>1, <1>2, <1>4, <1>5, <1>6, LatestFrame

\* Latest stops at a document it knows.
LEMMA StopStep ==
  ASSUME DcInv, DcInv', WInv, LatestInsert, Head(latest.todo) \in known
  PROVE  WInv'
<1> DEFINE k == Head(latest.todo)
<1>1. /\ published \in 0..MaxDocs /\ latest \in Walk /\ latest.pc = "insert" /\ up
      /\ latest' = At("sleep", 1, <<>>) /\ moved' = FALSE /\ found' = {}
      /\ passedOver' = IF k \in found /\ moved THEN passedOver \cup Unknown ELSE passedOver
      /\ UNCHANGED <<published, up, back, from, known>>
  BY DEF DcInv, TypeOK, LatestInsert, siteVars, backVars
<1>2. latest'.pc = "sleep" /\ ~Walking(latest') /\ Walking(latest)
  BY <1>1 DEF At, Walking
<1>3. Shape(published', latest') /\ KnownInv' /\ LatestInv' /\ StillInv'
  BY <1>1, <1>2 DEF Shape, WInv, KnownInv, LatestInv, StillInv
<1>4. Front(published, latest) = k /\ k \in Docs
  BY <1>1, InsertWalk DEF WInv, ShapeInv
<1>5. ASSUME NEW hi \in known, NEW d \in 1..hi, d \notin known
      PROVE  d \in passedOver' \/ BackCovers(d)
  <2>1. hi \in 1..published /\ published \in Nat
    BY <1>1, DcAssumption DEF WInv, KnownInv
  <2>2. d \in Unknown /\ d \in Int
    BY <1>5, <2>1 DEF Unknown
  <2>3. CASE hi \notin found
    BY <1>1, <1>5, <2>3 DEF WInv, HolesInv
  <2>4. CASE hi \in found /\ k \notin found
    <3>1. ~(d > k)
      BY <1>2, <1>4, <1>5, <2>4 DEF WInv, LatestInv
    <3>2. k \in known \ found /\ d \in 1..k
      BY <1>4, <2>1, <2>4, <3>1, DcAssumption DEF Docs
    <3> QED
      BY <1>1, <1>5, <3>2 DEF WInv, HolesInv
  <2>5. CASE hi \in found /\ k \in found
    <3>1. moved
      <4>1. ASSUME ~moved PROVE FALSE
        <5>1. k > k
          BY <1>2, <1>4, <2>5, <4>1 DEF WInv, StillInv
        <5> QED
          BY <1>4, <5>1, DcAssumption DEF Docs
      <4> QED
        BY <4>1
    <3> QED
      BY <1>1, <2>2, <2>5, <3>1
  <2> QED
    BY <2>3, <2>4, <2>5
<1> QED
  BY <1>1, <1>3, <1>5, LatestFrame

\* Latest inserts a document it does not know.
LEMMA GoOnStep ==
  ASSUME DcInv, DcInv', WInv, LatestInsert, Head(latest.todo) \notin known
  PROVE  WInv'
<1> DEFINE k == Head(latest.todo)
<1>1. /\ published \in 0..MaxDocs /\ latest \in Walk /\ latest.pc = "insert" /\ up
      /\ latest' = After(latest.page, Tail(latest.todo))
      /\ known' = known \cup {k} /\ found' = found \cup {k}
      /\ UNCHANGED <<published, up, back, from, moved, passedOver>>
      /\ Shape(published, latest)
  BY DEF DcInv, TypeOK, LatestInsert, siteVars, backVars, WInv, ShapeInv
<1>2. /\ Walking(latest') /\ Shape(published, latest')
      /\ Front(published, latest) = k /\ k \in Docs
      /\ Front(published, latest') \in 0..MaxDocs /\ k - 1 <= Front(published, latest')
      /\ latest'.pc = "search" => latest'.page # 1
      /\ Exact(published, latest) => Exact(published, latest')
                                     /\ Front(published, latest') = k - 1
  BY <1>1, InsertWalk
<1>3. Walking(latest) /\ latest'.pc \in {"search", "insert"} /\ k \in 1..published
  <2>1. latest.todo[1] <= published /\ latest.todo[1] = k
    BY <1>1, <1>2 DEF Shape, Front
  <2> QED
    BY <1>1, <1>2, <2>1, DcAssumption DEF Walking, Docs
<1>4. KnownInv'
  BY <1>1, <1>3 DEF WInv, KnownInv
<1>5. LatestInv'
  <2>1. ASSUME NEW hi \in found', NEW d \in 1..hi, d > Front(published, latest')
        PROVE  d \in known'
    <3>1. d \in Int /\ d >= k /\ hi \in Int /\ d <= hi
      <4>1. hi \in Docs
        BY <1>1, <1>2 DEF DcInv, TypeOK
      <4> QED
        BY <1>2, <2>1, <4>1, DcAssumption DEF Docs
    <3>2. CASE d = k
      BY <1>1, <3>2
    <3>3. CASE d # k
      <4>1. d > k /\ hi \in found
        BY <1>1, <1>2, <3>1, <3>3, DcAssumption DEF Docs
      <4> QED
        BY <1>1, <1>2, <1>3, <4>1 DEF WInv, LatestInv
    <3> QED
      BY <3>2, <3>3
  <2> QED
    BY <1>1, <1>2, <1>3, <2>1 DEF LatestInv
<1>6. StillInv'
  <2>1. ASSUME ~moved PROVE \A x \in found' : x > Front(published, latest')
    <3>1. Front(published, latest') = k - 1 /\ \A x \in found : x > k
      BY <1>2, <1>3, <2>1 DEF WInv, StillInv
    <3>2. found \subseteq Docs
      BY DEF DcInv, TypeOK
    <3> QED
      BY <1>1, <1>2, <3>1, <3>2, DcAssumption DEF Docs
  <2>2. ~moved => Exact(published, latest')
    BY <1>2, <1>3 DEF WInv, StillInv
  <2> QED
    BY <1>1, <2>1, <2>2 DEF StillInv
<1>7. \A hi \in known' \ found' : \A d \in 1..hi :
        d \in known' \/ d \in passedOver' \/ BackCovers(d)
  BY <1>1 DEF WInv, HolesInv
<1> QED
  BY <1>1, <1>2, <1>4, <1>5, <1>6, <1>7, LatestFrame

LEMMA LatestWalkStep == DcInv /\ DcInv' /\ WInv /\ (Latest \/ LatestFails) => WInv'
<1> SUFFICES ASSUME DcInv, DcInv', WInv, Latest \/ LatestFails PROVE WInv'
  OBVIOUS
<1>1. CASE LatestWakes
  <2>1. /\ latest.pc = "sleep" /\ latest' = At("search", 1, <<>>) /\ up
        /\ UNCHANGED <<published, up, back, from, known, found, moved, passedOver>>
    BY <1>1 DEF LatestWakes, siteVars, backVars
  <2>2. found = {} /\ latest'.pc = "search"
    BY <2>1 DEF WInv, LatestInv, At
  <2>3. Shape(published', latest') /\ KnownInv' /\ LatestInv' /\ StillInv'
    BY <2>1, <2>2 DEF Shape, Exact, WInv, KnownInv, LatestInv, StillInv
  <2> QED
    BY <2>1, <2>3, LatestFrame DEF WInv, HolesInv
<1>2. CASE LatestFails
  <2>1. /\ latest' = At("failed", latest.page, <<>>) /\ up
        /\ UNCHANGED <<published, up, back, from, known, found, moved, passedOver>>
    BY <1>2 DEF LatestFails, siteVars, backVars
  <2>2. latest'.pc = "failed" /\ ~Walking(latest')
    BY <2>1 DEF At, Walking
  <2>3. Shape(published', latest') /\ KnownInv' /\ LatestInv' /\ StillInv'
    BY <2>1, <2>2 DEF Shape, WInv, KnownInv, LatestInv, StillInv
  <2> QED
    BY <2>1, <2>3, LatestFrame DEF WInv, HolesInv
<1> QED
  BY <1>1, <1>2, LatestSearchStep, StopStep, GoOnStep DEF Latest

\* What a step of Backfill has to show.
LEMMA BackFrame ==
  ASSUME WInv, UNCHANGED <<published, up, latest, moved, found, from, passedOver>>,
         known \subseteq known', known' \subseteq 1..published, Shape(published, back'),
         BackInv', BackfillReachesAll', HolesInv'
  PROVE  WInv'
<1>1. ShapeInv' /\ KnownInv'
  BY DEF WInv, ShapeInv, KnownInv
<1>2. LatestInv' /\ StillInv'
  BY DEF WInv, LatestInv, StillInv
<1> QED
  BY <1>1, <1>2 DEF WInv

LEMMA BackfillSearchStep == DcInv /\ DcInv' /\ WInv /\ BackfillSearch => WInv'
<1> SUFFICES ASSUME DcInv, DcInv', WInv, BackfillSearch PROVE WInv'
  OBVIOUS
<1> DEFINE page == back.page
<1>1. /\ published \in 0..MaxDocs /\ page \in 1..MaxPage /\ back.pc = "search" /\ up
      /\ back' = IF Results(page) = <<>> THEN At("done", page, <<>>)
                                         ELSE At("insert", page, Results(page))
      /\ UNCHANGED <<published, up, latest, moved, found, from, passedOver, known>>
      /\ from \in [page : {Off} \cup 1..MaxPage, docs : 0..MaxDocs]
  BY DEF DcInv, TypeOK, Walk, BackfillSearch, siteVars, latVars
<1>2. Walking(back) /\ Front(published, back) = Left(published, page)
      /\ known \subseteq 1..published
  BY <1>1 DEF Walking, Front, WInv, KnownInv
<1>3. CASE Results(page) = <<>>
  <2>1. Left(published, page) = 0
    <3>1. Len(Results(page)) = 0
      BY <1>3
    <3> QED
      BY <1>1, <3>1, ResultsShape, LeftType, DcAssumption DEF MaxPage
  <2>2. back'.pc = "done" /\ ~Walking(back') /\ Shape(published, back')
    BY <1>1, <1>3 DEF At, Walking, Shape
  <2>3. BackInv'
    BY <1>1, <2>2 DEF WInv, BackInv
  <2>4. BackfillReachesAll'
    <3>1. ASSUME from.page # Off PROVE 1..Base \subseteq known
      <4>1. \A d \in 1..Base : d > 0 => d \in known
        BY <1>2, <2>1, <3>1 DEF WInv, BackInv
      <4>2. Base \in Int
        <5>1. from.page \in Int /\ from.docs \in Int
          BY <1>1, <3>1, DcAssumption DEF MaxPage
        <5> QED
          BY <5>1, DcAssumption, SMT DEF Base
      <4> QED
        BY <4>1, <4>2
    <3> QED
      BY <1>1, <3>1 DEF BackfillReachesAll, Base
  <2>5. HolesInv'
    <3>1. ASSUME NEW hi \in known \ found, NEW d \in 1..hi PROVE ~(d <= 0)
      BY <1>2, <3>1, DcAssumption
    <3> QED
      BY <1>1, <1>2, <2>1, <3>1 DEF WInv, HolesInv, BackCovers
  <2> QED
    BY <1>1, <1>2, <2>2, <2>3, <2>4, <2>5, BackFrame
<1>4. CASE Results(page) # <<>>
  <2>1. back' = After(page, Results(page)) /\ back'.pc = "insert"
    BY <1>1, <1>4 DEF After, At
  <2>2. /\ Walking(back') /\ Shape(published, back')
        /\ Front(published, back') = Front(published, back)
    BY <1>1, <1>2, <2>1, SearchWalk
  <2>3. BackInv' /\ BackfillReachesAll'
    BY <1>1, <1>2, <2>1, <2>2 DEF WInv, BackInv, BackfillReachesAll, Base
  <2>4. HolesInv'
    BY <1>1, <1>2, <2>1, <2>2 DEF WInv, HolesInv, BackCovers
  <2> QED
    BY <1>1, <1>2, <2>2, <2>3, <2>4, BackFrame
<1> QED
  BY <1>3, <1>4

LEMMA BackfillInsertStep == DcInv /\ DcInv' /\ WInv /\ BackfillInsert => WInv'
<1> SUFFICES ASSUME DcInv, DcInv', WInv, BackfillInsert PROVE WInv'
  OBVIOUS
<1> DEFINE k == Head(back.todo)
<1>1. /\ published \in 0..MaxDocs /\ back \in Walk /\ back.pc = "insert" /\ up
      /\ back' = After(back.page, Tail(back.todo)) /\ known' = known \cup {k}
      /\ UNCHANGED <<published, up, latest, moved, found, from, passedOver>>
      /\ Shape(published, back)
  BY DEF DcInv, TypeOK, BackfillInsert, siteVars, latVars, WInv, ShapeInv
<1>2. /\ Walking(back') /\ Shape(published, back')
      /\ Front(published, back) = k /\ k \in Docs
      /\ Front(published, back') \in 0..MaxDocs /\ k - 1 <= Front(published, back')
  BY <1>1, InsertWalk
<1>3. /\ Walking(back) /\ back'.pc # "done" /\ k \in 1..published
      /\ known' \subseteq 1..published
  <2>1. back.todo[1] <= published /\ back.todo[1] = k
    BY <1>1, <1>2 DEF Shape, Front
  <2>2. k \in 1..published
    BY <1>1, <1>2, <2>1, DcAssumption DEF Docs
  <2> QED
    BY <1>1, <1>2, <2>2 DEF Walking, WInv, KnownInv
<1>4. \A d \in Int : d < k => d <= Front(published, back')
  BY <1>2, DcAssumption DEF Docs
<1>5. BackInv'
  <2>1. ASSUME from.page # Off, NEW d \in 1..Base, d > Front(published, back'), d # k
        PROVE  d \in known
    <3>1. d \in Int /\ d > k
      BY <1>2, <1>4, <2>1, DcAssumption DEF Docs
    <3> QED
      BY <1>2, <1>3, <2>1, <3>1 DEF WInv, BackInv
  <2> QED
    BY <1>1, <2>1 DEF WInv, BackInv, Base
<1>6. BackfillReachesAll'
  BY <1>3 DEF BackfillReachesAll
<1>7. HolesInv'
  <2>1. ASSUME NEW hi \in known' \ found, NEW d \in 1..hi, d \notin known'
        PROVE  d \in passedOver \/ d <= Front(published, back')
    <3>1. d \in Int /\ d <= hi /\ hi \in 1..published /\ d # k
      BY <1>1, <1>3, <2>1, DcAssumption
    <3>2. CASE hi = k
      BY <1>2, <1>4, <3>1, <3>2, DcAssumption DEF Docs
    <3>3. CASE hi # k
      <4>1. d \in passedOver \/ d <= k
        BY <1>1, <1>2, <1>3, <2>1, <3>3 DEF WInv, HolesInv, BackCovers
      <4> QED
        BY <1>2, <1>4, <3>1, <4>1, DcAssumption DEF Docs
    <3> QED
      BY <3>2, <3>3
  <2> QED
    BY <1>1, <1>2, <1>3, <2>1 DEF HolesInv, BackCovers
<1> QED
  BY <1>1, <1>2, <1>3, <1>5, <1>6, <1>7, BackFrame

LEMMA BackfillWalkStep == DcInv /\ DcInv' /\ WInv /\ (Backfill \/ BackfillFails) => WInv'
<1> SUFFICES ASSUME DcInv, DcInv', WInv, Backfill \/ BackfillFails PROVE WInv'
  OBVIOUS
<1>1. CASE BackfillFails
  <2>1. /\ back' = At("failed", back.page, <<>>) /\ up
        /\ UNCHANGED <<published, up, latest, moved, found, from, passedOver, known>>
    BY <1>1 DEF BackfillFails, siteVars, latVars
  <2>2. back'.pc = "failed" /\ ~Walking(back') /\ Shape(published, back')
    BY <2>1 DEF At, Walking, Shape
  <2>3. BackInv' /\ BackfillReachesAll' /\ HolesInv'
    BY <2>1, <2>2 DEF WInv, BackInv, BackfillReachesAll, HolesInv, BackCovers
  <2> QED
    BY <2>1, <2>2, <2>3, BackFrame DEF WInv, KnownInv
<1> QED
  BY <1>1, BackfillSearchStep, BackfillInsertStep DEF Backfill

\* Steps that touch neither walk.
LEMMA OtherStep ==
  ASSUME WInv, UNCHANGED <<published, up, known, latVars, backVars>>
  PROVE  WInv'
<1> USE DEF latVars, backVars
<1>1. ShapeInv' /\ KnownInv' /\ LatestInv' /\ StillInv'
  BY DEF WInv, ShapeInv, KnownInv, LatestInv, StillInv
<1>2. BackInv' /\ BackfillReachesAll' /\ HolesInv'
  BY DEF WInv, BackInv, BackfillReachesAll, HolesInv, BackCovers, Base
<1> QED
  BY <1>1, <1>2 DEF WInv

LEMMA PublishStep == DcInv /\ DcInv' /\ WInv /\ Publish => WInv'
<1> SUFFICES ASSUME DcInv, DcInv', WInv, Publish PROVE WInv'
  OBVIOUS
<1>1. /\ published \in 0..MaxDocs /\ latest \in Walk /\ back \in Walk
      /\ published' = published + 1 /\ moved' = (latest.pc # "sleep" /\ up)
      /\ UNCHANGED <<up, known, latest, found, passedOver, back, from>>
      /\ Shape(published, latest) /\ Shape(published, back)
      /\ found \subseteq Docs /\ known \subseteq Docs
      /\ from \in [page : {Off} \cup 1..MaxPage, docs : 0..MaxDocs]
  BY DEF DcInv, TypeOK, Publish, backVars, WInv, ShapeInv
<1>2. \A w \in {latest, back} :
        /\ Shape(published + 1, w) /\ Front(published, w) <= Front(published + 1, w)
        /\ Front(published + 1, w) \in Int /\ Front(published, w) \in Int
  <2>1. \A w \in {latest, back} : Front(published, w) \in Int
    BY <1>1, FrontType
  <2> QED
    BY <1>1, <2>1, PublishWalk
<1>3. ShapeInv' /\ KnownInv'
  <2>1. 1..published \subseteq 1..(published + 1)
    BY <1>1, DcAssumption
  <2> QED
    BY <1>1, <1>2, <2>1 DEF ShapeInv, WInv, KnownInv
<1>4. LatestInv'
  <2>1. ASSUME NEW hi \in found, NEW d \in 1..hi, d > Front(published + 1, latest)
        PROVE  d > Front(published, latest)
    <3>1. d \in Int
      BY <1>1, DcAssumption DEF Docs
    <3> QED
      BY <1>2, <2>1, <3>1
  <2> QED
    BY <1>1, <2>1 DEF WInv, LatestInv
<1>5. StillInv'
  <2>1. CASE latest.pc = "sleep"
    BY <1>1, <2>1 DEF StillInv, Walking
  <2>2. CASE ~up
    BY <1>1, <2>2 DEF WInv, LatestInv, StillInv, Exact
  <2> QED
    BY <1>1, <2>1, <2>2 DEF StillInv
<1>6. BackInv' /\ BackfillReachesAll'
  <2>1. ASSUME NEW d \in 1..Base, d > Front(published + 1, back), from.page # Off
        PROVE  d > Front(published, back)
    <3>1. d \in Int
      BY <2>1
    <3> QED
      BY <1>2, <2>1, <3>1
  <2>2. from.docs <= published => from.docs <= published + 1
    BY <1>1, DcAssumption
  <2> QED
    BY <1>1, <2>1, <2>2 DEF WInv, BackInv, BackfillReachesAll, Base
<1>7. HolesInv'
  <2>1. ASSUME NEW hi \in known, NEW d \in 1..hi, d <= Front(published, back)
        PROVE  d <= Front(published + 1, back)
    <3>1. d \in Int
      BY <1>1, DcAssumption DEF Docs
    <3> QED
      BY <1>2, <2>1, <3>1
  <2> QED
    BY <1>1, <2>1 DEF WInv, HolesInv, BackCovers
<1> QED
  BY <1>3, <1>4, <1>5, <1>6, <1>7 DEF WInv

LEMMA ExitStep == DcInv /\ WInv /\ Exit => WInv'
<1> SUFFICES ASSUME DcInv, WInv, Exit PROVE WInv'
  OBVIOUS
<1>1. /\ ~up' /\ found' = {} /\ from'.page = Off
      /\ latest'.pc = "search" /\ back'.pc = "search"
      /\ passedOver' = IF found # {} \/ back.pc # "done"
                         THEN passedOver \cup Unknown ELSE passedOver
      /\ UNCHANGED <<published, known>>
      /\ published \in 0..MaxDocs
  BY DEF Exit, At, DcInv, TypeOK
<1>2. ShapeInv' /\ KnownInv' /\ LatestInv' /\ StillInv'
  BY <1>1 DEF ShapeInv, WInv, KnownInv, LatestInv, StillInv, Shape, Exact
<1>3. BackInv' /\ BackfillReachesAll'
  BY <1>1 DEF BackInv, BackfillReachesAll
<1>4. HolesInv'
  <2>1. ASSUME NEW hi \in known, NEW d \in 1..hi, d \notin known PROVE d \in passedOver'
    <3>1. CASE found # {} \/ back.pc # "done"
      <4>1. hi \in 1..published
        BY DEF WInv, KnownInv
      <4>2. d \in Unknown
        BY <1>1, <2>1, <4>1, DcAssumption DEF Unknown
      <4> QED
        BY <1>1, <3>1, <4>2
    <3>2. CASE found = {} /\ back.pc = "done"
      BY <1>1, <2>1, <3>2 DEF WInv, HolesInv, BackCovers
    <3> QED
      BY <3>1, <3>2
  <2> QED
    BY <1>1, <2>1 DEF HolesInv
<1> QED
  BY <1>2, <1>3, <1>4 DEF WInv

LEMMA RestartStep == DcInv /\ WInv /\ Restart => WInv'
<1> SUFFICES ASSUME DcInv, WInv, Restart PROVE WInv'
  OBVIOUS
<1>1. /\ ~up /\ up' /\ published \in 0..MaxDocs /\ found = {} /\ latest.pc = "search"
      /\ UNCHANGED <<published, known, latest, moved, found, passedOver>>
  BY DEF Restart, latVars, DcInv, TypeOK, WInv, LatestInv
<1>2. PICK f \in Flags : back' = BackfillFrom(f[1]) /\ from' = [page |-> f[1], docs |-> published]
  BY DEF Restart
<1>3. /\ back'.pc # "insert"
      /\ from'.page # Off => back'.pc = "search" /\ back'.page = from'.page
      /\ from'.page \in {Off} \cup 1..MaxPage /\ from'.docs = published
  BY <1>2, DcAssumption DEF BackfillFrom, At, MaxPage
<1>4. ShapeInv' /\ KnownInv' /\ LatestInv' /\ StillInv'
  BY <1>1, <1>3 DEF ShapeInv, WInv, KnownInv, LatestInv, StillInv, Shape, Exact
<1>5. BackInv' /\ BackfillReachesAll'
  <2>1. CASE from'.page = Off
    BY <2>1 DEF BackInv, BackfillReachesAll
  <2>2. CASE from'.page # Off
    <3>1. (from'.page - 1) * PerPage \in Int
      BY <1>3, <2>2, DcAssumption, SMT DEF MaxPage
    <3>2. /\ Front(published, back') >= Base' /\ Front(published, back') \in Int
          /\ Base' \in Int
      BY <1>1, <1>3, <2>2, <3>1, DcAssumption DEF Front, Left, Base
    <3>3. ~(\E d \in 1..Base' : d > Front(published, back'))
      BY <3>2
    <3> QED
      BY <1>1, <1>3, <2>2, <3>3, DcAssumption DEF BackInv, BackfillReachesAll
  <2> QED
    BY <2>1, <2>2
<1>6. HolesInv'
  BY <1>1 DEF WInv, HolesInv, BackCovers
<1> QED
  BY <1>4, <1>5, <1>6 DEF WInv

\* In every reachable state of the bot the walks know what is above their fronts.
THEOREM WalkInvariance == Spec => []WInv
<1>1. DcInv /\ WInv /\ [Next]_vars /\ DcInv' => WInv'
  <2> SUFFICES ASSUME DcInv, WInv, [Next]_vars, DcInv' PROVE WInv'
    OBVIOUS
  <2>1. CASE Download \/ DownloadErrs \/ FetchFails
    <3>1. UNCHANGED <<published, up, known, latVars, backVars>>
      BY <2>1 DEF Download, Pick, Create, Fetch, Mark, DownloadErrs, FetchFails, siteVars
    <3> QED
      BY <3>1, OtherStep
  <2>2. CASE Drain \/ DrainFails
    <3>1. UNCHANGED <<published, up, known, latVars, backVars>>
      BY <2>2 DEF Drain, DrainCreate, DrainCopy, DrainDelete, DrainEnds, DrainFails
    <3> QED
      BY <3>1, OtherStep
  <2>3. CASE UNCHANGED vars
    <3>1. UNCHANGED <<published, up, known, latVars, backVars>>
      BY <2>3 DEF vars, siteVars
    <3> QED
      BY <3>1, OtherStep
  <2> QED
    BY <2>1, <2>2, <2>3, LatestWalkStep, BackfillWalkStep, PublishStep, ExitStep,
       RestartStep DEF Next
<1> QED
  BY InitW, <1>1, DcInvariance, PTL DEF Spec

\* "Reached the end!": a backfill that ends knows every document that was on its
\* first page or behind it when it began, however many were published meanwhile.
THEOREM BackfillComplete == Spec => []BackfillReachesAll
<1>1. WInv => BackfillReachesAll
  BY DEF WInv
<1> QED
  BY <1>1, WalkInvariance, PTL

\* A hole in the table that Latest will not fill was left by a search that was cut
\* short by the end of a process, or during which the pages moved.
THEOREM HolesExplained == Spec => []HolesAreExplained
<1>1. DcInv /\ WInv => HolesAreExplained
  <2> SUFFICES ASSUME DcInv, WInv, up, latest.pc = "sleep", back.pc = "done",
                      NEW d \in Docs \ known, NEW hi \in known, d < hi
               PROVE  d \in passedOver
    BY DEF HolesAreExplained
  <2>1. found = {}
    BY DEF WInv, LatestInv
  <2>2. d \in 1..hi
    BY DcAssumption DEF DcInv, TypeOK, Docs
  <2> QED
    BY <2>1, <2>2 DEF WInv, HolesInv, BackCovers
<1> QED
  BY <1>1, WalkInvariance, DcInvariance, PTL

-----------------------------------------------------------------------------
(* How far a search of Latest can go                                       *)

\* Some known document that this search did not insert is at its front or behind it.
MeetsInv ==
  /\ ~up => latest = At("search", 1, <<>>)
  /\ up /\ ~blank => known # {}
  /\ up /\ ~blank /\ Walking(latest) =>
       \E k \in known \ found : k <= Front(published, latest)

\* A search from the first page meets any document.
LEMMA FirstPageMeets ==
  ASSUME published \in 0..MaxDocs, known \subseteq 1..published, known # {}, found = {},
         NEW walk, walk = At("search", 1, <<>>)
  PROVE  \E k \in known \ found : k <= Front(published, walk)
<1>1. Front(published, walk) = published
  BY LeftFirst DEF At, Front
<1>2. PICK k \in known : TRUE
  OBVIOUS
<1>3. k \in 1..published
  OBVIOUS
<1>4. k <= published
  BY <1>3, DcAssumption
<1> QED
  BY <1>1, <1>4

LEMMA LatestMeets ==
  ASSUME DcInv, WInv, WInv', MeetsInv, Latest \/ LatestFails
  PROVE  MeetsInv'
<1>1. /\ published \in 0..MaxDocs /\ latest \in Walk /\ latest.page \in 1..MaxPage /\ up
      /\ known \subseteq 1..published /\ known \subseteq known' /\ ShapeInv
      /\ UNCHANGED <<published, up, blank>>
  BY DEF DcInv, TypeOK, Walk, WInv, KnownInv, Latest, LatestSearch, LatestInsert, LatestWakes,
         LatestFails, siteVars
<1>2. SUFFICES ASSUME ~blank, Walking(latest')
               PROVE  \E k \in known' \ found' : k <= Front(published, latest')
  BY <1>1 DEF MeetsInv, Walking
<1>3. known # {} /\ (Walking(latest) => \E k \in known \ found : k <= Front(published, latest))
  BY <1>1, <1>2 DEF MeetsInv
<1>4. CASE LatestSearch
  <2>1. /\ latest.pc = "search" /\ latest' = After(latest.page, Results(latest.page))
        /\ UNCHANGED <<known, found>>
    BY <1>4 DEF LatestSearch
  <2>2. Front(published, latest') = Front(published, latest) /\ Walking(latest)
    BY <1>1, <2>1, SearchWalk DEF Front, Walking
  <2> QED
    BY <1>3, <2>1, <2>2
<1>5. CASE LatestInsert
  <2> DEFINE d == Head(latest.todo)
  <2>1. d \notin known /\ latest.pc = "insert" /\ Walking(latest)
    BY <1>2, <1>5 DEF LatestInsert, At, Walking
  <2>2. /\ latest' = After(latest.page, Tail(latest.todo))
        /\ known' = known \cup {d} /\ found' = found \cup {d}
    BY <1>5, <2>1 DEF LatestInsert
  <2>3. /\ Front(published, latest) = d /\ d \in Docs
        /\ d - 1 <= Front(published, latest') /\ Front(published, latest') \in 0..MaxDocs
    BY <1>1, <2>1, <2>2, InsertWalk DEF ShapeInv
  <2>4. PICK k \in known \ found : k <= d
    BY <1>3, <2>1, <2>3
  <2>5. k # d /\ k \in Int
    BY <1>1, <2>1, <2>4, DcAssumption
  <2>6. k <= Front(published, latest')
    BY <2>3, <2>4, <2>5, DcAssumption DEF Docs
  <2> QED
    BY <2>2, <2>4, <2>5, <2>6
<1>6. CASE LatestWakes
  <2>1. latest' = At("search", 1, <<>>) /\ latest.pc = "sleep" /\ UNCHANGED <<known, found>>
    BY <1>6 DEF LatestWakes
  <2>2. found = {}
    BY <2>1 DEF WInv, LatestInv
  <2> QED
    BY <1>1, <1>3, <2>1, <2>2, FirstPageMeets
<1>7. CASE LatestFails
  BY <1>2, <1>7 DEF LatestFails, At, Walking
<1> QED
  BY <1>4, <1>5, <1>6, <1>7 DEF Latest

\* The steps of the others make documents known or publish them.
LEMMA OthersMeet ==
  ASSUME DcInv, WInv, MeetsInv, UNCHANGED <<up, blank, latest, found>>, known \subseteq known',
         published' \in {published, published + 1}
  PROVE  MeetsInv'
<1>1. /\ published \in 0..MaxDocs /\ latest \in Walk /\ Shape(published, latest)
      /\ known \subseteq 1..published
  BY DEF DcInv, TypeOK, WInv, ShapeInv, KnownInv
<1>2. SUFFICES ASSUME up, ~blank, Walking(latest)
               PROVE  \E k \in known' \ found : k <= Front(published', latest)
  BY DEF MeetsInv
<1>3. PICK k \in known \ found : k <= Front(published, latest)
  BY <1>2 DEF MeetsInv
<1>4. /\ Front(published, latest) \in Int /\ Front(published', latest) \in Int
      /\ Front(published, latest) <= Front(published', latest)
  BY <1>1, FrontType, PublishWalk, DcAssumption
<1>5. k \in Int
  BY <1>1
<1> QED
  BY <1>3, <1>4, <1>5

LEMMA MeetsStep == DcInv /\ WInv /\ WInv' /\ MeetsInv /\ [Next]_vars => MeetsInv'
<1> SUFFICES ASSUME DcInv, WInv, WInv', MeetsInv, [Next]_vars PROVE MeetsInv'
  OBVIOUS
<1>1. CASE Latest \/ LatestFails
  BY <1>1, LatestMeets
<1>2. CASE Exit
  <2>1. ~up' /\ latest' = At("search", 1, <<>>)
    BY <1>2 DEF Exit
  <2> QED
    BY <2>1 DEF MeetsInv
<1>3. CASE Restart
  <2>1. /\ ~up /\ up' /\ blank' = (known = {})
        /\ UNCHANGED <<published, known, latest, found>>
    BY <1>3 DEF Restart, latVars
  <2>2. published \in 0..MaxDocs /\ known \subseteq 1..published /\ found = {}
    BY <2>1 DEF DcInv, TypeOK, WInv, KnownInv, LatestInv
  <2>3. known # {} => \E k \in known \ found : k <= Front(published, latest)
    BY <2>1, <2>2, FirstPageMeets DEF MeetsInv
  <2> QED
    BY <2>1, <2>3 DEF MeetsInv
<1>4. CASE Publish \/ Backfill \/ BackfillFails \/ UNCHANGED vars
  <2>1. /\ UNCHANGED <<up, blank, latest, found>> /\ known \subseteq known'
        /\ published' \in {published, published + 1}
    BY <1>4 DEF Publish, Backfill, BackfillSearch, BackfillInsert, BackfillFails, vars,
                siteVars, latVars
  <2> QED
    BY <2>1, OthersMeet
<1>5. CASE Download \/ DownloadErrs \/ FetchFails
  <2>1. UNCHANGED <<up, blank, latest, found, known, published>>
    BY <1>5 DEF Download, Pick, Create, Fetch, Mark, DownloadErrs, FetchFails, siteVars, latVars
  <2> QED
    BY <2>1, OthersMeet
<1>6. CASE Drain \/ DrainFails
  <2>1. UNCHANGED <<up, blank, latest, found, known, published>>
    BY <1>6 DEF Drain, DrainCreate, DrainCopy, DrainDelete, DrainEnds, DrainFails, latVars
  <2> QED
    BY <2>1, OthersMeet
<1> QED
  BY <1>1, <1>2, <1>3, <1>4, <1>5, <1>6 DEF Next

\* A search that began with a document in the table has one still to meet.
THEOREM MeetsInvariance == Spec => []MeetsInv
<1>1. Init => MeetsInv
  <2> SUFFICES ASSUME Init PROVE MeetsInv
    OBVIOUS
  <2>1. /\ up /\ blank = (known = {}) /\ published \in 0..MaxDocs /\ found = {}
        /\ latest = At("search", 1, <<>>)
    BY DEF Init
  <2>2. known \subseteq 1..published
    BY InitW DEF WInv, KnownInv
  <2> QED
    BY <2>1, <2>2, FirstPageMeets DEF MeetsInv
<1> QED
  BY <1>1, MeetsStep, DcInvariance, WalkInvariance, PTL DEF Spec

LEMMA MeetsAPage == DcInv /\ WInv /\ MeetsInv => SearchStaysOnPages
<1> SUFFICES ASSUME DcInv, WInv, MeetsInv, up, ~blank, latest.pc = "search"
             PROVE  Results(latest.page) # <<>>
  BY DEF SearchStaysOnPages
<1>1. published \in 0..MaxDocs /\ latest.page \in 1..MaxPage /\ known \subseteq 1..published
  BY DEF DcInv, TypeOK, Walk, WInv, KnownInv
<1>2. PICK k \in known : k <= Left(published, latest.page)
  BY DEF MeetsInv, Walking, Front
<1>3. Left(published, latest.page) \in Int
  <2>1. latest.page \in 1..(MaxPage + 1)
    BY <1>1, DcAssumption DEF MaxPage
  <2> QED
    BY <1>1, <2>1, LeftType
<1>4. k >= 1
  BY <1>1, <1>2
<1>5. Len(Results(latest.page)) > 0
  BY <1>1, <1>2, <1>3, <1>4, ResultsShape, DcAssumption
<1> QED
  BY <1>5

\* Latest never turns to a page behind the last document, if the table was not
\* empty when its process started: what makes its search end.
THEOREM SearchOnPages == Spec => []SearchStaysOnPages
BY MeetsAPage, MeetsInvariance, WalkInvariance, DcInvariance, PTL

\* A search never looks at the same place twice.
THEOREM SearchForward == Spec => SearchAdvances
<1>1. DcInv /\ WInv /\ MeetsInv /\ [Next]_vars => [SearchStep]_vars
  <2> SUFFICES ASSUME DcInv, WInv, MeetsInv, [Next]_vars, up, ~blank, up',
                      latest.pc \in {"search", "insert"}, latest' # latest
               PROVE  \/ latest'.pc \in {"sleep", "failed"}
                      \/ latest'.page > latest.page
                      \/ /\ latest'.page = latest.page /\ latest'.pc = "insert"
                         /\ latest.pc = "search" \/ Len(latest'.todo) < Len(latest.todo)
    BY DEF SearchStep
  <2>1. /\ published \in 0..MaxDocs /\ latest \in Walk /\ latest.page \in 1..MaxPage
        /\ latest.todo \in Seq(Docs) /\ Shape(published, latest)
    BY DEF DcInv, TypeOK, Walk, WInv, ShapeInv
  <2>2. LatestSearch \/ LatestInsert \/ LatestFails
    <3>1. ~(Publish \/ Backfill \/ BackfillFails \/ UNCHANGED vars)
      BY DEF Publish, Backfill, BackfillSearch, BackfillInsert, BackfillFails, vars, latVars
    <3>2. ~(Download \/ DownloadErrs \/ FetchFails)
      BY DEF Download, Pick, Create, Fetch, Mark, DownloadErrs, FetchFails, latVars
    <3>3. ~(Drain \/ DrainFails)
      BY DEF Drain, DrainCreate, DrainCopy, DrainDelete, DrainEnds, DrainFails, latVars
    <3>4. ~(Exit \/ Restart \/ LatestWakes)
      BY DEF Exit, Restart, LatestWakes
    <3> QED
      BY <3>1, <3>2, <3>3, <3>4 DEF Next, Latest
  <2>3. CASE LatestSearch
    <3>1. latest.pc = "search" /\ latest' = After(latest.page, Results(latest.page))
      BY <2>3 DEF LatestSearch
    <3>2. Results(latest.page) # <<>>
      BY <3>1, MeetsAPage DEF SearchStaysOnPages
    <3> QED
      BY <3>1, <3>2 DEF After, At
  <2>4. CASE LatestInsert
    <3> DEFINE rest == Tail(latest.todo)
    <3>1. latest.pc = "insert" /\ latest' \in {At("sleep", 1, <<>>), After(latest.page, rest)}
      BY <2>4 DEF LatestInsert
    <3>2. latest.page < MaxPage /\ latest.todo # <<>>
      BY <2>1, <3>1 DEF Shape
    <3>3. Len(rest) < Len(latest.todo)
      BY <2>1, <3>2
    <3>4. NextPage(latest.page) > latest.page
      BY <2>1, <3>2, DcAssumption DEF NextPage, MaxPage
    <3> HIDE DEF rest
    <3> QED
      BY <3>1, <3>3, <3>4 DEF After, At
  <2>5. CASE LatestFails
    BY <2>5 DEF LatestFails, At
  <2> QED
    BY <2>2, <2>3, <2>4, <2>5
<1> QED
  BY <1>1, DcInvariance, WalkInvariance, MeetsInvariance, PTL DEF Spec, SearchAdvances

\* A search of Latest goes forward over the pages that have documents, of which there are
\* finitely many: all that its end (modules.go:27) needs but a site that answers.
THEOREM SearchProceeds == Spec => SearchGetsOn
  BY SearchOnPages, SearchForward, PTL DEF SearchGetsOn, SearchAdvances

-----------------------------------------------------------------------------
(* The archive                                                             *)

\* A step that leaves the files of the archive alone, or handles one of a pending
\* document.
LEMMA KeptStays ==
  ASSUME UNCHANGED <<file, stored>>
  PROVE  Kept' = Kept
BY DEF Kept

LEMMA KeptChanges ==
  ASSUME DcInv, NEW f \in Docs \X {1, 2}, NEW c \in Contents, UNCHANGED stored,
         file' = [file EXCEPT ![f] = c]
  PROVE  /\ Kept' \in {Kept \cup {f}, Kept \ {f}} \/ Kept' = Kept
         /\ f \in stored => Kept' = Kept
<1>1. file \in [Docs \X {1, 2} -> Contents]
  BY DEF DcInv, TypeOK
<1>2. \A g \in Docs \X {1, 2} : file'[g] = IF g = f THEN c ELSE file[g]
  BY <1>1
<1>3. \A g : g # f => (g \in Kept' <=> g \in Kept)
  BY <1>2 DEF Kept
<1>4. f \in stored => f \in Kept /\ f \in Kept'
  BY DEF Kept
<1> QED
  BY <1>3, <1>4

LEMMA ArchiveInit == Init => Archived!Init
<1> SUFFICES ASSUME Init PROVE Archived!Init
  OBVIOUS
<1>1. known \subseteq 1..published
  BY InitW DEF WInv, KnownInv
<1>2. retrieved \subseteq known /\ published \in 0..MaxDocs /\ stored \subseteq retrieved \X {1, 2}
  BY DEF Init
<1>3. retrieved \subseteq Docs
  BY InitDc DEF DcInv, TypeOK
<1>4. Kept = retrieved \X {1, 2}
  <2>1. file = [f \in Docs \X {1, 2} |->
                  IF f[1] \in retrieved /\ f \notin stored THEN "answer" ELSE "none"]
    BY DEF Init
  <2>2. \A f \in Docs \X {1, 2} : f \in Kept <=> f[1] \in retrieved
    BY <1>2, <2>1 DEF Kept
  <2>3. Kept \subseteq Docs \X {1, 2}
    BY DEF Kept
  <2> QED
    BY <1>3, <2>2, <2>3
<1> QED
  BY <1>1, <1>2, <1>4 DEF Archived!Init

archiveVars == <<published, known, retrieved, Kept>>

\* A search or a backfill inserts a document that is published, or none.
LEMMA SearchArchives ==
  ASSUME WInv, WInv', Latest \/ LatestFails \/ Backfill \/ BackfillFails
  PROVE  [Archived!Next]_archiveVars
<1>1. UNCHANGED <<published, retrieved, file, stored>>
  BY DEF Latest, LatestSearch, LatestInsert, LatestWakes, LatestFails, Backfill, BackfillSearch,
         BackfillInsert, BackfillFails, siteVars, drainVars, dlVars
<1>2. known' = known \/ \E d : known' = known \cup {d}
  BY DEF Latest, LatestSearch, LatestInsert, LatestWakes, LatestFails, Backfill, BackfillSearch,
         BackfillInsert, BackfillFails
<1>3. known' \subseteq 1..published
  BY <1>1 DEF WInv, KnownInv
<1>4. known' = known \/ \E d \in (1..published) \ known : known' = known \cup {d}
  BY <1>2, <1>3
<1>5. UNCHANGED Kept
  BY <1>1, KeptStays
<1> QED
  BY <1>1, <1>4, <1>5 DEF archiveVars, Archived!Next, Archived!Learn

LEMMA DownloadArchives ==
  ASSUME DcInv, dl.pc \in {"create", "fetch", "mark"} => dl.doc \in known,
         Download \/ DownloadErrs \/ FetchFails
  PROVE  [Archived!Next]_archiveVars
<1> DEFINE f == <<dl.doc, dl.res>>
<1>1. UNCHANGED <<published, known, stored>>
  BY DEF Download, Pick, Create, Fetch, Mark, DownloadErrs, FetchFails, siteVars, drainVars
<1>2. dl.doc \in 0..MaxDocs /\ dl.res \in {1, 2}
  BY DEF DcInv, TypeOK, Task
<1>3. CASE Pick \/ DownloadErrs
  BY <1>1, <1>3, KeptStays DEF Pick, DownloadErrs, archiveVars
<1>4. CASE Create \/ Fetch \/ FetchFails
  <2>1. dl.pc \in {"create", "fetch"} /\ UNCHANGED retrieved
    BY <1>4 DEF Create, Fetch, FetchFails
  <2>2. dl.doc \in known \ retrieved /\ f \in Docs \X {1, 2}
    BY <1>2, <2>1 DEF DcInv, DownloadInv
  <2>3. UNCHANGED file \/ \E c \in Contents : file' = [file EXCEPT ![f] = c]
    BY <1>4 DEF Create, Fetch, FetchFails, Contents
  <2>4. Kept' \in {Kept \cup {f}, Kept \ {f}} \/ Kept' = Kept
    BY <1>1, <2>2, <2>3, KeptStays, KeptChanges
  <2>5. f \in Archived!Files(dl.doc)
    BY <1>2 DEF Archived!Files
  <2> QED
    BY <1>1, <2>1, <2>2, <2>4, <2>5 DEF archiveVars, Archived!Next, Archived!Keep
<1>5. CASE Mark
  <2>1. dl.pc = "mark" /\ retrieved' = retrieved \cup {dl.doc} /\ UNCHANGED file
    BY <1>5 DEF Mark
  <2>2. dl.doc \in known \ retrieved /\ dl.doc \in Docs
    BY <2>1 DEF DcInv, DownloadInv
  <2>3. file[<<dl.doc, 1>>] = "answer" /\ file[<<dl.doc, 2>>] = "answer"
    BY <2>1 DEF DcInv, DownloadInv
  <2>4. Archived!Files(dl.doc) \subseteq Kept
    BY <2>2, <2>3 DEF Archived!Files, Kept
  <2>5. UNCHANGED Kept
    BY <1>1, <2>1, KeptStays
  <2> QED
    BY <1>1, <2>1, <2>2, <2>4, <2>5 DEF archiveVars, Archived!Next, Archived!Retrieve
<1> QED
  BY <1>3, <1>4, <1>5 DEF Download

\* Drain keeps what it moves.
LEMMA DrainArchives ==
  ASSUME DcInv, Drain \/ DrainFails
  PROVE  UNCHANGED archiveVars
<1>1. UNCHANGED <<published, known, retrieved>>
  BY DEF Drain, DrainCreate, DrainCopy, DrainDelete, DrainEnds, DrainFails, dlVars
<1>2. stored \subseteq Docs \X {1, 2}
  BY DEF DcInv, TypeOK
<1>3. CASE DrainCreate \/ DrainCopy \/ DrainFails
  <2>1. UNCHANGED stored
    BY <1>3 DEF DrainCreate, DrainCopy, DrainFails
  <2>2. UNCHANGED file \/ \E f \in stored, c \in Contents : file' = [file EXCEPT ![f] = c]
    BY <1>3 DEF DrainCreate, DrainCopy, DrainFails, DcInv, DrainInv, Contents
  <2> QED
    BY <1>1, <1>2, <2>1, <2>2, KeptStays, KeptChanges DEF archiveVars
<1>4. CASE DrainDelete
  <2>1. stored' = stored \ {drain.file} /\ UNCHANGED file /\ file[drain.file] = "answer"
    BY <1>4 DEF DrainDelete, DcInv, DrainInv, dlVars
  <2>2. Kept' = Kept
    BY <2>1 DEF Kept
  <2> QED
    BY <1>1, <2>2 DEF archiveVars
<1>5. CASE DrainEnds
  BY <1>1, <1>5, KeptStays DEF DrainEnds, archiveVars, dlVars
<1> QED
  BY <1>3, <1>4, <1>5 DEF Drain

\* Download works on documents of the table.
TaskInv ==
  /\ dl.pc \in {"create", "fetch", "mark"} => dl.doc \in known
  /\ retrieved \subseteq known

LEMMA TaskStep == DcInv /\ TaskInv /\ [Next]_vars => TaskInv'
<1> SUFFICES ASSUME DcInv, TaskInv, [Next]_vars PROVE TaskInv'
  OBVIOUS
<1>1. CASE Latest \/ LatestFails \/ Backfill \/ BackfillFails
  <2>1. known \subseteq known' /\ UNCHANGED <<dl, retrieved>>
    BY <1>1 DEF Latest, LatestSearch, LatestInsert, LatestWakes, LatestFails, Backfill,
         BackfillSearch, BackfillInsert, BackfillFails, dlVars
  <2> QED
    BY <2>1 DEF TaskInv
<1>2. CASE Pick \/ Mark
  BY <1>2 DEF Pick, Mark, Picking, TaskInv
<1>3. CASE Create \/ Fetch \/ DownloadErrs \/ FetchFails
  <2>1. /\ UNCHANGED <<known, retrieved>>
        /\ \/ dl' = [dl EXCEPT !.pc = "failed"]
           \/ dl.pc \in {"create", "fetch"} /\ \E w, r, t : dl' = Doing(w, r, t)
    BY <1>3 DEF Create, Fetch, DownloadErrs, FetchFails, Failed
  <2>2. dl \in Task
    BY DEF DcInv, TypeOK
  <2>3. dl'.pc = "failed" \/ (dl.pc \in {"create", "fetch"} /\ dl'.doc = dl.doc)
    BY <2>1, <2>2 DEF Task, Doing
  <2> QED
    BY <2>1, <2>3 DEF TaskInv
<1>4. CASE Drain \/ DrainFails \/ Publish \/ Restart \/ UNCHANGED vars
  <2>1. UNCHANGED <<known, retrieved, dl>>
    BY <1>4 DEF Drain, DrainCreate, DrainCopy, DrainDelete, DrainEnds, DrainFails, Publish,
                Restart, vars, dlVars
  <2> QED
    BY <2>1 DEF TaskInv
<1>5. CASE Exit
  BY <1>5 DEF Exit, TaskInv, Picking
<1> QED
  BY <1>1, <1>2, <1>3, <1>4, <1>5 DEF Next, Download

LEMMA TaskInvariance == Spec => []TaskInv
<1>1. Init => TaskInv
  BY DEF Init, Picking, TaskInv
<1> QED
  BY <1>1, TaskStep, DcInvariance, PTL DEF Spec

LEMMA ArchiveStep ==
  DcInv /\ WInv /\ WInv' /\ TaskInv /\ [Next]_vars => [Archived!Next]_archiveVars
<1> SUFFICES ASSUME DcInv, WInv, WInv', TaskInv, [Next]_vars
             PROVE  [Archived!Next]_archiveVars
  OBVIOUS
<1>1. CASE Download \/ DownloadErrs \/ FetchFails
  BY <1>1, DownloadArchives DEF TaskInv
<1>2. CASE Publish
  <2>1. UNCHANGED <<file, stored, known, retrieved>>
    BY <1>2 DEF Publish, drainVars, dlVars
  <2> QED
    BY <1>2, <2>1, KeptStays DEF archiveVars, Archived!Next, Archived!Publish, Publish
<1>3. CASE Exit \/ Restart \/ UNCHANGED vars
  <2>1. UNCHANGED <<published, file, stored, known, retrieved>>
    BY <1>3 DEF Exit, Restart, vars, siteVars, drainVars, dlVars
  <2> QED
    BY <2>1, KeptStays DEF archiveVars
<1> QED
  BY <1>1, <1>2, <1>3, SearchArchives, DrainArchives DEF Next

\* Whatever the four goroutines, the failures and the ends of the process do, each
\* step is one of the archive or changes nothing of it.
THEOREM ArchiveImplemented == Spec => ImplementsArchive
<1>1. DcInv /\ WInv /\ WInv' /\ TaskInv /\ [Next]_vars =>
        [Archived!Next]_<<published, known, retrieved, Kept>>
  BY ArchiveStep DEF archiveVars
<1> QED
  BY ArchiveInit, <1>1, DcInvariance, WalkInvariance, TaskInvariance, PTL
     DEF Spec, ImplementsArchive, Archived!Spec

=============================================================================
