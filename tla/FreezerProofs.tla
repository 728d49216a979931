---------------------------- MODULE FreezerProofs ----------------------------
(***************************************************************************)
(* Proofs about Freezer, for any page and any number of calls that fail.   *)
(***************************************************************************)

EXTENDS Freezer, SequenceTheorems, TLAPS

USE NodeAssumption DEF NodeAssumption

\* A background that was begun has what a single pass would have, as far as it is.
DrawnInv(n, d, tree) ==
  /\ Len(d) <= Len(Backgrounds[n])
  /\ \A k \in 1 .. Len(d) :
       d[k] = IF Backgrounds[n][k] \in tree THEN Backgrounds[n][k] ELSE None
  /\ Len(d) < Len(Backgrounds[n]) => Backgrounds[n][Len(d) + 1] \in tree

\* The declarations that go with it.
Declared(n, d) ==
  (Styled[n] \cap Valued[n])
    \cup (IF Backgrounds[n] # <<>> /\ Len(d) = Len(Backgrounds[n]) THEN {background} ELSE {})

Begun(n) == styled[n] = "known" /\ computed[n] = "known"

StyleInv ==
  \A n \in Nodes :
    /\ Begun(n) => DrawnInv(n, drawn[n], resTree) /\ style[n] = Declared(n, drawn[n])
    /\ ~Begun(n) => drawn[n] = <<>> /\ style[n] = {}

ImageInv ==
  \A n \in Nodes :
    /\ Asking(n) => src[n] = "waits"
    /\ Fetching(n) => source[n] \in resTree
    /\ src[n] # "waits" => src[n] = Data(source[n])

\* Before the jobs nothing was answered.
EarlyInv ==
  phase \in {"setup", "goto", "tree", "document"} =>
    /\ imgDataURLs = {}
    /\ \A n \in Nodes : styled[n] = "asked" /\ source[n] \in {"asked", None}
    /\ phase # "document" => resTree = {}

OutputInv == WrittenIsWhole /\ (output # None => phase \in {"written", "closed", "left open"})

IInv == TypeOK /\ StyleInv /\ ImageInv /\ EarlyInv /\ OutputInv

-----------------------------------------------------------------------------
(* Draw                                                                    *)

\* Draw goes on to a place that the invariant allows, whatever else was fetched.
LEMMA DrawIsRight ==
  ASSUME TypeOK, NEW n \in Nodes, NEW start \in Seq(Urls \cup {None}),
         NEW known \in SUBSET resTree, NEW so_far,
         Len(start) <= Len(Backgrounds[n]),
         \A k \in 1 .. Len(start) : start[k] = Data(Backgrounds[n][k]),
         Draw(n, start, known, so_far)
  PROVE  \E d \in Seq(Urls \cup {None}) :
           /\ DrawnInv(n, d, resTree)
           /\ drawn' = [drawn EXCEPT ![n] = d]
           /\ style' = [style EXCEPT ![n] =
                so_far \cup (IF Backgrounds[n] # <<>> /\ Len(d) = Len(Backgrounds[n])
                               THEN {background} ELSE {})]
<1> DEFINE b == Backgrounds[n]
           D(end) == [k \in 1 .. end |-> IF k <= Len(start) THEN start[k] ELSE Data(b[k])]
<1>1. PICK end \in Len(start) .. Len(b) :
        /\ \A k \in Len(start) + 1 .. end : b[k] \notin resTree \ known
        /\ end < Len(b) => b[end + 1] \in resTree \ known
        /\ drawn' = [drawn EXCEPT ![n] = D(end)]
        /\ style' = [style EXCEPT ![n] =
             so_far \cup (IF b # <<>> /\ end = Len(b) THEN {background} ELSE {})]
  BY DEF Draw
<1>2. b \in Seq(Urls) /\ Len(b) \in Nat /\ Len(start) \in Nat /\ end \in Nat
  BY LenProperties
<1>3. ASSUME NEW k \in 1 .. end
      PROVE  D(end)[k] = Data(b[k]) /\ D(end)[k] \in Urls \cup {None}
  <2>1. k \in 1 .. Len(b) /\ b[k] \in Urls
    BY <1>2
  <2>2. Data(b[k]) \in Urls \cup {None}
    BY <2>1 DEF Data
  <2>3. D(end)[k] = IF k <= Len(start) THEN start[k] ELSE Data(b[k])
    OBVIOUS
  <2>4. k <= Len(start) => k \in 1 .. Len(start)
    BY <1>2
  <2> QED
    BY <2>2, <2>3, <2>4
<1>4. D(end) \in Seq(Urls \cup {None}) /\ Len(D(end)) = end
  <2>1. \A k \in 1 .. end :
          (IF k <= Len(start) THEN start[k] ELSE Data(b[k])) \in Urls \cup {None}
    BY <1>3
  <2>2. D(end) \in Seq(Urls \cup {None})
    BY <1>2, <2>1, IsASeq
  <2>3. DOMAIN D(end) = 1 .. end
    OBVIOUS
  <2> HIDE DEF D
  <2> QED
    BY <1>2, <2>2, <2>3, LenProperties
<1> HIDE DEF D
<1>5. DrawnInv(n, D(end), resTree)
  <2>1. Len(D(end)) <= Len(b)
    BY ONLY <1>1, <1>2, <1>4
  <2>2. \A k \in 1 .. Len(D(end)) : D(end)[k] = IF b[k] \in resTree THEN b[k] ELSE None
    BY ONLY <1>3, <1>4, Zenon DEF Data
  <2>3. Len(D(end)) < Len(b) => b[Len(D(end)) + 1] \in resTree
    BY ONLY <1>1, <1>4
  <2> QED
    BY <2>1, <2>2, <2>3 DEF DrawnInv
<1> QED
  BY <1>1, <1>4, <1>5

-----------------------------------------------------------------------------
(* The inductive invariant                                                 *)

LEMMA InitIInv == Init => IInv
<1> SUFFICES ASSUME Init PROVE IInv
  OBVIOUS
<1>1. TypeOK
  BY DEF Init, TypeOK
<1>2. StyleInv /\ ImageInv /\ EarlyInv /\ OutputInv
  BY DEF Init, StyleInv, Begun, ImageInv, Fetching, Asking, Data, EarlyInv, OutputInv, WrittenIsWhole
<1> QED
  BY <1>1, <1>2 DEF IInv

\* What a node that has both answers declares.
LEMMA DeclareIsRight ==
  ASSUME TypeOK, NEW n \in Nodes, Declare(n)
  PROVE  \E d \in Seq(Urls \cup {None}) :
           /\ DrawnInv(n, d, resTree)
           /\ drawn' = [drawn EXCEPT ![n] = d]
           /\ style' = [style EXCEPT ![n] = Declared(n, d)]
<1>1. <<>> \in Seq(Urls \cup {None}) /\ Len(<<>>) = 0
  OBVIOUS
<1>2. Len(<<>>) <= Len(Backgrounds[n]) /\ imgDataURLs \in SUBSET resTree
  <2>1. Backgrounds[n] \in Seq(Urls) /\ Len(Backgrounds[n]) \in Nat
    OBVIOUS
  <2>2. imgDataURLs \in SUBSET resTree
    BY DEF TypeOK
  <2> QED
    BY <1>1, <2>1, <2>2
<1>3. \A k \in 1 .. Len(<<>>) : <<>>[k] = Data(Backgrounds[n][k])
  BY <1>1
<1> DEFINE so_far == Styled[n] \cap Valued[n]
<1>4. PICK from, known : from = <<>> /\ known = imgDataURLs
  OBVIOUS
<1>5. Draw(n, from, known, so_far)
  BY <1>4 DEF Declare
<1>6. /\ from \in Seq(Urls \cup {None}) /\ known \in SUBSET resTree
      /\ Len(from) <= Len(Backgrounds[n])
      /\ \A k \in 1 .. Len(from) : from[k] = Data(Backgrounds[n][k])
  BY <1>1, <1>2, <1>3, <1>4
<1> HIDE DEF so_far
<1>7. PICK d \in Seq(Urls \cup {None}) :
        /\ DrawnInv(n, d, resTree)
        /\ drawn' = [drawn EXCEPT ![n] = d]
        /\ style' = [style EXCEPT ![n] =
             so_far \cup (IF Backgrounds[n] # <<>> /\ Len(d) = Len(Backgrounds[n])
                            THEN {background} ELSE {})]
  BY <1>5, <1>6, DrawIsRight, Zenon
<1> QED
  BY <1>7 DEF Declared, so_far

\* Each answer about the style of a node.
LEMMA StyleSteps ==
  ASSUME TypeOK, StyleInv, NEW n \in Nodes,
         StyledArrives(n) \/ ComputedArrives(n) \/ DrawnArrives(n)
  PROVE  /\ StyleInv'
         /\ drawn' \in [Nodes -> Seq(Urls \cup {None})]
         /\ style' \in [Nodes -> SUBSET (Props \cup {background})]
         /\ styled' \in [Nodes -> {"asked", "known"}]
         /\ computed' \in [Nodes -> {"asked", "known", "failed"}]
<1>0. /\ drawn \in [Nodes -> Seq(Urls \cup {None})]
      /\ style \in [Nodes -> SUBSET (Props \cup {background})]
      /\ styled \in [Nodes -> {"asked", "known"}]
      /\ computed \in [Nodes -> {"asked", "known", "failed"}]
      /\ imgDataURLs \subseteq resTree /\ resTree' = resTree
  BY DEF TypeOK, StyledArrives, ComputedArrives, DrawnArrives
<1>1. /\ styled' \in [Nodes -> {"asked", "known"}]
      /\ computed' \in [Nodes -> {"asked", "known", "failed"}]
      /\ \A m \in Nodes \ {n} : styled'[m] = styled[m] /\ computed'[m] = computed[m]
  BY <1>0 DEF StyledArrives, ComputedArrives, DrawnArrives
<1>2. \A d : Declared(n, d) \subseteq Props \cup {background}
  BY DEF Declared
<1>3. ASSUME NEW d \in Seq(Urls \cup {None}), DrawnInv(n, d, resTree), Begun(n)',
             drawn' = [drawn EXCEPT ![n] = d],
             style' = [style EXCEPT ![n] = Declared(n, d)]
      PROVE  /\ StyleInv'
             /\ drawn' \in [Nodes -> Seq(Urls \cup {None})]
             /\ style' \in [Nodes -> SUBSET (Props \cup {background})]
  <2>1. /\ drawn' \in [Nodes -> Seq(Urls \cup {None})]
        /\ style' \in [Nodes -> SUBSET (Props \cup {background})]
    BY <1>0, <1>2, <1>3
  <2>2. drawn'[n] = d /\ style'[n] = Declared(n, d)
    BY <1>0, <1>3
  <2>3. \A m \in Nodes \ {n} : drawn'[m] = drawn[m] /\ style'[m] = style[m]
    BY <1>0, <1>3
  <2>4. \A m \in Nodes \ {n} : Begun(m)' <=> Begun(m)
    BY <1>1 DEF Begun
  <2>5. StyleInv'
    BY <1>0, <1>3, <2>2, <2>3, <2>4, Zenon DEF StyleInv
  <2> QED
    BY <2>1, <2>5
<1>4. ASSUME ~Begun(n), ~Begun(n)', drawn' = drawn, style' = style
      PROVE  StyleInv'
  <2>1. \A m \in Nodes \ {n} : Begun(m)' <=> Begun(m)
    BY <1>1 DEF Begun
  <2> QED
    BY <1>0, <1>4, <2>1, Zenon DEF StyleInv
<1>5. CASE StyledArrives(n)
  <2>1. styled'[n] = "known" /\ computed' = computed /\ ~Begun(n)
    BY <1>0, <1>5 DEF StyledArrives, Begun
  <2>2. CASE computed[n] = "known"
    <3>1. Declare(n) /\ Begun(n)'
      BY <1>5, <2>1, <2>2 DEF StyledArrives, Begun
    <3> QED
      BY <1>1, <1>3, <3>1, DeclareIsRight
  <2>3. CASE computed[n] # "known"
    <3>1. drawn' = drawn /\ style' = style /\ ~Begun(n)'
      BY <1>5, <2>1, <2>3 DEF StyledArrives, Begun
    <3> QED
      BY <1>0, <1>1, <1>4, <2>1, <3>1
  <2> QED
    BY <2>2, <2>3
<1>6. CASE ComputedArrives(n)
  <2>1. computed'[n] = "known" /\ styled' = styled /\ ~Begun(n)
    BY <1>0, <1>6 DEF ComputedArrives, Begun
  <2>2. CASE styled[n] = "known"
    <3>1. Declare(n) /\ Begun(n)'
      BY <1>6, <2>1, <2>2 DEF ComputedArrives, Begun
    <3> QED
      BY <1>1, <1>3, <3>1, DeclareIsRight
  <2>3. CASE styled[n] # "known"
    <3>1. drawn' = drawn /\ style' = style /\ ~Begun(n)'
      BY <1>6, <2>1, <2>3 DEF ComputedArrives, Begun
    <3> QED
      BY <1>0, <1>1, <1>4, <2>1, <3>1
  <2> QED
    BY <2>2, <2>3
<1>7. CASE DrawnArrives(n)
  <2> DEFINE b == Backgrounds[n]
             u == b[Len(drawn[n]) + 1]
             start == Append(drawn[n], u)
  <2>1. /\ Begun(n) /\ Begun(n)' /\ Len(drawn[n]) < Len(b)
        /\ Draw(n, start, imgDataURLs \cup {u}, style[n])
    BY <1>7 DEF DrawnArrives, Drawing, Begun
  <2>2. DrawnInv(n, drawn[n], resTree) /\ style[n] = Declared(n, drawn[n])
    BY <2>1 DEF StyleInv
  <2>3. u \in resTree /\ style[n] = Styled[n] \cap Valued[n]
    <3>1. u \in resTree
      BY <2>1, <2>2 DEF DrawnInv
    <3>2. Len(drawn[n]) # Len(b)
      BY <1>0, <2>1, LenProperties
    <3> QED
      BY <2>2, <3>1, <3>2 DEF Declared
  <2>4. u \in Urls \cup {None}
    BY <2>3 DEF TypeOK
  <2>5. /\ start \in Seq(Urls \cup {None}) /\ Len(start) = Len(drawn[n]) + 1
        /\ \A k \in 1 .. Len(drawn[n]) : start[k] = drawn[n][k]
        /\ start[Len(drawn[n]) + 1] = u
    BY <1>0, <2>4, AppendProperties
  <2>6. Len(drawn[n]) \in Nat /\ Len(b) \in Nat
    BY <1>0, LenProperties
  <2> HIDE DEF u, start
  <2>7. \A k \in 1 .. Len(start) : start[k] = Data(Backgrounds[n][k])
    <3>1. \A k \in 1 .. Len(drawn[n]) : start[k] = Data(Backgrounds[n][k])
      BY <2>2, <2>5 DEF DrawnInv, Data
    <3>2. start[Len(drawn[n]) + 1] = Data(Backgrounds[n][Len(drawn[n]) + 1])
      BY <2>3, <2>5 DEF Data, u
    <3> QED
      BY <2>5, <2>6, <3>1, <3>2
  <2>8. Len(start) <= Len(Backgrounds[n]) /\ imgDataURLs \cup {u} \in SUBSET resTree
    BY <1>0, <2>1, <2>3, <2>5, <2>6
  <2> DEFINE so_far == Styled[n] \cap Valued[n]
  <2>9. PICK from, known : from = start /\ known = imgDataURLs \cup {u}
    OBVIOUS
  <2>10. Draw(n, from, known, so_far)
    BY <2>1, <2>3, <2>9
  <2>11. /\ from \in Seq(Urls \cup {None}) /\ known \in SUBSET resTree
         /\ Len(from) <= Len(Backgrounds[n])
         /\ \A k \in 1 .. Len(from) : from[k] = Data(Backgrounds[n][k])
    BY <2>5, <2>7, <2>8, <2>9
  <2> HIDE DEF so_far, b
  <2>12. PICK d \in Seq(Urls \cup {None}) :
          /\ DrawnInv(n, d, resTree)
          /\ drawn' = [drawn EXCEPT ![n] = d]
          /\ style' = [style EXCEPT ![n] =
               so_far \cup (IF Backgrounds[n] # <<>> /\ Len(d) = Len(Backgrounds[n])
                              THEN {background} ELSE {})]
    BY <2>10, <2>11, DrawIsRight, Zenon
  <2>13. style' = [style EXCEPT ![n] = Declared(n, d)]
    BY <2>12 DEF Declared, so_far
  <2> QED
    BY <1>1, <1>3, <2>1, <2>12, <2>13
<1> QED
  BY <1>5, <1>6, <1>7

\* Which steps touch the styles, and which the images.
LEMMA StylesKept ==
  ASSUME [Next]_vars
  PROVE  \/ \E n \in Nodes : StyledArrives(n) \/ ComputedArrives(n) \/ DrawnArrives(n)
         \/ \E n \in Nodes : ComputedFails(n)
         \/ UNCHANGED <<styled, computed, drawn, style>>
<1>1. ASSUME NEW n \in Nodes, NodeResolves(n) \/ SourceArrives(n) \/ ImageArrives(n) \/ JobFails(n)
      PROVE  UNCHANGED <<styled, computed, drawn, style>>
  BY <1>1 DEF NodeResolves, SourceArrives, ImageArrives, JobFails, styles
<1>2. ASSUME NEW u \in Urls, Load(u)
      PROVE  UNCHANGED <<styled, computed, drawn, style>>
  BY <1>2 DEF Load, styles
<1>3. CASE \/ ContextOpens \/ PageLoads \/ ResourceTree \/ Document \/ StepFails
           \/ OutsideFails \/ Close \/ Write \/ UNCHANGED vars
  BY <1>3 DEF ContextOpens, PageLoads, ResourceTree, Document, StepFails, OutsideFails, Close,
         Write, styles, vars
<1> QED
  BY <1>1, <1>2, <1>3 DEF Next, Answer, Job

LEMMA ImagesKept ==
  ASSUME [Next]_vars
  PROVE  \/ \E n \in Nodes : NodeResolves(n) \/ SourceArrives(n) \/ ImageArrives(n)
         \/ UNCHANGED <<source, src>>
<1>1. ASSUME NEW n \in Nodes,
             \/ StyledArrives(n) \/ ComputedArrives(n) \/ ComputedFails(n)
             \/ DrawnArrives(n) \/ JobFails(n)
      PROVE  UNCHANGED <<source, src>>
  BY <1>1 DEF StyledArrives, ComputedArrives, ComputedFails, DrawnArrives, JobFails, images
<1>2. ASSUME NEW u \in Urls, Load(u)
      PROVE  UNCHANGED <<source, src>>
  BY <1>2 DEF Load, images
<1>3. CASE \/ ContextOpens \/ PageLoads \/ ResourceTree \/ Document \/ StepFails
           \/ OutsideFails \/ Close \/ Write \/ UNCHANGED vars
  BY <1>3 DEF ContextOpens, PageLoads, ResourceTree, Document, StepFails, OutsideFails, Close,
         Write, images, vars
<1> QED
  BY <1>1, <1>2, <1>3 DEF Next, Answer, Job

\* The resource tree is read once, before any job.
LEMMA TreeKept ==
  ASSUME [Next]_vars, ~ResourceTree
  PROVE  resTree' = resTree
<1>1. ASSUME NEW n \in Nodes, Job(n)
      PROVE  resTree' = resTree
  BY <1>1 DEF Job, StyledArrives, ComputedArrives, ComputedFails, DrawnArrives, NodeResolves,
         SourceArrives, ImageArrives, JobFails
<1>2. ASSUME NEW u \in Urls, Load(u)
      PROVE  resTree' = resTree
  BY <1>2 DEF Load
<1>3. CASE \/ ContextOpens \/ PageLoads \/ Document \/ StepFails \/ OutsideFails \/ Close
           \/ Write \/ UNCHANGED vars
  BY <1>3 DEF ContextOpens, PageLoads, Document, StepFails, OutsideFails, Close, Write, vars
<1> QED
  BY <1>1, <1>2, <1>3 DEF Next, Answer

\* Styles stay as a single pass would have them.
LEMMA StyleStep ==
  ASSUME TypeOK, StyleInv, EarlyInv, [Next]_vars
  PROVE  /\ StyleInv'
         /\ drawn' \in [Nodes -> Seq(Urls \cup {None})]
         /\ style' \in [Nodes -> SUBSET (Props \cup {background})]
         /\ styled' \in [Nodes -> {"asked", "known"}]
         /\ computed' \in [Nodes -> {"asked", "known", "failed"}]
<1>0. /\ drawn \in [Nodes -> Seq(Urls \cup {None})]
      /\ style \in [Nodes -> SUBSET (Props \cup {background})]
      /\ styled \in [Nodes -> {"asked", "known"}]
      /\ computed \in [Nodes -> {"asked", "known", "failed"}]
  BY DEF TypeOK
<1>1. CASE \E n \in Nodes : StyledArrives(n) \/ ComputedArrives(n) \/ DrawnArrives(n)
  BY <1>1, StyleSteps
<1>2. ASSUME NEW n \in Nodes, ComputedFails(n)
      PROVE  /\ StyleInv'
             /\ computed' \in [Nodes -> {"asked", "known", "failed"}]
             /\ UNCHANGED <<styled, drawn, style>>
  <2>1. /\ computed' = [computed EXCEPT ![n] = "failed"] /\ computed[n] = "asked"
        /\ styled' = styled /\ drawn' = drawn /\ style' = style /\ resTree' = resTree
    BY <1>2 DEF ComputedFails
  <2>2. \A m \in Nodes : Begun(m)' <=> Begun(m)
    BY <1>0, <2>1 DEF Begun
  <2> QED
    BY <1>0, <2>1, <2>2 DEF StyleInv
<1>3. CASE ResourceTree
  <2>1. \A n \in Nodes : ~Begun(n)
    BY <1>3 DEF ResourceTree, Advance, EarlyInv, Begun
  <2>2. styled' = styled /\ computed' = computed /\ drawn' = drawn /\ style' = style
    BY <1>3 DEF ResourceTree, styles
  <2> QED
    BY <1>0, <2>1, <2>2 DEF StyleInv, Begun
<1>4. CASE UNCHANGED <<styled, computed, drawn, style, resTree>>
  <2>1. styled' = styled /\ computed' = computed /\ drawn' = drawn /\ style' = style
        /\ resTree' = resTree
    BY <1>4
  <2> QED
    BY <1>0, <2>1 DEF StyleInv, Begun
<1> QED
  BY <1>0, <1>1, <1>2, <1>3, <1>4, StylesKept, TreeKept

\* An image gets the data of what it shows, if the tree has it.
LEMMA ImageStep ==
  ASSUME TypeOK, ImageInv, EarlyInv, [Next]_vars
  PROVE  /\ ImageInv'
         /\ source' \in [Nodes -> Urls \cup {None, "asked", "resolved"}]
         /\ src' \in [Nodes -> Urls \cup {None, "waits"}]
<1>0. /\ source \in [Nodes -> Urls \cup {None, "asked", "resolved"}]
      /\ src \in [Nodes -> Urls \cup {None, "waits"}]
      /\ resTree \subseteq Urls
  BY DEF TypeOK
<1>1. ASSUME NEW n \in Nodes, SourceArrives(n)
      PROVE  /\ ImageInv'
             /\ source' \in [Nodes -> Urls \cup {None, "asked", "resolved"}]
             /\ src' \in [Nodes -> Urls \cup {None, "waits"}]
  <2>1. PICK u \in Sources[n] :
          /\ source' = [source EXCEPT ![n] = u]
          /\ src' = [src EXCEPT ![n] = IF u \in resTree \ imgDataURLs THEN src[n] ELSE Data(u)]
    BY <1>1 DEF SourceArrives
  <2>2. u \in Urls \cup {None} /\ Data(u) \in Urls \cup {None} /\ resTree' = resTree
        /\ source[n] = "resolved" /\ src[n] = "waits"
    BY <1>0, <1>1 DEF SourceArrives, Data, ImageInv, Asking
  <2>3. /\ source' \in [Nodes -> Urls \cup {None, "asked", "resolved"}]
        /\ src' \in [Nodes -> Urls \cup {None, "waits"}]
    BY <1>0, <2>1, <2>2
  <2>4. /\ source'[n] = u /\ src'[n] = IF u \in resTree \ imgDataURLs THEN "waits" ELSE Data(u)
        /\ \A m \in Nodes \ {n} : source'[m] = source[m] /\ src'[m] = src[m]
    BY <1>0, <2>1, <2>2
  <2>5. u \notin {"asked", "resolved"} /\ Data(u) # "waits"
    BY <2>2
  <2>6. ImageInv'
    BY <2>2, <2>4, <2>5, Zenon DEF ImageInv, Fetching, Asking, Data
  <2> QED
    BY <2>3, <2>6
<1>2. ASSUME NEW n \in Nodes, ImageArrives(n)
      PROVE  /\ ImageInv'
             /\ source' \in [Nodes -> Urls \cup {None, "asked", "resolved"}]
             /\ src' \in [Nodes -> Urls \cup {None, "waits"}]
  <2>1. /\ source' = source /\ src' = [src EXCEPT ![n] = source[n]] /\ resTree' = resTree
        /\ source[n] \in resTree /\ ~Asking(n)
    BY <1>2 DEF ImageArrives, ImageInv, Fetching
  <2>2. src' \in [Nodes -> Urls \cup {None, "waits"}]
    BY <1>0, <2>1
  <2>3. src'[n] = source[n] /\ \A m \in Nodes \ {n} : src'[m] = src[m]
    BY <1>0, <2>1
  <2>4. Data(source[n]) = source[n] /\ source[n] # "waits"
    BY <1>0, <2>1 DEF Data
  <2>5. ImageInv'
    BY <2>1, <2>3, <2>4, Zenon DEF ImageInv, Fetching, Asking, Data
  <2> QED
    BY <1>0, <2>1, <2>2, <2>5
<1>3. CASE ResourceTree
  <2>1. /\ \A n \in Nodes : source[n] \in {"asked", None}
        /\ source' = source /\ src' = src /\ resTree = {} /\ resTree' \subseteq Urls
    BY <1>3 DEF ResourceTree, Advance, EarlyInv, images, TypeOK
  <2>2. \A n \in Nodes : source[n] = "asked" \/ (Data(source[n]) = None /\ Data(source[n])' = None)
    BY <2>1 DEF Data
  <2>3. \A n \in Nodes : ~Fetching(n)
    BY <2>1 DEF ImageInv
  <2>4. ImageInv'
    BY <2>1, <2>2, <2>3, Zenon DEF ImageInv, Fetching, Asking
  <2> QED
    BY <1>0, <2>1, <2>4
<1>4. CASE UNCHANGED <<source, src, resTree>>
  <2>1. source' = source /\ src' = src /\ resTree' = resTree
    BY <1>4
  <2> QED
    BY <1>0, <2>1 DEF ImageInv, Fetching, Asking, Data
<1>5. ASSUME NEW n \in Nodes, NodeResolves(n)
      PROVE  /\ ImageInv'
             /\ source' \in [Nodes -> Urls \cup {None, "asked", "resolved"}]
             /\ src' \in [Nodes -> Urls \cup {None, "waits"}]
  <2>1. /\ source' = [source EXCEPT ![n] = "resolved"] /\ src' = src /\ resTree' = resTree
        /\ src[n] = "waits"
    BY <1>5 DEF NodeResolves, ImageInv, Asking
  <2>2. Asking(n) /\ Asking(n)' /\ \A m \in Nodes \ {n} : source'[m] = source[m]
    BY <1>0, <1>5, <2>1 DEF NodeResolves, Asking
  <2>3. ASSUME NEW m \in Nodes
        PROVE  /\ Asking(m)' <=> Asking(m)
               /\ Fetching(m)' <=> Fetching(m)
               /\ m = n \/ source'[m] = source[m]
    BY <2>1, <2>2 DEF Fetching, Asking
  <2>4. ImageInv'
    <3> SUFFICES ASSUME NEW m \in Nodes
                 PROVE  /\ Asking(m)' => src'[m] = "waits"
                        /\ Fetching(m)' => source'[m] \in resTree'
                        /\ src'[m] # "waits" => src'[m] = Data(source[m])'
      BY DEF ImageInv
    <3>1. CASE m = n
      BY <2>1, <2>2, <3>1 DEF Fetching
    <3>2. CASE m # n
      BY <2>1, <2>3, <3>2 DEF ImageInv, Data
    <3> QED
      BY <3>1, <3>2
  <2> QED
    BY <1>0, <2>1, <2>4
<1> QED
  BY <1>1, <1>2, <1>3, <1>4, <1>5, ImagesKept, TreeKept

\* The other types, and which images are known.
LEMMA RestStep ==
  ASSUME TypeOK, StyleInv, ImageInv, EarlyInv, [Next]_vars
  PROVE  /\ phase' \in {"setup", "goto", "tree", "document", "jobs", "failed", "written",
                        "closed", "left open"}
         /\ imgDataURLs' \subseteq resTree' /\ resTree' \subseteq loaded' /\ loaded' \subseteq Urls
         /\ faults' \in Nat
<1>1. phase' \in {"setup", "goto", "tree", "document", "jobs", "failed", "written",
                  "closed", "left open"}
  BY Zenon DEF TypeOK, Next, Answer, Job, Advance, ContextOpens, PageLoads, ResourceTree, Document,
         StepFails, OutsideFails, Close, Write, Load, StyledArrives, ComputedArrives, ComputedFails,
         DrawnArrives, NodeResolves, SourceArrives, ImageArrives, JobFails, vars
<1>2. faults' \in Nat
  <2>1. faults' = faults \/ Fault
    BY Zenon DEF Next, Answer, Job, ContextOpens, PageLoads, ResourceTree, Document,
           StepFails, OutsideFails, Close, Write, Load, StyledArrives, ComputedArrives,
           ComputedFails, DrawnArrives, NodeResolves, SourceArrives, ImageArrives, JobFails, vars
  <2> QED
    <3>1. faults \in Nat
      BY DEF TypeOK
    <3> QED
      BY <2>1, <3>1 DEF Fault
<1>3. imgDataURLs' \subseteq resTree' /\ resTree' \subseteq loaded' /\ loaded' \subseteq Urls
  <2>0. imgDataURLs \subseteq resTree /\ resTree \subseteq loaded /\ loaded \subseteq Urls
    BY DEF TypeOK
  <2>1. ASSUME NEW n \in Nodes, DrawnArrives(n)
        PROVE  imgDataURLs' \subseteq resTree /\ resTree' = resTree /\ loaded' = loaded
    <3>1. /\ imgDataURLs' = imgDataURLs \cup {Backgrounds[n][Len(drawn[n]) + 1]}
          /\ Begun(n) /\ Len(drawn[n]) < Len(Backgrounds[n])
          /\ resTree' = resTree /\ loaded' = loaded
      BY <2>1 DEF DrawnArrives, Drawing, Begun
    <3>2. Backgrounds[n][Len(drawn[n]) + 1] \in resTree
      BY <3>1 DEF StyleInv, DrawnInv
    <3> QED
      BY <2>0, <3>1, <3>2
  <2>2. ASSUME NEW n \in Nodes, ImageArrives(n)
        PROVE  imgDataURLs' \subseteq resTree /\ resTree' = resTree /\ loaded' = loaded
    BY <2>0, <2>2 DEF ImageArrives, ImageInv
  <2>3. ASSUME NEW n \in Nodes, StyledArrives(n) \/ ComputedArrives(n) \/ ComputedFails(n)
                                  \/ NodeResolves(n) \/ SourceArrives(n) \/ JobFails(n)
        PROVE  imgDataURLs' = imgDataURLs /\ resTree' = resTree /\ loaded' = loaded
    BY <2>3 DEF StyledArrives, ComputedArrives, ComputedFails, NodeResolves, SourceArrives, JobFails
  <2>4. CASE ResourceTree
    BY <2>0, <2>4 DEF ResourceTree, Advance, EarlyInv
  <2>5. ASSUME NEW u \in Urls, Load(u)
        PROVE  imgDataURLs' = imgDataURLs /\ resTree' = resTree /\ loaded' = loaded \cup {u}
    BY <2>5 DEF Load
  <2>6. CASE \/ ContextOpens \/ PageLoads \/ Document \/ StepFails \/ OutsideFails \/ Close
             \/ Write \/ UNCHANGED vars
    <3>1. imgDataURLs' = imgDataURLs /\ resTree' = resTree /\ loaded' = loaded
      BY <2>6 DEF ContextOpens, PageLoads, Document, StepFails, OutsideFails, Close, Write, vars
    <3> QED
      BY <2>0, <3>1
  <2> QED
    BY <2>0, <2>1, <2>2, <2>3, <2>4, <2>5, <2>6 DEF Next, Answer, Job
<1> QED
  BY <1>1, <1>2, <1>3

\* Jobs begin with the document.
LEMMA EarlyStep ==
  ASSUME TypeOK, EarlyInv, [Next]_vars
  PROVE  EarlyInv'
<1>1. ASSUME NEW n \in Nodes, Job(n)
      PROVE  phase' \in {"jobs", "failed"}
  BY <1>1 DEF Job, StyledArrives, ComputedArrives, ComputedFails, DrawnArrives, NodeResolves,
         SourceArrives, ImageArrives, JobFails
<1>2. CASE Document \/ StepFails \/ OutsideFails \/ Close \/ Write
  <2>1. phase' \notin {"setup", "goto", "tree", "document"}
    BY <1>2 DEF Document, StepFails, OutsideFails, Close, Write, Advance
  <2> QED
    BY <2>1 DEF EarlyInv
<1>3. CASE ContextOpens \/ PageLoads \/ ResourceTree
  BY <1>3 DEF ContextOpens, PageLoads, ResourceTree, Advance, EarlyInv, styles, images
<1>4. CASE UNCHANGED <<phase, imgDataURLs, styled, source, resTree>>
  BY <1>4 DEF EarlyInv
<1>5. ASSUME NEW u \in Urls, Load(u)
      PROVE  UNCHANGED <<phase, imgDataURLs, styled, source, resTree>>
  BY <1>5 DEF Load, styles, images
<1>6. CASE UNCHANGED vars
  <2>1. UNCHANGED <<phase, imgDataURLs, styled, source, resTree>>
    BY <1>6 DEF vars, styles, images
  <2> QED
    BY <1>4, <2>1
<1>7. (\E n \in Nodes : Job(n)) => EarlyInv'
  BY <1>1, Zenon DEF EarlyInv
<1> QED
  BY <1>2, <1>3, <1>4, <1>5, <1>6, <1>7 DEF Next, Answer

\* What a node has when its jobs are done.
LEMMA DoneIsWhole ==
  ASSUME TypeOK, StyleInv, ImageInv, NEW n \in Nodes, Done(n)
  PROVE  /\ style[n] = (Styled[n] \cap Valued[n])
                         \cup (IF Backgrounds[n] # <<>> THEN {background} ELSE {})
         /\ drawn[n] = [k \in DOMAIN Backgrounds[n] |-> Data(Backgrounds[n][k])]
         /\ src[n] = Data(source[n])
<1>0. /\ drawn[n] \in Seq(Urls \cup {None}) /\ Len(drawn[n]) \in Nat
      /\ Backgrounds[n] \in Seq(Urls) /\ Len(Backgrounds[n]) \in Nat
  BY LenProperties DEF TypeOK
<1>1. src[n] = Data(source[n])
  BY DEF Done, ImageInv
<1>2. CASE Begun(n)
  <2>1. DrawnInv(n, drawn[n], resTree) /\ style[n] = Declared(n, drawn[n])
    BY <1>2 DEF StyleInv
  <2>2. ~(Len(drawn[n]) < Len(Backgrounds[n]))
    <3>1. CASE Awaited(n)
      BY <1>2, <3>1 DEF Done, Begun, Drawing
    <3>2. CASE ~Awaited(n)
      BY <1>0, <3>2 DEF Awaited
    <3> QED
      BY <3>1, <3>2
  <2>3. Len(drawn[n]) = Len(Backgrounds[n])
    BY <1>0, <2>1, <2>2 DEF DrawnInv
  <2>4. style[n] = (Styled[n] \cap Valued[n])
                     \cup (IF Backgrounds[n] # <<>> THEN {background} ELSE {})
    BY <2>1, <2>3 DEF Declared
  <2>5. drawn[n] = [k \in DOMAIN Backgrounds[n] |-> Data(Backgrounds[n][k])]
    <3>1. DOMAIN Backgrounds[n] = 1 .. Len(drawn[n]) /\ DOMAIN drawn[n] = 1 .. Len(drawn[n])
      BY <1>0, <2>3, LenProperties
    <3>2. \A k \in 1 .. Len(drawn[n]) : drawn[n][k] = Data(Backgrounds[n][k])
      BY <2>1 DEF DrawnInv, Data
    <3>3. drawn[n] = [k \in DOMAIN drawn[n] |-> drawn[n][k]]
      BY <1>0
    <3> QED
      BY <3>1, <3>2, <3>3
  <2> QED
    BY <1>1, <2>4, <2>5
<1>3. CASE ~Begun(n)
  <2>1. Styled[n] = {} /\ Backgrounds[n] = <<>> /\ drawn[n] = <<>> /\ style[n] = {}
    BY <1>3 DEF Done, Awaited, Begun, StyleInv
  <2> QED
    BY <1>1, <2>1
<1> QED
  BY <1>2, <1>3

\* WrittenIsWhole for a document, a resource tree and the sources of the images.
Whole(written, tree, from) ==
  \A n \in Nodes :
    /\ written[n].style = (Styled[n] \cap Valued[n])
                            \cup (IF Backgrounds[n] # <<>> THEN {background} ELSE {})
    /\ written[n].drawn = [k \in DOMAIN Backgrounds[n] |->
                             IF Backgrounds[n][k] \in tree THEN Backgrounds[n][k] ELSE None]
    /\ written[n].src = IF from[n] \in tree THEN from[n] ELSE None

LEMMA WholeIsWritten == WrittenIsWhole <=> (output # None => Whole(output, resTree, source))
BY Zenon DEF WrittenIsWhole, Whole, Data

LEMMA WholeIsWrittenNext ==
  WrittenIsWhole' <=> (output' # None => Whole(output', resTree', source'))
BY Zenon DEF WrittenIsWhole, Whole, Data

\* A document is written once, and nothing it was made from changes after that.
LEMMA OutputStep ==
  ASSUME TypeOK, StyleInv, ImageInv, OutputInv, [Next]_vars
  PROVE  OutputInv'
<1>1. CASE Write
  <2>1. /\ output' = [n \in Nodes |-> [style |-> style[n], drawn |-> drawn[n], src |-> src[n]]]
        /\ \A n \in Nodes : Done(n)
        /\ phase' = "written" /\ resTree' = resTree /\ source' = source
    BY <1>1 DEF Write, Advance, images
  <2>2. \A n \in Nodes : /\ output'[n].style = style[n] /\ output'[n].drawn = drawn[n]
                         /\ output'[n].src = src[n]
    BY <2>1
  <2>3. WrittenIsWhole'
    <3>1. Whole(output', resTree, source)
      BY <2>1, <2>2, DoneIsWhole, Zenon DEF Whole, Data
    <3> QED
      BY <2>1, <3>1, WholeIsWrittenNext
  <2> QED
    BY <2>1, <2>3 DEF OutputInv
<1>2. ASSUME NEW n \in Nodes, Job(n)
      PROVE  output' = output /\ phase = "jobs"
  BY <1>2 DEF Job, StyledArrives, ComputedArrives, ComputedFails, DrawnArrives, NodeResolves,
         SourceArrives, ImageArrives, JobFails
<1>3. CASE ContextOpens \/ PageLoads \/ ResourceTree \/ Document \/ StepFails
  <2>1. output' = output /\ phase \in {"setup", "goto", "tree", "document"}
    BY <1>3 DEF ContextOpens, PageLoads, ResourceTree, Document, StepFails, Advance
  <2> QED
    BY <2>1 DEF OutputInv, WrittenIsWhole
<1>4. CASE OutsideFails \/ Close
  <2>1. /\ output' = output /\ resTree' = resTree /\ source' = source
        /\ phase' \in {"closed", "left open"}
    BY <1>4 DEF OutsideFails, Close, images
  <2> QED
    BY <2>1, WholeIsWritten, WholeIsWrittenNext DEF OutputInv
<1>5. ASSUME UNCHANGED vars \/ \E u \in Urls : Load(u)
      PROVE  output' = output /\ resTree' = resTree /\ source' = source /\ phase' = phase
  BY <1>5 DEF vars, Load, images
<1>6. CASE output' = output /\ resTree' = resTree /\ source' = source /\ phase' = phase
  BY <1>6, WholeIsWritten, WholeIsWrittenNext DEF OutputInv
<1>7. CASE output' = output /\ phase = "jobs"
  BY <1>7 DEF OutputInv, WrittenIsWhole
<1> QED
  BY <1>1, <1>2, <1>3, <1>4, <1>5, <1>6, <1>7 DEF Next, Answer

-----------------------------------------------------------------------------
(* Theorems                                                                *)

LEMMA StepIInv == IInv /\ [Next]_vars => IInv'
<1> SUFFICES ASSUME IInv, [Next]_vars PROVE IInv'
  OBVIOUS
<1>1. TypeOK /\ StyleInv /\ ImageInv /\ EarlyInv /\ OutputInv
  BY DEF IInv
<1>2. TypeOK'
  BY <1>1, StyleStep, ImageStep, RestStep, Zenon DEF TypeOK
<1> QED
  BY <1>1, <1>2, StyleStep, ImageStep, EarlyStep, OutputStep, Zenon DEF IInv

LEMMA Invariance == Spec => []IInv
BY InitIInv, StepIInv, PTL DEF Spec

\* The locals of all jobs have their types, and only images that the resource tree
\* has are known: for any page.
THEOREM FreezerTypes == Spec => []TypeOK
BY Invariance, PTL DEF IInv

\* What is written is what a pass over one element after the other would write, in
\* whatever order the browser answers the jobs of any page (freezer.ts:290).
THEOREM WritesWhole == Spec => []WrittenIsWhole
BY Invariance, PTL DEF IInv, OutputInv

-----------------------------------------------------------------------------
(* Progress                                                                *)

\* A computed style that failed ends the wait as soon as a declaration needs it.
FailedInv ==
  phase = "jobs" => \A n \in Nodes :
    computed[n] = "failed" /\ styled[n] = "known" => ~Awaited(n)

LEMMA FailedStep == TypeOK /\ EarlyInv /\ FailedInv /\ [Next]_vars => FailedInv'
<1> SUFFICES ASSUME TypeOK, EarlyInv, FailedInv, [Next]_vars, phase' = "jobs", NEW n \in Nodes,
                    computed'[n] = "failed", styled'[n] = "known"
             PROVE  ~Awaited(n)
  BY DEF FailedInv, Awaited
<1>1. /\ styled \in [Nodes -> {"asked", "known"}]
      /\ computed \in [Nodes -> {"asked", "known", "failed"}]
  BY DEF TypeOK
<1>2. ASSUME UNCHANGED <<styled, computed>> PROVE ~Awaited(n)
  <2>1. phase = "jobs" \/ phase = "document"
    BY <1>1, <1>2 DEF Next, Answer, Job, Advance, ContextOpens, PageLoads, ResourceTree, Document,
           StepFails, OutsideFails, Close, Write, Load, StyledArrives, ComputedArrives,
           ComputedFails, DrawnArrives, NodeResolves, SourceArrives, ImageArrives, JobFails, vars
  <2> QED
    BY <1>2, <2>1 DEF FailedInv, EarlyInv
<1>3. ASSUME NEW m \in Nodes, StyledArrives(m) \/ ComputedArrives(m) \/ ComputedFails(m)
      PROVE  ~Awaited(n)
  <2>1. phase = "jobs" /\ \A k \in Nodes \ {m} : styled'[k] = styled[k] /\ computed'[k] = computed[k]
    BY <1>1, <1>3 DEF StyledArrives, ComputedArrives, ComputedFails
  <2>2. CASE n # m
    BY <2>1, <2>2 DEF FailedInv
  <2>3. CASE n = m
    BY <1>1, <1>3, <2>3 DEF StyledArrives, ComputedArrives, ComputedFails
  <2> QED
    BY <2>2, <2>3
<1>4. ASSUME NEW m \in Nodes, DrawnArrives(m)
      PROVE  ~Awaited(n)
  BY <1>2, <1>4 DEF DrawnArrives
<1> QED
  BY <1>2, <1>3, <1>4, StylesKept

LEMMA FailedInvariance == Spec => []FailedInv
<1>1. Init => FailedInv
  BY DEF Init, FailedInv
<1>2. IInv => TypeOK /\ EarlyInv
  BY DEF IInv
<1> QED
  BY <1>1, <1>2, FailedStep, Invariance, PTL DEF Spec

\* The wait for all jobs is never for nothing: an element that is not done has a
\* call open, whatever the order of the answers and the calls that fail.
THEOREM WaitIsForTheBrowser == Spec => []WaitsForTheBrowser
<1>1. TypeOK /\ FailedInv => WaitsForTheBrowser
  <2> SUFFICES ASSUME TypeOK, FailedInv, phase = "jobs", NEW n \in Nodes, ~Done(n)
               PROVE  \/ styled[n] = "asked" \/ Asking(n) \/ Fetching(n) \/ Drawing(n)
                      \/ Awaited(n) /\ computed[n] = "asked"
    BY DEF WaitsForTheBrowser
  <2>1. styled[n] \in {"asked", "known"} /\ computed[n] \in {"asked", "known", "failed"}
    BY DEF TypeOK
  <2> QED
    BY <2>1 DEF FailedInv, Done, Fetching
<1>2. IInv => TypeOK
  BY DEF IInv
<1> QED
  BY <1>1, <1>2, FailedInvariance, Invariance, PTL

\* A background that goes on keeps what it has.
LEMMA DrawGoesOn ==
  ASSUME drawn \in [Nodes -> Seq(Urls \cup {None})], NEW n \in Nodes,
         NEW start \in Seq(Urls \cup {None}), NEW known, NEW so_far, Draw(n, start, known, so_far)
  PROVE  /\ Len(drawn'[n]) \in Int /\ Len(start) <= Len(drawn'[n])
         /\ \A m \in Nodes \ {n} : drawn'[m] = drawn[m]
<1> DEFINE b == Backgrounds[n]
           D(end) == [k \in 1 .. end |-> IF k <= Len(start) THEN start[k] ELSE Data(b[k])]
<1>1. PICK end \in Len(start) .. Len(b) : drawn' = [drawn EXCEPT ![n] = D(end)]
  BY DEF Draw
<1>2. end \in Nat /\ Len(start) <= end
  BY <1>1
<1>3. DOMAIN D(end) = 1 .. end
  OBVIOUS
<1> HIDE DEF D
<1>4. drawn'[n] = D(end) /\ \A m \in Nodes \ {n} : drawn'[m] = drawn[m]
  BY <1>1
<1>5. Len(D(end)) = end
  BY <1>2, SMT DEF D
<1> QED
  BY <1>2, <1>4, <1>5

\* The calls left, from the five parts of a node's state.
Is(x, v) == IF x = v THEN 1 ELSE 0

Calls(x) == CASE x = "asked" -> 2 [] x = "resolved" -> 1 [] OTHER -> 0

Left(s, c, f, a, i, j) ==
  Is(s, "asked") + Is(c, "asked") + Calls(f) + Is(a, "waits") + i - j

LEMMA OneOrNone == \A x, v : Is(x, v) \in Int /\ Is(x, v) = (IF x = v THEN 1 ELSE 0)
BY DEF Is

LEMMA TwoOrLess ==
  /\ \A x : Calls(x) \in Nat
  /\ Calls("asked") = 2 /\ Calls("resolved") = 1
  /\ \A x : x \notin {"asked", "resolved"} => Calls(x) = 0
BY DEF Calls

LEMMA LeftIs ==
  /\ \A n \in Nodes : CallsLeft(n) =
       Left(styled[n], computed[n], source[n], src[n], Len(Backgrounds[n]), Len(drawn[n]))
  /\ \A n \in Nodes : CallsLeft(n)' =
       Left(styled'[n], computed'[n], source'[n], src'[n], Len(Backgrounds[n]), Len(drawn'[n]))
BY DEF CallsLeft, Left, Is, Calls

LEMMA LeftLess ==
  ASSUME NEW s, NEW c, NEW f, NEW a, NEW s2, NEW c2, NEW f2, NEW a2,
         NEW i \in Int, NEW j \in Int, NEW k \in Int, j <= k,
         s2 = "asked" => s = "asked", c2 = "asked" => c = "asked",
         Calls(f2) <= Calls(f), a2 = "waits" => a = "waits",
         \/ s = "asked" /\ s2 # "asked"
         \/ c = "asked" /\ c2 # "asked"
         \/ Calls(f2) < Calls(f)
         \/ a = "waits" /\ a2 # "waits"
         \/ j < k
  PROVE  Left(s2, c2, f2, a2, i, k) < Left(s, c, f, a, i, j) /\ Left(s2, c2, f2, a2, i, k) \in Int
<1>1. PICK p \in Int, q \in Int : p = Calls(f) /\ q = Calls(f2)
  BY TwoOrLess
<1>2. /\ Is(s2, "asked") <= Is(s, "asked") /\ Is(c2, "asked") <= Is(c, "asked") /\ q <= p
      /\ Is(a2, "waits") <= Is(a, "waits")
      /\ \/ Is(s2, "asked") < Is(s, "asked") \/ Is(c2, "asked") < Is(c, "asked") \/ q < p
         \/ Is(a2, "waits") < Is(a, "waits") \/ j < k
  BY <1>1, OneOrNone
<1>3. /\ Is(s, "asked") \in Int /\ Is(c, "asked") \in Int /\ Is(a, "waits") \in Int
      /\ Is(s2, "asked") \in Int /\ Is(c2, "asked") \in Int /\ Is(a2, "waits") \in Int
  BY OneOrNone
<1>4. j <= k
  OBVIOUS
<1> QED
  BY ONLY <1>1, <1>2, <1>3, <1>4 DEF Left

\* A node with one call less; the others are as before.
LEMMA OneLess ==
  ASSUME NEW n \in Nodes, CallsLeft(n)' < CallsLeft(n), CallsLeft(n) \in Int,
         CallsLeft(n)' \in Int, \A m \in Nodes : CallsLeft(m) \in Int,
         \A m \in Nodes \ {n} :
           /\ styled'[m] = styled[m] /\ computed'[m] = computed[m] /\ drawn'[m] = drawn[m]
           /\ source'[m] = source[m] /\ src'[m] = src[m]
  PROVE  /\ \A m \in Nodes : CallsLeft(m)' <= CallsLeft(m)
         /\ \E m \in Nodes : CallsLeft(m)' < CallsLeft(m)
<1>1. \A m \in Nodes \ {n} : CallsLeft(m)' = CallsLeft(m)
  BY LeftIs
<1>2. ASSUME NEW m \in Nodes
      PROVE  CallsLeft(m)' <= CallsLeft(m)
  <2>1. CASE m = n
    <3>1. PICK i \in Int, j \in Int : i = CallsLeft(n)' /\ j = CallsLeft(n)
      OBVIOUS
    <3>2. i < j
      BY <3>1
    <3> QED
      BY ONLY <2>1, <3>1, <3>2
  <2>2. CASE m # n
    <3>1. PICK j \in Int : j = CallsLeft(m)
      OBVIOUS
    <3> QED
      BY ONLY <1>1, <2>2, <3>1
  <2> QED
    BY <2>1, <2>2
<1> QED
  BY <1>2

LEMMA AnswerCounts ==
  ASSUME IInv, [Next]_vars, phase = "jobs", phase' = "jobs",
         ~UNCHANGED <<styles, images>>
  PROVE  /\ \A n \in Nodes : CallsLeft(n)' <= CallsLeft(n)
         /\ \E n \in Nodes : CallsLeft(n)' < CallsLeft(n)
<1>1. /\ styled \in [Nodes -> {"asked", "known"}]
      /\ computed \in [Nodes -> {"asked", "known", "failed"}]
      /\ drawn \in [Nodes -> Seq(Urls \cup {None})]
      /\ source \in [Nodes -> Urls \cup {None, "asked", "resolved"}]
      /\ src \in [Nodes -> Urls \cup {None, "waits"}]
  BY DEF IInv, TypeOK
<1>2. \A n \in Nodes : Len(Backgrounds[n]) \in Int /\ Len(drawn[n]) \in Int
  BY <1>1, LenProperties
<1>3. \A n \in Nodes : CallsLeft(n) \in Int
  BY <1>2 DEF CallsLeft
<1>4. ASSUME NEW n \in Nodes, StyledArrives(n) \/ ComputedArrives(n)
      PROVE  /\ \A m \in Nodes : CallsLeft(m)' <= CallsLeft(m)
             /\ \E m \in Nodes : CallsLeft(m)' < CallsLeft(m)
  <2>1. /\ UNCHANGED <<source, src>>
        /\ \/ styled[n] = "asked" /\ styled' = [styled EXCEPT ![n] = "known"] /\ computed' = computed
           \/ computed[n] = "asked" /\ computed' = [computed EXCEPT ![n] = "known"] /\ styled' = styled
        /\ Declare(n) \/ drawn' = drawn
    BY <1>4 DEF StyledArrives, ComputedArrives, images
  <2>2. drawn[n] = <<>> /\ Len(drawn[n]) = 0
    <3>1. ~Begun(n)
      BY <1>4 DEF StyledArrives, ComputedArrives, Begun
    <3> QED
      BY <3>1 DEF IInv, StyleInv
  <2>3. /\ Len(drawn'[n]) \in Int /\ 0 <= Len(drawn'[n])
        /\ \A m \in Nodes \ {n} : drawn'[m] = drawn[m]
    <3>1. <<>> \in Seq(Urls \cup {None}) /\ Len(<<>>) = 0
      OBVIOUS
    <3>2. CASE Declare(n)
      BY <1>1, <3>1, <3>2, DrawGoesOn DEF Declare
    <3>3. CASE drawn' = drawn
      BY <2>2, <3>3
    <3> QED
      BY <2>1, <3>2, <3>3
  <2>4. CallsLeft(n)' < CallsLeft(n) /\ CallsLeft(n)' \in Int
    <3>1. /\ styled'[n] = "asked" => styled[n] = "asked"
          /\ computed'[n] = "asked" => computed[n] = "asked"
          /\ \/ styled[n] = "asked" /\ styled'[n] # "asked"
             \/ computed[n] = "asked" /\ computed'[n] # "asked"
          /\ source'[n] = source[n] /\ src'[n] = src[n]
      BY <1>1, <2>1
    <3>2. Len(drawn[n]) <= Len(drawn'[n]) /\ Len(drawn[n]) \in Int /\ Len(Backgrounds[n]) \in Int
      BY <1>2, <2>2, <2>3
    <3>3. /\ Left(styled'[n], computed'[n], source[n], src[n], Len(Backgrounds[n]), Len(drawn'[n]))
               < Left(styled[n], computed[n], source[n], src[n], Len(Backgrounds[n]), Len(drawn[n]))
          /\ Left(styled'[n], computed'[n], source[n], src[n], Len(Backgrounds[n]), Len(drawn'[n]))
               \in Int
      <4>1. /\ Is(styled'[n], "asked") <= Is(styled[n], "asked")
            /\ Is(computed'[n], "asked") <= Is(computed[n], "asked")
            /\ \/ Is(styled'[n], "asked") < Is(styled[n], "asked")
               \/ Is(computed'[n], "asked") < Is(computed[n], "asked")
        BY ONLY <3>1, OneOrNone
      <4>2. /\ Is(styled'[n], "asked") \in Int /\ Is(styled[n], "asked") \in Int
            /\ Is(computed'[n], "asked") \in Int /\ Is(computed[n], "asked") \in Int
            /\ Calls(source[n]) \in Int /\ Is(src[n], "waits") \in Int
        BY OneOrNone, TwoOrLess
      <4>3. PICK i \in Int, j \in Int, k \in Int :
              i = Len(Backgrounds[n]) /\ j = Len(drawn[n]) /\ k = Len(drawn'[n])
        BY <2>3, <3>2
      <4>4. j <= k
        BY <3>2, <4>3
      <4>5. /\ Left(styled'[n], computed'[n], source[n], src[n], i, k)
                 < Left(styled[n], computed[n], source[n], src[n], i, j)
            /\ Left(styled'[n], computed'[n], source[n], src[n], i, k) \in Int
        BY ONLY <4>1, <4>2, <4>4 DEF Left
      <4> QED
        BY ONLY <4>3, <4>5
    <3> QED
      BY <3>1, <3>3, LeftIs
  <2>5. \A m \in Nodes \ {n} :
           /\ styled'[m] = styled[m] /\ computed'[m] = computed[m] /\ drawn'[m] = drawn[m]
           /\ source'[m] = source[m] /\ src'[m] = src[m]
    BY <1>1, <2>1, <2>3
  <2> QED
    BY <1>3, <2>4, <2>5, OneLess
<1>5. ASSUME NEW n \in Nodes, ComputedFails(n)
      PROVE  /\ \A m \in Nodes : CallsLeft(m)' <= CallsLeft(m)
             /\ \E m \in Nodes : CallsLeft(m)' < CallsLeft(m)
  <2>1. /\ computed[n] = "asked" /\ computed' = [computed EXCEPT ![n] = "failed"]
        /\ UNCHANGED <<styled, drawn, source, src>>
    BY <1>5 DEF ComputedFails, images
  <2>2. CallsLeft(n)' < CallsLeft(n) /\ CallsLeft(n)' \in Int
    <3>0. computed'[n] = "failed"
      BY <1>1, <2>1
    <3>1. /\ Is(computed'[n], "asked") < Is(computed[n], "asked")
          /\ Is(computed'[n], "asked") \in Int /\ Is(computed[n], "asked") \in Int
          /\ Is(styled[n], "asked") \in Int /\ Calls(source[n]) \in Int
          /\ Is(src[n], "waits") \in Int
      BY ONLY <2>1, <3>0, OneOrNone, TwoOrLess
    <3>2. PICK i \in Int, j \in Int : i = Len(Backgrounds[n]) /\ j = Len(drawn[n])
      BY <1>2
    <3>3. /\ Left(styled[n], computed'[n], source[n], src[n], i, j)
               < Left(styled[n], computed[n], source[n], src[n], i, j)
          /\ Left(styled[n], computed'[n], source[n], src[n], i, j) \in Int
      BY ONLY <3>1 DEF Left
    <3> QED
      BY <2>1, <3>2, <3>3, LeftIs
  <2> QED
    BY <1>1, <1>3, <2>1, <2>2, OneLess
<1>6. ASSUME NEW n \in Nodes, DrawnArrives(n)
      PROVE  /\ \A m \in Nodes : CallsLeft(m)' <= CallsLeft(m)
             /\ \E m \in Nodes : CallsLeft(m)' < CallsLeft(m)
  <2> DEFINE u == Backgrounds[n][Len(drawn[n]) + 1]
             start == Append(drawn[n], u)
  <2>1. /\ UNCHANGED <<styled, computed, source, src>>
        /\ Draw(n, start, imgDataURLs \cup {u}, style[n])
        /\ Len(drawn[n]) < Len(Backgrounds[n])
    BY <1>6 DEF DrawnArrives, Drawing, images
  <2>2. start \in Seq(Urls \cup {None}) /\ Len(start) = Len(drawn[n]) + 1
    <3>1. Len(drawn[n]) + 1 \in 1 .. Len(Backgrounds[n])
      BY <1>1, <2>1, LenProperties
    <3>2. u \in Urls
      BY <3>1
    <3> QED
      BY <1>1, <3>2, AppendProperties
  <2> HIDE DEF u, start
  <2>3. /\ Len(drawn'[n]) \in Int /\ Len(start) <= Len(drawn'[n])
        /\ \A m \in Nodes \ {n} : drawn'[m] = drawn[m]
    BY <1>1, <2>1, <2>2, DrawGoesOn
  <2>4. CallsLeft(n)' < CallsLeft(n) /\ CallsLeft(n)' \in Int
    <3>1. Len(drawn[n]) < Len(drawn'[n]) /\ Len(drawn[n]) \in Int /\ Len(Backgrounds[n]) \in Int
      BY <1>2, <2>2, <2>3
    <3>2. PICK i \in Int, j \in Int, k \in Int :
            i = Len(Backgrounds[n]) /\ j = Len(drawn[n]) /\ k = Len(drawn'[n])
      BY <2>3, <3>1
    <3>3. j <= k /\ j < k /\ Calls(source[n]) <= Calls(source[n])
      BY <3>1, <3>2, TwoOrLess
    <3>4. /\ Left(styled[n], computed[n], source[n], src[n], i, k)
               < Left(styled[n], computed[n], source[n], src[n], i, j)
          /\ Left(styled[n], computed[n], source[n], src[n], i, k) \in Int
      BY ONLY <3>3, LeftLess
    <3> QED
      BY <2>1, <3>2, <3>4, LeftIs
  <2> QED
    BY <1>3, <2>1, <2>3, <2>4, OneLess
<1>7. ASSUME NEW n \in Nodes, NodeResolves(n) \/ SourceArrives(n) \/ ImageArrives(n)
      PROVE  /\ \A m \in Nodes : CallsLeft(m)' <= CallsLeft(m)
             /\ \E m \in Nodes : CallsLeft(m)' < CallsLeft(m)
  <2>1. /\ UNCHANGED <<styled, computed, drawn>>
        /\ \A m \in Nodes \ {n} : source'[m] = source[m] /\ src'[m] = src[m]
    BY <1>1, <1>7 DEF NodeResolves, SourceArrives, ImageArrives, styles
  <2>2. \/ Calls(source'[n]) < Calls(source[n]) /\ (src'[n] = "waits" => src[n] = "waits")
        \/ source'[n] = source[n] /\ src[n] = "waits" /\ src'[n] # "waits"
    <3>1. CASE SourceArrives(n)
      <4>1. PICK v \in Sources[n] :
              /\ source' = [source EXCEPT ![n] = v]
              /\ src' = [src EXCEPT ![n] = IF v \in resTree \ imgDataURLs THEN @ ELSE Data(v)]
        BY <3>1 DEF SourceArrives
      <4>2. v \in Urls \cup {None} /\ Data(v) \in Urls \cup {None}
        BY <4>1 DEF Data
      <4> QED
        BY <1>1, <3>1, <4>1, <4>2, TwoOrLess DEF SourceArrives
    <3>2. CASE ImageArrives(n)
      <4>1. source[n] # "waits"
        BY <1>1
      <4> QED
        BY <1>1, <3>2, <4>1 DEF ImageArrives, Fetching
    <3>3. CASE NodeResolves(n)
      BY <1>1, <3>3, TwoOrLess DEF NodeResolves
    <3> QED
      BY <1>7, <3>1, <3>2, <3>3
  <2>3. CallsLeft(n)' < CallsLeft(n) /\ CallsLeft(n)' \in Int
    <3>1. /\ Calls(source'[n]) <= Calls(source[n])
          /\ src'[n] = "waits" => src[n] = "waits"
          /\ \/ Calls(source'[n]) < Calls(source[n])
             \/ src[n] = "waits" /\ src'[n] # "waits"
      BY <2>2, TwoOrLess
    <3>2. Len(drawn[n]) \in Int /\ Len(Backgrounds[n]) \in Int /\ Len(drawn[n]) <= Len(drawn[n])
      BY <1>2
    <3>3. /\ Left(styled[n], computed[n], source'[n], src'[n], Len(Backgrounds[n]), Len(drawn[n]))
               < Left(styled[n], computed[n], source[n], src[n], Len(Backgrounds[n]), Len(drawn[n]))
          /\ Left(styled[n], computed[n], source'[n], src'[n], Len(Backgrounds[n]), Len(drawn[n]))
               \in Int
      <4>1. /\ Calls(source'[n]) <= Calls(source[n])
            /\ Is(src'[n], "waits") <= Is(src[n], "waits")
            /\ \/ Calls(source'[n]) < Calls(source[n])
               \/ Is(src'[n], "waits") < Is(src[n], "waits")
        BY ONLY <3>1, OneOrNone
      <4>2. /\ Calls(source'[n]) \in Int /\ Calls(source[n]) \in Int
            /\ Is(src'[n], "waits") \in Int /\ Is(src[n], "waits") \in Int
            /\ Is(styled[n], "asked") \in Int /\ Is(computed[n], "asked") \in Int
        BY OneOrNone, TwoOrLess
      <4>3. PICK i \in Int, j \in Int : i = Len(Backgrounds[n]) /\ j = Len(drawn[n])
        BY <3>2
      <4>4. /\ Left(styled[n], computed[n], source'[n], src'[n], i, j)
                 < Left(styled[n], computed[n], source[n], src[n], i, j)
            /\ Left(styled[n], computed[n], source'[n], src'[n], i, j) \in Int
        BY ONLY <4>1, <4>2 DEF Left
      <4> QED
        BY ONLY <4>3, <4>4
    <3> QED
      BY <2>1, <3>3, LeftIs
  <2> QED
    BY <1>3, <2>1, <2>3, OneLess
<1> QED
  BY <1>4, <1>5, <1>6, <1>7, StylesKept, ImagesKept DEF styles, images

\* The calls left are never fewer than none.
LEMMA CallsLeftNat == IInv => \A n \in Nodes : CallsLeft(n) \in Nat
<1> SUFFICES ASSUME IInv, NEW n \in Nodes PROVE CallsLeft(n) \in Nat
  OBVIOUS
<1>1. drawn[n] \in Seq(Urls \cup {None}) /\ Backgrounds[n] \in Seq(Urls)
  BY DEF IInv, TypeOK
<1>2. Len(drawn[n]) \in Nat /\ Len(Backgrounds[n]) \in Nat
  BY <1>1, LenProperties
<1>3. Len(drawn[n]) <= Len(Backgrounds[n])
  <2>1. CASE Begun(n)
    BY <2>1 DEF IInv, StyleInv, DrawnInv
  <2>2. CASE ~Begun(n)
    <3>1. drawn[n] = <<>> /\ Len(<<>>) = 0
      BY <2>2 DEF IInv, StyleInv
    <3> QED
      BY <1>2, <3>1
  <2> QED
    BY <2>1, <2>2
<1>4. PICK i \in Nat, j \in Nat : i = Len(Backgrounds[n]) /\ j = Len(drawn[n])
  BY <1>2
<1>5. j <= i
  BY <1>3, <1>4
<1>6. /\ Is(styled[n], "asked") \in Nat /\ Is(computed[n], "asked") \in Nat
      /\ Calls(source[n]) \in Nat /\ Is(src[n], "waits") \in Nat
  BY TwoOrLess DEF Is
<1>7. Left(styled[n], computed[n], source[n], src[n], i, j) \in Nat
  BY ONLY <1>5, <1>6 DEF Left
<1> QED
  BY <1>4, <1>7, LeftIs

\* Every answer brings the jobs nearer to their end (and CallsLeft is never below
\* zero, CallsLeftNat): with the calls of WaitsForTheBrowser answered, the wait is over after at
\* most as many answers as the first elements ask for.
THEOREM AnswersCount == Spec => EachAnswerCounts
<1>1. IInv /\ [Next]_vars => [AnswerStep]_vars
  BY AnswerCounts DEF AnswerStep
<1> QED
  BY <1>1, Invariance, PTL DEF Spec, EachAnswerCounts

\* The wait for all jobs has an answer to come as long as it lasts, and each answer is
\* one less to come: all that its end (freezer.ts:290) needs but a browser that answers.
THEOREM WaitEndsIfAnswered == Spec => WaitShrinks
  BY WaitIsForTheBrowser, AnswersCount, PTL DEF WaitShrinks, EachAnswerCounts

=============================================================================
