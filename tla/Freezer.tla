------------------------------- MODULE Freezer -------------------------------
(***************************************************************************)
(* custodian's freezer: a page is loaded in a browser and written out as   *)
(* one document without scripts. The document is built in one go; the      *)
(* styles and the images of its elements are filled in by jobs that all    *)
(* run at once and ask the browser (src/custodian/src/freezer.ts).         *)
(*                                                                         *)
(* A step is what the event loop runs for one answer of the browser, with  *)
(* all the continuations that need no other answer.                        *)
(***************************************************************************)

EXTENDS Integers, Sequences

CONSTANTS
  Nodes,       \* the elements that are kept
  Props,       \* names of CSS properties
  Urls,        \* of images; a data URL is named by the URL it holds
  Styled,      \* the properties that rules or attributes set on a node
  Valued,      \* those with a computed value
  Backgrounds, \* the images in the background of a node, <<>> without one
  Sources,     \* what the currentSrc of a node may be, {} if it is no IMG
  None,
  MaxFaults    \* bound on the calls that fail

background == "background-image"

NodeAssumption ==
  /\ None \notin Urls /\ {"asked", "resolved", "waits"} \cap (Urls \cup {None}) = {}
  /\ background \notin Props
  /\ Styled \in [Nodes -> SUBSET Props] /\ Valued \in [Nodes -> SUBSET Props]
  /\ Backgrounds \in [Nodes -> Seq(Urls)]
  /\ Sources \in [Nodes -> SUBSET (Urls \cup {None})]
ASSUME NodeAssumption

VARIABLES
  loaded,            \* the images the page has loaded
  phase,             \* where freezePage and its callers are
  resTree,           \* the images in the resource tree
  imgDataURLs,       \* the images whose data URL is known
  styled, computed,  \* the answers about the style of a node
  drawn,             \* its background so far, None for an image without data
  style,             \* the declarations of its style so far
  source, src,       \* its currentSrc, and the attribute it gets
  output,            \* what was written, None if nothing was
  faults

styles == <<styled, computed, drawn, style>>
images == <<source, src>>
vars   == <<loaded, phase, resTree, imgDataURLs, styles, images, output, faults>>

Init ==
  /\ loaded = {} /\ phase = "setup" /\ resTree = {} /\ imgDataURLs = {}
  /\ styled = [n \in Nodes |-> "asked"] /\ computed = [n \in Nodes |-> "asked"]
  /\ drawn = [n \in Nodes |-> <<>>] /\ style = [n \in Nodes |-> {}]
  /\ source = [n \in Nodes |-> IF Sources[n] = {} THEN None ELSE "asked"]
  /\ src = [n \in Nodes |-> IF Sources[n] = {} THEN None ELSE "waits"]
  /\ output = None /\ faults = 0

-----------------------------------------------------------------------------
(* The page.                                                               *)

\* Its scripts go on and load images at any time.
Load(u) ==
  /\ u \notin loaded
  /\ loaded' = loaded \cup {u}
  /\ UNCHANGED <<phase, resTree, imgDataURLs, styles, images, output, faults>>

(* The sequential part.                                                    *)

Advance(from, to) == phase = from /\ phase' = to
Fault == faults < MaxFaults /\ faults' = faults + 1

ContextOpens ==
  /\ Advance("setup", "goto")
  /\ UNCHANGED <<loaded, resTree, imgDataURLs, styles, images, output, faults>>

PageLoads ==
  /\ Advance("goto", "tree")
  /\ UNCHANGED <<loaded, resTree, imgDataURLs, styles, images, output, faults>>

ResourceTree ==
  /\ Advance("tree", "document")
  /\ resTree' = loaded
  /\ UNCHANGED <<loaded, imgDataURLs, styles, images, output, faults>>

\* The whole document is walked before another answer is looked at: the jobs of
\* all its elements have sent their first calls.
Document ==
  /\ Advance("document", "jobs")
  /\ UNCHANGED <<loaded, resTree, imgDataURLs, styles, images, output, faults>>

\* An error or a timeout in freezePage is logged, and the context is closed.
StepFails ==
  /\ phase \in {"goto", "tree", "document"} /\ phase' = "failed" /\ Fault
  /\ UNCHANGED <<loaded, resTree, imgDataURLs, styles, images, output>>

\* One before or after it is logged, too, and the browser stays open.
OutsideFails ==
  /\ phase \in {"setup", "failed", "written"} /\ phase' = "left open" /\ Fault
  /\ UNCHANGED <<loaded, resTree, imgDataURLs, styles, images, output>>

Close ==
  /\ phase \in {"failed", "written"} /\ phase' = "closed"
  /\ UNCHANGED <<loaded, resTree, imgDataURLs, styles, images, output, faults>>

-----------------------------------------------------------------------------
(* The style of a node: two calls at once, and then all its declarations.  *)

\* Some declaration waits for the computed style.
Awaited(n) == Styled[n] # {} \/ Backgrounds[n] # <<>>

Data(u) == IF u \in resTree THEN u ELSE None

\* Mutant: the style so far is read before the images are waited for.
MutDraw(n, start, known, so_far) ==
  LET b == Backgrounds[n]
  IN \E end \in Len(start) .. Len(b) :
       /\ \A k \in Len(start) + 1 .. end : b[k] \notin resTree \ known
       /\ end < Len(b) => b[end + 1] \in resTree \ known
       /\ drawn' = [drawn EXCEPT ![n] =
            [k \in 1 .. end |-> IF k <= Len(start) THEN start[k] ELSE Data(b[k])]]
       /\ style' = [style EXCEPT ![n] =
            IF b # <<>> /\ end = Len(b) THEN {background} ELSE so_far]

\* The images of a background one after the other, up to the first whose content
\* is neither known nor absent: it is asked for. The declaration comes last.
Draw(n, start, known, so_far) ==
  LET b == Backgrounds[n]
  IN \E end \in Len(start) .. Len(b) :
       /\ \A k \in Len(start) + 1 .. end : b[k] \notin resTree \ known
       /\ end < Len(b) => b[end + 1] \in resTree \ known
       /\ drawn' = [drawn EXCEPT ![n] =
            [k \in 1 .. end |-> IF k <= Len(start) THEN start[k] ELSE Data(b[k])]]
       /\ style' = [style EXCEPT ![n] =
            so_far \cup (IF b # <<>> /\ end = Len(b) THEN {background} ELSE {})]

Declare(n) == Draw(n, <<>>, imgDataURLs, Styled[n] \cap Valued[n])

StyledArrives(n) ==
  /\ phase = "jobs" /\ styled[n] = "asked"
  /\ styled' = [styled EXCEPT ![n] = "known"]
  /\ IF computed[n] = "known" THEN Declare(n) ELSE UNCHANGED <<drawn, style>>
  /\ phase' = IF computed[n] = "failed" /\ Awaited(n) THEN "failed" ELSE phase
  /\ UNCHANGED <<loaded, resTree, imgDataURLs, computed, images, output, faults>>

ComputedArrives(n) ==
  /\ phase = "jobs" /\ computed[n] = "asked"
  /\ computed' = [computed EXCEPT ![n] = "known"]
  /\ IF styled[n] = "known" THEN Declare(n) ELSE UNCHANGED <<drawn, style>>
  /\ UNCHANGED <<loaded, phase, resTree, imgDataURLs, styled, images, output, faults>>

\* Mutant: the error of the computed style goes nowhere.
MutComputedFails(n) ==
  /\ phase = "jobs" /\ computed[n] = "asked" /\ Fault
  /\ computed' = [computed EXCEPT ![n] = "failed"]
  /\ UNCHANGED <<loaded, phase, resTree, imgDataURLs, styled, drawn, style, images, output>>

\* It is an error when a declaration waits for it, which may be later or never.
ComputedFails(n) ==
  /\ phase = "jobs" /\ computed[n] = "asked" /\ Fault
  /\ computed' = [computed EXCEPT ![n] = "failed"]
  /\ phase' = IF styled[n] = "known" /\ Awaited(n) THEN "failed" ELSE phase
  /\ UNCHANGED <<loaded, resTree, imgDataURLs, styled, drawn, style, images, output>>

\* The image of the background whose content is asked for.
Drawing(n) ==
  /\ styled[n] = "known" /\ computed[n] = "known"
  /\ Len(drawn[n]) < Len(Backgrounds[n])

\* Mutant: the images before it are looked up again, as far as the job saw them.
MutDrawnArrives(n) ==
  /\ phase = "jobs" /\ Drawing(n)
  /\ LET u == Backgrounds[n][Len(drawn[n]) + 1]
     IN /\ imgDataURLs' = imgDataURLs \cup {u}
        /\ Draw(n, <<>>, {u}, style[n])
  /\ UNCHANGED <<loaded, phase, resTree, styled, computed, images, output, faults>>

DrawnArrives(n) ==
  /\ phase = "jobs" /\ Drawing(n)
  /\ LET u == Backgrounds[n][Len(drawn[n]) + 1]
     IN /\ imgDataURLs' = imgDataURLs \cup {u}
        /\ Draw(n, Append(drawn[n], u), imgDataURLs \cup {u}, style[n])
  /\ UNCHANGED <<loaded, phase, resTree, styled, computed, images, output, faults>>

-----------------------------------------------------------------------------
(* The image of a node.                                                    *)

\* What it shows is known after two calls: for the object, and for its currentSrc.
Asking(n) == source[n] \in {"asked", "resolved"}

NodeResolves(n) ==
  /\ phase = "jobs" /\ source[n] = "asked"
  /\ source' = [source EXCEPT ![n] = "resolved"]
  /\ UNCHANGED <<loaded, phase, resTree, imgDataURLs, styles, src, output, faults>>

\* Mutant: the URL is noted before the resource is found.
MutSourceArrives(n) ==
  /\ phase = "jobs" /\ source[n] = "resolved"
  /\ \E u \in Sources[n] :
       /\ source' = [source EXCEPT ![n] = u]
       /\ src' = [src EXCEPT ![n] = IF u \in resTree \ imgDataURLs THEN @ ELSE Data(u)]
       /\ imgDataURLs' = imgDataURLs \cup ({u} \ {None})
  /\ UNCHANGED <<loaded, phase, resTree, styles, output, faults>>

\* The content is asked for if it is neither known nor absent.
SourceArrives(n) ==
  /\ phase = "jobs" /\ source[n] = "resolved"
  /\ \E u \in Sources[n] :
       /\ source' = [source EXCEPT ![n] = u]
       /\ src' = [src EXCEPT ![n] = IF u \in resTree \ imgDataURLs THEN @ ELSE Data(u)]
  /\ UNCHANGED <<loaded, phase, resTree, imgDataURLs, styles, output, faults>>

Fetching(n) == ~Asking(n) /\ src[n] = "waits"

ImageArrives(n) ==
  /\ phase = "jobs" /\ Fetching(n)
  /\ imgDataURLs' = imgDataURLs \cup {source[n]}
  /\ src' = [src EXCEPT ![n] = source[n]]
  /\ UNCHANGED <<loaded, phase, resTree, styles, source, output, faults>>

(* All jobs.                                                               *)

\* The first error ends the wait for all of them; nobody looks at the others.
JobFails(n) ==
  /\ phase = "jobs" /\ phase' = "failed" /\ Fault
  /\ styled[n] = "asked" \/ Drawing(n) \/ Asking(n) \/ Fetching(n)
  /\ UNCHANGED <<loaded, resTree, imgDataURLs, styles, images, output>>

Done(n) ==
  /\ styled[n] = "known" /\ (Awaited(n) => computed[n] = "known" /\ ~Drawing(n))
  /\ src[n] # "waits"

Write ==
  /\ Advance("jobs", "written") /\ \A n \in Nodes : Done(n)
  /\ output' = [n \in Nodes |-> [style |-> style[n], drawn |-> drawn[n], src |-> src[n]]]
  /\ UNCHANGED <<loaded, resTree, imgDataURLs, styles, images, faults>>

Job(n) ==
  \/ StyledArrives(n) \/ ComputedArrives(n) \/ ComputedFails(n) \/ DrawnArrives(n)
  \/ NodeResolves(n) \/ SourceArrives(n) \/ ImageArrives(n) \/ JobFails(n)

Answer ==
  \/ ContextOpens \/ PageLoads \/ ResourceTree \/ Document
  \/ StepFails \/ OutsideFails \/ Close
  \/ \E n \in Nodes : Job(n)
  \/ Write

Next == Answer \/ \E u \in Urls : Load(u)

Spec == Init /\ [][Next]_vars

\* As long as the browser is asked something, it answers or the call fails.
FairSpec == Spec /\ WF_vars(Answer)

-----------------------------------------------------------------------------
(* Properties.                                                             *)

\* The types, and which images are known.
TypeOK ==
  /\ phase \in {"setup", "goto", "tree", "document", "jobs", "failed", "written",
                "closed", "left open"}
  /\ imgDataURLs \subseteq resTree /\ resTree \subseteq loaded /\ loaded \subseteq Urls
  /\ styled \in [Nodes -> {"asked", "known"}]
  /\ computed \in [Nodes -> {"asked", "known", "failed"}]
  /\ drawn \in [Nodes -> Seq(Urls \cup {None})]
  /\ style \in [Nodes -> SUBSET (Props \cup {background})]
  /\ source \in [Nodes -> Urls \cup {None, "asked", "resolved"}]
  /\ src \in [Nodes -> Urls \cup {None, "waits"}]
  /\ faults \in Nat

\* A document is written only with the style and the image of every element, those
\* that a pass over one element after the other would give: whatever the order of
\* the answers, two jobs that fetch one image, and calls that fail (freezer.ts:290).
WrittenIsWhole ==
  output # None => \A n \in Nodes :
    /\ output[n].style = (Styled[n] \cap Valued[n])
                           \cup (IF Backgrounds[n] # <<>> THEN {background} ELSE {})
    /\ output[n].drawn = [k \in DOMAIN Backgrounds[n] |-> Data(Backgrounds[n][k])]
    /\ output[n].src = Data(source[n])

\* While Promise.all waits (freezer.ts:290), each element that is not done has a call
\* to the browser open, or an error has ended the wait: no job hangs on an answer
\* that came before it looked, or that another job swallowed.
WaitsForTheBrowser ==
  phase = "jobs" => \A n \in Nodes :
    \/ Done(n)
    \/ styled[n] = "asked" \/ Asking(n) \/ Fetching(n) \/ Drawing(n)
    \/ Awaited(n) /\ computed[n] = "asked"

\* The calls that the jobs of a node may still make.
CallsLeft(n) ==
  (IF styled[n] = "asked" THEN 1 ELSE 0) + (IF computed[n] = "asked" THEN 1 ELSE 0)
    + (CASE source[n] = "asked" -> 2 [] source[n] = "resolved" -> 1 [] OTHER -> 0)
    + (IF src[n] = "waits" THEN 1 ELSE 0) + Len(Backgrounds[n]) - Len(drawn[n])

\* Each answer is one call less for one element and none more for the others: no
\* job asks again for an image that another one fetched meanwhile, or begins a
\* background again (freezer.ts:125).
AnswerStep ==
  phase = "jobs" /\ phase' = "jobs" =>
    \/ UNCHANGED <<styles, images>>
    \/ /\ \A n \in Nodes : CallsLeft(n)' <= CallsLeft(n)
       /\ \E n \in Nodes : CallsLeft(n)' < CallsLeft(n)

EachAnswerCounts == [][AnswerStep]_vars

\* What ends the wait for all jobs, but for fairness (freezer.ts:290).
WaitShrinks == [][WaitsForTheBrowser' /\ AnswerStep]_vars

\* The browser is closed, unless an error outside freezePage leaves it open; and
\* with a document, unless a call failed (freezer.ts:35, 290).
Ends ==
  <>(phase = "left open" \/ (phase = "closed" /\ (faults = 0 => output # None)))

=============================================================================
