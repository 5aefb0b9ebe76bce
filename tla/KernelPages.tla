----------------------------- MODULE KernelPages -----------------------------
(***************************************************************************)
(* The browser's page (kernel/src/desktop.rs) and the turn of the main     *)
(* loop that fetches it (main.rs).  The person acts between two turns, as  *)
(* often as they like; a turn moves the fetch of HttpFetch along, hands it *)
(* the address the browser waits for, gives back what came, and lays the   *)
(* page out.                                                               *)
(*                                                                         *)
(* A page is its address; what a fetch brings is the address it comes      *)
(* from.  A layout is the furthest it scrolls.                             *)
(***************************************************************************)
EXTENDS Integers, SequencesExt

CONSTANTS OwnPages,     \* the system's own pages and those of files
          WebPages,        \* pages on the network
          Goes(_),    \* where the server of a page sends: itself, or another
          Home,
          Furthest(_, _),  \* how far a source scrolls in a wide window or not
          MaxVisits   \* bounds the row of pages visited

ASSUME PagesAssumption ==
    /\ Home \in OwnPages /\ OwnPages \cap WebPages = {} /\ "none" \notin WebPages /\ MaxVisits \in Nat
    /\ \A p \in WebPages : Goes(p) \in WebPages

VARIABLES page, trail, ahead,
          answer,     \* fetched and failed: "none", "failed", or the page fetched
          waiting,    \* the address the kernel has not taken yet, <<>> for none
          fetch,      \* main.rs: phase, the address it was asked, delivered
          wide,       \* the window's width
          laid,       \* rows_for: the source and the width laid out
          scroll,
          wanted      \* history: the last page on the network asked for

pageVars == <<page, trail, ahead, answer, waiting, fetch, wide, laid, scroll, wanted>>

NoPage == "none"

PagesInit ==
    /\ page = Home /\ trail = <<>> /\ ahead = <<>>
    /\ answer = NoPage /\ waiting = NoPage
    /\ fetch = [phase |-> "idle", asked |-> NoPage, delivered |-> TRUE]
    /\ wide = FALSE /\ laid = [source |-> "nothing", wide |-> FALSE] /\ scroll = 0
    /\ wanted = NoPage

\* page_source.
SourceOf(p, a) == IF p \in OwnPages THEN p ELSE IF a = NoPage THEN "loading" ELSE a
Laid == [source |-> SourceOf(page, answer), wide |-> wide]

MaxScroll(l) == IF l.source = "nothing" THEN 0 ELSE Furthest(l.source, l.wide)

(***************************************************************************)
(* The person                                                              *)
(***************************************************************************)

\* show: everything about the page before goes; a page on the network is
\* asked for.
Show(url) ==
    /\ page' = url /\ answer' = NoPage /\ scroll' = 0
    /\ waiting' = IF url \in WebPages THEN url ELSE waiting
    /\ wanted' = IF url \in WebPages THEN url ELSE wanted
    /\ UNCHANGED <<fetch, wide, laid>>

\* Mutant: the way forward is kept.
AheadAfter_Kept == ahead

AheadAfter == <<>>

\* go: a link, a bookmark, the home button, an address.
Go(url) ==
    /\ url # page => Len(trail) + 1 < MaxVisits
    /\ IF url # page THEN trail' = Append(trail, page) /\ ahead' = AheadAfter
                     ELSE UNCHANGED <<trail, ahead>>
    /\ Show(url)

ClickBack ==
    /\ trail # <<>>
    /\ trail' = Front(trail) /\ ahead' = Append(ahead, page)
    /\ Show(Last(trail))

ClickForward ==
    /\ ahead # <<>>
    /\ ahead' = Front(ahead) /\ trail' = Append(trail, page)
    /\ Show(Last(ahead))

ClickReload == Show(page) /\ UNCHANGED <<trail, ahead>>

\* refresh_rows, then scroll_by: the wheel, the keys and the bar.
Least(a, b) == IF a <= b THEN a ELSE b
ScrollBy(delta) ==
    /\ laid' = Laid
    /\ LET from == Least(scroll, MaxScroll(Laid))
       IN  scroll' = Least(IF from + delta < 0 THEN 0 ELSE from + delta, MaxScroll(Laid))
    /\ UNCHANGED <<page, trail, ahead, answer, waiting, fetch, wide, wanted>>

Resize == wide' = ~wide /\ UNCHANGED <<page, trail, ahead, answer, waiting, fetch, laid, scroll, wanted>>

(***************************************************************************)
(* A turn of the main loop                                                 *)
(***************************************************************************)
Busy == fetch.phase = "busy"

\* Mutant: what came is handed over before the address waiting is taken.
Taken_Late(f, starts) ==
    IF waiting = NoPage \/ (f.phase \in {"done", "failed"} /\ ~f.delivered) THEN f
    ELSE [phase |-> starts, asked |-> waiting, delivered |-> FALSE]

\* wants_page: an address waiting replaces whatever was being fetched, and
\* may not be one that can be reached.
Taken(f, starts) ==
    IF waiting = NoPage THEN f ELSE [phase |-> starts, asked |-> waiting, delivered |-> FALSE]

\* Mutant: only what came is said.
News_Good(f) == ~f.delivered /\ f.phase = "done" /\ page \in WebPages

\* page_result: dropped when the person went to a page of the system.
News(f) == ~f.delivered /\ f.phase \in {"done", "failed"} /\ page \in WebPages

\* fetch.poll ends as it will.  frame lays the page out again when it or the
\* width changed, if the window is open.
Turn(ends, starts, open) ==
    /\ IF Busy THEN ends \in {"busy", "done", "failed"} ELSE ends = fetch.phase
    /\ LET f == Taken([fetch EXCEPT !.phase = ends], starts)
           came == News(f) /\ f.phase = "done"
           top == IF came THEN 0 ELSE scroll
       IN  /\ page' = IF came THEN Goes(f.asked) ELSE page
           /\ answer' = IF came THEN Goes(f.asked) ELSE IF News(f) THEN "failed" ELSE answer
           /\ fetch' = [f EXCEPT !.delivered = @ \/ f.phase \in {"done", "failed"}]
           /\ waiting' = IF f.asked = waiting THEN NoPage ELSE waiting
           /\ laid' = IF open THEN [source |-> SourceOf(page', answer'), wide |-> wide] ELSE laid
           /\ scroll' = IF open /\ laid' # laid THEN Least(top, MaxScroll(laid')) ELSE top
    /\ UNCHANGED <<trail, ahead, wide, wanted>>

Phases == {"idle", "busy", "done", "failed"}
AnyTurn == \E ends \in Phases, starts \in {"busy", "failed"}, open \in BOOLEAN : Turn(ends, starts, open)

PagesNext ==
    \/ \E url \in OwnPages \cup WebPages : Go(url)
    \/ ClickBack \/ ClickForward \/ ClickReload \/ Resize
    \/ \E delta \in {-1, 1} : ScrollBy(delta)
    \/ AnyTurn

PagesSpec == PagesInit /\ [][PagesNext]_pageVars

(***************************************************************************)
(* Properties                                                              *)
(***************************************************************************)
PagesTypeOK ==
    /\ {page} \cup ToSet(trail) \cup ToSet(ahead) \subseteq OwnPages \cup WebPages
    /\ answer \in WebPages \cup {NoPage, "failed"} /\ {waiting, wanted, fetch.asked} \subseteq WebPages \cup {NoPage}
    /\ fetch.phase \in Phases /\ fetch.delivered \in BOOLEAN
    /\ wide \in BOOLEAN /\ scroll \in Nat

\* Back and Forward walk the row of pages visited, whatever is fetched,
\* redirected or fails meanwhile.
Row == INSTANCE BrowserHistory WITH
           Page <- OwnPages \cup WebPages, FirstPage <- Home,
           visited <- trail \o <<page>> \o Reverse(ahead), here <- Len(trail) + 1
WalksHistory == Row!Spec

\* What is shown is what was asked for last: the answer of a fetch that was
\* given up never takes the place of the page.
AnswersTheLast ==
    [][answer' # answer /\ answer' # NoPage => fetch'.asked = wanted]_pageVars

\* What is shown belongs to the address shown.
ShownIsHere == answer \in WebPages => answer = page

\* No page is left scrolled past its end once it is laid out.
ScrollInRange == laid = Laid => scroll <= MaxScroll(laid)

\* A page said to be loading is the one that waits or that is being fetched,
\* and its news are still to be given: none is left loading with nothing on
\* its way.  (A fetch itself may last for ever, HttpFetch.)
LoadingIsUnderWay ==
    page \in WebPages /\ answer = NoPage =>
        \/ waiting = page
        \/ waiting = NoPage /\ Busy /\ fetch.asked = page /\ ~fetch.delivered
=============================================================================
