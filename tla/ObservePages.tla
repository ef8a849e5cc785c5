---------------------------- MODULE ObservePages ----------------------------
(***************************************************************************)
(* `drove observe`: one viewer pages through and searches the record files *)
(* while proxies write new ones and drop old ones.  The viewer's event     *)
(* loop asks for a page, a thread lists the directories and reads the      *)
(* files one by one, and meanwhile the user may have asked for another.    *)
(*                                                                         *)
(* Records are numbered as their file names sort, oldest first.            *)
(***************************************************************************)
EXTENDS Integers, Sequences, FiniteSets

CONSTANTS
  Records,      \* numbers of the records there may be
  Folder,       \* the directory of each: <<model>> or <<org, repo>>
  Early,        \* those on disk when the viewer starts
  Searches,     \* the sets of records a search text matches
  PageSize,
  MaxAsked,     \* bound: searches, refreshes and page turns
  MaxPruned,    \* bound: records dropped
  MaxBroken,    \* bound: directories that cannot be read
  Null

PageRequests == [generation : Nat, query : Searches \cup {Null}, offset : Nat]
PageScans == [request : PageRequests, at : {"dirs", "files", "reading"},
              dirs : SUBSET {Folder[r] : r \in Records}, paths : SUBSET Records,
              page : SUBSET Records, matched : Nat, lasting : SUBSET Records,
              hidden : SUBSET Records]
Pages == [request : PageRequests, page : SUBSET Records, lasting : SUBSET Records,
          hidden : SUBSET Records]

ASSUME PagesAssumption ==
  /\ Records \subseteq Nat /\ IsFiniteSet(Records) /\ Early \subseteq Records
  /\ DOMAIN Folder = Records
  /\ PageSize \in Nat \ {0} /\ {MaxAsked, MaxPruned, MaxBroken} \subseteq Nat
  /\ \A s \in Searches : s \subseteq Records
  /\ Null \notin Searches /\ Null \notin PageRequests /\ Null \notin PageScans

VARIABLES
  recordFile,   \* of each record: "none", "partial", "whole" or "gone"
  search,       \* _search, Null when it is empty
  offset,       \* _offset
  total,        \* _total
  generation,   \* _generation
  pending,      \* _pending, a PageRequest or Null
  debounce,     \* _debounce is running
  loading,      \* _loading
  viewerClosed, \* _closed
  scan,         \* the thread's work, Null when _query_running is false
  shown,        \* the page on the screen, Null while loading or after an error
  asked, broken

pageVars == <<recordFile, search, offset, total, generation, pending, debounce, loading,
              viewerClosed, scan, shown, asked, broken>>

-----------------------------------------------------------------------------
(* The files.                                                              *)

OnDisk(r)    == recordFile[r] \in {"partial", "whole"}
WholeRecords == {r \in Records : recordFile[r] = "whole"}
Dropped      == {r \in Records : recordFile[r] = "gone"}

\* Directories with records of their own are not taken for namespaces, so what
\* lies below them is not listed.
Used       == {Folder[r] : r \in {x \in Records : OnDisk(x)}}
Nested(d)  == Len(d) > 1 /\ <<d[1]>> \in Used
FlatDirs   == {d \in Used : Len(d) = 1}  \* mutant: namespaces are not walked at all
RecordDirs == {d \in Used : ~Nested(d)}

SaveRecord(r) ==  \* created, and written after that
  /\ recordFile[r] = "none"
  /\ recordFile' = [recordFile EXCEPT ![r] = "partial"]
  /\ UNCHANGED <<search, offset, total, generation, pending, debounce, loading, viewerClosed,
                 scan, shown, asked, broken>>

RecordSaved(r) ==
  /\ recordFile[r] = "partial"
  /\ recordFile' = [recordFile EXCEPT ![r] = "whole"]
  /\ UNCHANGED <<search, offset, total, generation, pending, debounce, loading, viewerClosed,
                 scan, shown, asked, broken>>

Without(s, r) == IF s = Null THEN Null ELSE [s EXCEPT !.lasting = @ \ {r}]

Prune(r) ==  \* any record may be the one that has become too old
  /\ recordFile[r] = "whole" /\ Cardinality(Dropped) < MaxPruned
  /\ recordFile' = [recordFile EXCEPT ![r] = "gone"]
  /\ scan' = Without(scan, r)
  /\ UNCHANGED <<search, offset, total, generation, pending, debounce, loading, viewerClosed,
                 shown, asked, broken>>

-----------------------------------------------------------------------------
(* The viewer's event loop.                                                *)

PageRequest == [generation |-> generation', query |-> search', offset |-> offset']

\* _query_loop: with no request left it ends.  `lasting` follows what stays on disk, `hidden`
\* is what the listing of the directories passes over.
Scanning(request) ==
  [request |-> request, at |-> "dirs", dirs |-> {}, paths |-> {}, page |-> {}, matched |-> 0,
   lasting |-> WholeRecords, hidden |-> {}]

\* _request_page and _enqueue_page; a loop at work takes the request later.
RequestPage(slowly, idle) ==
  /\ generation' = generation + 1
  /\ loading' = TRUE /\ shown' = Null
  /\ debounce' = slowly
  /\ IF slowly THEN pending' = Null /\ scan' = (IF idle THEN Null ELSE scan)
     ELSE IF idle THEN pending' = Null /\ scan' = Scanning(PageRequest)
     ELSE pending' = PageRequest /\ scan' = scan

UserAsks == ~viewerClosed /\ asked < MaxAsked /\ asked' = asked + 1

PageInit ==
  /\ recordFile = [r \in Records |-> IF r \in Early THEN "whole" ELSE "none"]
  /\ search = Null /\ offset = 0 /\ total = 0 /\ generation = 1
  /\ pending = Null /\ debounce = FALSE /\ loading = TRUE /\ viewerClosed = FALSE
  /\ scan = Scanning([generation |-> 1, query |-> Null, offset |-> 0])
  /\ shown = Null /\ asked = 0 /\ broken = 0

ChangeSearch(q) ==
  /\ UserAsks /\ q # search
  /\ search' = q /\ offset' = 0
  /\ RequestPage(TRUE, scan = Null)
  /\ UNCHANGED <<recordFile, total, viewerClosed, broken>>

Debounced ==
  /\ debounce /\ ~viewerClosed
  /\ debounce' = FALSE
  /\ UNCHANGED <<search, offset, generation>>
  /\ IF scan = Null THEN pending' = Null /\ scan' = Scanning(PageRequest)
     ELSE pending' = PageRequest /\ scan' = scan
  /\ UNCHANGED <<recordFile, total, loading, viewerClosed, shown, asked, broken>>

RefreshPages ==
  /\ UserAsks
  /\ offset' = 0 /\ search' = search
  /\ RequestPage(FALSE, scan = Null)
  /\ UNCHANGED <<recordFile, total, viewerClosed, broken>>

TurnPage ==
  /\ UserAsks /\ ~loading
  /\ \/ offset # 0 /\ offset' = IF offset < PageSize THEN 0 ELSE offset - PageSize
     \/ offset + PageSize < total /\ offset' = offset + PageSize
  /\ search' = search
  /\ RequestPage(FALSE, scan = Null)
  /\ UNCHANGED <<recordFile, total, viewerClosed, broken>>

CloseViewer ==
  /\ ~viewerClosed
  /\ viewerClosed' = TRUE /\ generation' = generation + 1
  /\ pending' = Null /\ debounce' = FALSE
  /\ UNCHANGED <<recordFile, search, offset, total, loading, scan, shown, asked, broken>>

-----------------------------------------------------------------------------
(* The thread: list_records_page and search_records_page.                  *)

Reading(place) == scan # Null /\ scan.at = place /\ ~viewerClosed
ScreenKept == UNCHANGED <<recordFile, search, offset, total, generation, pending, debounce,
                          loading, viewerClosed, shown, asked, broken>>

ListDirs ==
  /\ Reading("dirs")
  /\ scan' = [scan EXCEPT !.at = "files", !.dirs = RecordDirs,
                          !.hidden = {r \in Records : Nested(Folder[r])}]
  /\ ScreenKept

ListFiles(d) ==
  /\ Reading("files") /\ d \in scan.dirs
  /\ scan' = [scan EXCEPT !.dirs = @ \ {d},
                          !.paths = @ \cup {r \in Records : Folder[r] = d /\ OnDisk(r)}]
  /\ ScreenKept

\* The newest first: r's place in the list.
Rank(paths, r) == Cardinality({x \in paths : x > r})
InWindow(rank) == scan.request.offset <= rank /\ rank < scan.request.offset + PageSize

ListSorted ==
  /\ Reading("files") /\ scan.dirs = {}
  /\ scan' = [scan EXCEPT !.at = "reading",
                !.matched = IF scan.request.query = Null THEN Cardinality(scan.paths) ELSE 0,
                !.paths = IF scan.request.query = Null
                          THEN {r \in @ : InWindow(Rank(scan.paths, r))} ELSE @]
  /\ ScreenKept

Newest(paths) == CHOOSE r \in paths : \A x \in paths : x <= r

ReadRecord ==  \* one that is gone or half written by now is skipped
  /\ Reading("reading") /\ scan.paths # {}
  /\ LET r     == Newest(scan.paths)
         match == scan.request.query # Null /\ recordFile[r] = "whole" /\ r \in scan.request.query
     IN  scan' = [scan EXCEPT
           !.paths = @ \ {r},
           !.matched = IF match THEN @ + 1 ELSE @,
           !.page = IF \/ match /\ InWindow(scan.matched)
                       \/ scan.request.query = Null /\ recordFile[r] = "whole"
                    THEN @ \cup {r} ELSE @]
  /\ ScreenKept

DropRequest == pending' = Null /\ scan' = Null  \* mutant: a request made meanwhile is lost

\* Back on the loop, which then takes the next request, if there is one.
NextScan == pending' = Null /\ scan' = IF pending = Null THEN Null ELSE Scanning(pending)

PageOutdated ==
  /\ scan # Null
  /\ \/ viewerClosed
     \/ scan.at = "reading" /\ scan.paths = {} /\ scan.request.generation # generation
  /\ NextScan
  /\ UNCHANGED <<recordFile, search, offset, total, generation, debounce, loading, viewerClosed,
                 shown, asked, broken>>

PageRead == Reading("reading") /\ scan.paths = {} /\ scan.request.generation = generation

PageBeyondEnd ==
  /\ PageRead /\ scan.request.offset # 0 /\ scan.request.offset >= scan.matched
  /\ offset' = IF scan.matched = 0 THEN 0 ELSE ((scan.matched - 1) \div PageSize) * PageSize
  /\ search' = search
  /\ RequestPage(FALSE, TRUE)
  /\ UNCHANGED <<recordFile, total, viewerClosed, asked, broken>>

RenderWhatCame ==  \* mutant: an answer is shown whatever has been asked since
  /\ Reading("reading") /\ scan.paths = {}
  /\ total' = scan.matched /\ loading' = FALSE
  /\ shown' = [request |-> scan.request, page |-> scan.page, lasting |-> scan.lasting,
                hidden |-> scan.hidden]
  /\ NextScan
  /\ UNCHANGED <<recordFile, search, offset, generation, debounce, viewerClosed, asked, broken>>

RenderPage ==
  /\ PageRead /\ (scan.request.offset = 0 \/ scan.request.offset < scan.matched)
  /\ total' = scan.matched /\ loading' = FALSE
  /\ shown' = [request |-> scan.request, page |-> scan.page, lasting |-> scan.lasting,
                hidden |-> scan.hidden]
  /\ NextScan
  /\ UNCHANGED <<recordFile, search, offset, generation, debounce, viewerClosed, asked, broken>>

ScanFails ==
  /\ scan # Null /\ ~viewerClosed /\ broken < MaxBroken /\ broken' = broken + 1
  /\ loading' = (loading /\ scan.request.generation # generation)
  /\ NextScan
  /\ UNCHANGED <<recordFile, search, offset, total, generation, debounce, viewerClosed, shown,
                 asked>>

ScanStep == \/ ListDirs \/ ListSorted \/ ReadRecord
            \/ \E d \in {Folder[r] : r \in Records} : ListFiles(d)
LoopStep == PageOutdated \/ PageBeyondEnd \/ RenderPage

PageNext ==
  \/ \E r \in Records : SaveRecord(r) \/ RecordSaved(r) \/ Prune(r)
  \/ \E q \in Searches \cup {Null} : ChangeSearch(q)
  \/ Debounced \/ RefreshPages \/ TurnPage \/ CloseViewer
  \/ ScanStep \/ LoopStep \/ ScanFails

PageSpec == PageInit /\ [][PageNext]_pageVars

\* The timer fires, the thread and the loop run.
PageFairness == WF_pageVars(Debounced) /\ WF_pageVars(ScanStep) /\ WF_pageVars(LoopStep)

-----------------------------------------------------------------------------
(* What must hold.                                                         *)

\* Type invariant of the viewer.
PagesTypeOK ==
  /\ recordFile \in [Records -> {"none", "partial", "whole", "gone"}]
  /\ search \in Searches \cup {Null} /\ {offset, total, generation} \subseteq Nat
  /\ {debounce, loading, viewerClosed} \subseteq BOOLEAN
  /\ pending \in PageRequests \cup {Null} /\ scan \in PageScans \cup {Null}
  /\ shown \in Pages \cup {Null} /\ (pending # Null => scan # Null)
  /\ asked \in 0..MaxAsked /\ broken \in 0..MaxBroken

\* A page answers the search and the place in the list that are on the screen now,
\* not those of an older request whose answer came late.
PageIsCurrent ==
  shown # Null /\ ~viewerClosed => /\ ~loading
                             /\ shown.request.query = search /\ shown.request.offset = offset

\* What a page owes: the records that were on disk all the while, except those that lay,
\* when the directories were listed, below one with records of its own (`org/repo`
\* beside records of `org`).  Those the code never lists, though its docstrings say so.
Due(s) == s.lasting \ s.hidden

\* A page has no gaps, but for such records: between its records, and above the first of
\* the first page, none is missing that was on disk all the while (and matches), whatever
\* was written and dropped during the scan.
PageHasNoGaps ==
  shown # Null =>
    LET wanted == Due(shown) \cap
                    (IF shown.request.query = Null THEN Records ELSE shown.request.query)
    IN  /\ Cardinality(shown.page) <= PageSize
        /\ \A r \in wanted \ shown.page :
             ~ /\ \E x \in shown.page : x < r
               /\ shown.request.offset = 0 \/ \E x \in shown.page : x > r

\* While the viewer says it is loading, an answer to what it asked last is under way.
NothingForgotten ==
  loading /\ ~viewerClosed =>
    \/ debounce
    \/ pending # Null /\ pending.generation = generation
    \/ scan # Null /\ scan.request.generation = generation

\* Every page that is asked for arrives, or the screen says why not.
PageThere   == ~loading \/ viewerClosed
PageArrives == []<>PageThere
=============================================================================
