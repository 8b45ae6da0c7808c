------------------------------ MODULE PagedList ------------------------------
(* The paged, searchable lists of the console: UsersPage and PermissionsPage, whose
   search is applied by a timer and which delete rows, and ErrorLogsPage, whose search is
   applied by a button. A page asks for one slice of what the server finds, and goes on
   showing the slice it has until the next one arrives; RTK Query keeps former slices.

   A row is a number, and the order of rows is that of the error log. *)
EXTENDS Naturals, FiniteSets

CONSTANTS Row,       \* rows that may exist, numbers
          Text,      \* what the user may type
          Matches,   \* the rows each text finds
          Size,      \* rows per page to choose from
          MaxOther,  \* bound: changes by other clients
          MaxPresses, \* bound: what the user does
          None

Arguments == [skip : Nat, limit : Size, search : Text]
Slices == [items : SUBSET Row, total : Nat, old : BOOLEAN]
Deletions == [row : Row, done : BOOLEAN]
Views == [args : Arguments, slice : Slices]

ASSUME ListConstants ==
  /\ Row \subseteq Nat /\ IsFiniteSet(Row) /\ Size \subseteq Nat \ {0}
  /\ Matches \in [Text -> SUBSET Row] /\ {MaxOther, MaxPresses} \subseteq Nat
  /\ None \notin Text \cup Deletions \cup Views /\ \E t \in Text : Matches[t] = Row

VARIABLES screen,       \* "records" (UsersPage or PermissionsPage, alike here) or "errors"
          page, rowsPerPage, searchInput, search,
          timer,        \* debounceRef: the text its callback will apply
          shown,        \* data of the hook: the last slice it had
          cache,        \* slices kept, by arguments
          pending,      \* requests for slices under way, and what the server answered
          failed,       \* arguments whose last request failed
          deleting,     \* the delete request under way
          invalidated,  \* the tag of the list was invalidated, nothing refetched yet
          rows,         \* the server's rows
          others,       \* changes by other clients so far
          presses,      \* what the user did so far
          strayed       \* history: the server had no such page when it was turned to, or no more

user == <<page, rowsPerPage, searchInput, search, timer>>
hook == <<shown, cache, pending, failed, invalidated>>
server == <<deleting, rows, others>>
vars == <<screen, user, hook, server, presses, strayed>>

-----------------------------------------------------------------------------
(* Slices *)

Debounced == screen # "errors"

\* The arguments of the query: skip, limit and search.
Current == [skip |-> page * rowsPerPage, limit |-> rowsPerPage, search |-> search]

Found(t) == Matches[t] \cap rows
Rank(r, S) == Cardinality({x \in S : x < r})

\* What the server may answer: the error log is sorted, while users and permissions are
\* listed without an order, so that only the length of a slice is certain. "old" is a mark of
\* the model: another client changed the rows since.
Answers(a) ==
  LET found == Found(a.search)
      inOrder == {r \in found : Rank(r, found) \in a.skip..(a.skip + a.limit - 1)}
  IN {[items |-> S, total |-> Cardinality(found), old |-> FALSE] :
        S \in {S \in SUBSET found :
               S = inOrder \/ (Debounced /\ Cardinality(S) = Cardinality(inOrder))}}

\* data of useQuery: the slice of the present arguments, or else the one shown before.
Show ==
  shown' = IF Current' \in DOMAIN cache' THEN [args |-> Current', slice |-> cache'[Current']]
           ELSE shown

\* isLoading is for the first slice only; ErrorLogsPage shows an alert instead of a failure.
TableShown == shown # None /\ (screen = "errors" => Current \notin failed)

\* A component rendered with new arguments: a failed entry without data is asked for again.
Turn(p, n, s) ==
  /\ page' = p /\ rowsPerPage' = n /\ search' = s
  /\ failed' = IF Current' \in DOMAIN cache THEN failed ELSE failed \ {Current'}
  /\ UNCHANGED <<screen, cache, pending, invalidated, server>>
  /\ Show

\* A new search or a new size begins at the first page.
TurnToFirst(n, s) == Turn(0, n, s) /\ strayed' = FALSE

-----------------------------------------------------------------------------
(* The user *)

\* Variant of TypeSearch: the effect runs once, its callback keeps the text of that time.
TypeSearch_Once(t) ==
  /\ t # searchInput /\ searchInput' = t
  /\ timer' = IF Debounced /\ timer = None THEN t ELSE timer
  /\ UNCHANGED <<screen, page, rowsPerPage, search, hook, server, strayed>>

\* The text field. Where the list is debounced, the effect clears the timer and sets a new one.
TypeSearch(t) ==
  /\ t # searchInput /\ searchInput' = t
  /\ timer' = IF Debounced THEN t ELSE None
  /\ UNCHANGED <<screen, page, rowsPerPage, search, hook, server, strayed>>

\* Variant of DebounceFires: an interval instead of a timeout.
DebounceFires_Again ==
  /\ timer # None /\ UNCHANGED <<timer, searchInput>>
  /\ TurnToFirst(rowsPerPage, timer)

\* The callback of the timer, 300 ms after the last key; also 300 ms after the page opened.
DebounceFires ==
  /\ timer # None /\ timer' = None /\ UNCHANGED searchInput
  /\ TurnToFirst(rowsPerPage, timer)

\* handleSearch of ErrorLogsPage: the button, or Enter.
PressSearch ==
  /\ ~Debounced /\ UNCHANGED <<searchInput, timer>>
  /\ TurnToFirst(rowsPerPage, searchInput)

TurnTo(p) ==
  /\ TableShown /\ UNCHANGED <<searchInput, timer>> /\ Turn(p, rowsPerPage, search)
  /\ strayed' = (p # 0 /\ p * rowsPerPage >= Cardinality(Found(search)))

\* The arrows of TablePagination, which counts with the total it shows.
NextPage == TableShown /\ (page + 1) * rowsPerPage < shown.slice.total /\ TurnTo(page + 1)
PreviousPage == page > 0 /\ TurnTo(page - 1)

\* Variant of ChangeRowsPerPage: the page number is kept.
ChangeRowsPerPage_KeepsPage(n) ==
  /\ TableShown /\ n # rowsPerPage
  /\ UNCHANGED <<searchInput, timer>> /\ Turn(page, n, search) /\ strayed' = FALSE

\* handleChangeRowsPerPage
ChangeRowsPerPage(n) ==
  /\ TableShown /\ n # rowsPerPage
  /\ UNCHANGED <<searchInput, timer>> /\ TurnToFirst(n, search)

\* refetch of ErrorLogsPage
Refresh ==
  /\ screen = "errors" /\ \A p \in pending : p.args # Current
  /\ pending' = pending \cup {[args |-> Current, answer |-> None]}
  /\ failed' = failed \ {Current}
  /\ UNCHANGED <<screen, user, shown, cache, invalidated, server, strayed>>

\* The delete button of a row, confirmed.
DeleteRow(r) ==
  /\ Debounced /\ TableShown /\ r \in shown.slice.items /\ deleting = None
  /\ deleting' = [row |-> r, done |-> FALSE]
  /\ UNCHANGED <<screen, user, hook, rows, others, strayed>>

-----------------------------------------------------------------------------
(* RTK Query *)

\* The hook asks for arguments that have no slice and no request.
StartFetch ==
  /\ Current \notin DOMAIN cache \cup failed
  /\ \A p \in pending : p.args # Current
  /\ pending' = pending \cup {[args |-> Current, answer |-> None]}
  /\ UNCHANGED <<screen, user, shown, cache, failed, invalidated, server, strayed>>

FetchAnswered(p) ==
  /\ p.answer # None
  /\ cache' = [a \in DOMAIN cache \cup {p.args} |->
                 IF a = p.args THEN p.answer ELSE cache[a]]
  /\ pending' = pending \ {p} /\ UNCHANGED user /\ Show
  /\ UNCHANGED <<screen, failed, invalidated, server, strayed>>

FetchFailed(p) ==
  /\ pending' = pending \ {p} /\ failed' = failed \cup {p.args}
  /\ UNCHANGED <<screen, user, shown, cache, invalidated, server, strayed>>

\* A slice that nothing shows is dropped after a minute.
Expire(a) ==
  /\ a # Current /\ cache' = [b \in DOMAIN cache \ {a} |-> cache[b]]
  /\ failed' = failed \ {a}
  /\ UNCHANGED <<screen, user, shown, pending, invalidated, server, strayed>>

\* Invalidated tags, once nothing is under way: the slice shown is asked for again, the
\* others are dropped.
Invalidate ==
  /\ invalidated /\ pending = {} /\ deleting = None /\ invalidated' = FALSE
  /\ cache' = [a \in DOMAIN cache \cap {Current} |-> cache[a]] /\ failed' = {}
  /\ pending' = {[args |-> Current, answer |-> None]}
  /\ UNCHANGED <<screen, user, shown, server, strayed>>

\* The delete request was answered, with success or not: its tag is invalidated.
DeleteAnswered ==
  /\ deleting # None /\ deleting' = None /\ invalidated' = TRUE
  /\ UNCHANGED <<screen, user, shown, cache, pending, failed, rows, others, strayed>>

-----------------------------------------------------------------------------
(* The server, and other clients *)

Serve(p) ==
  /\ p.answer = None
  /\ \E answer \in Answers(p.args) :
       pending' = (pending \ {p}) \cup {[p EXCEPT !.answer = answer]}
  /\ UNCHANGED <<screen, user, shown, cache, failed, invalidated, server, strayed>>

\* A row goes: the page the user is on may now lie behind the last one.
Gone(r) ==
  /\ rows' = rows \ {r}
  /\ strayed' = (page # 0 /\ (strayed \/ page * rowsPerPage >= Cardinality(Found(search) \ {r})))

ServeDelete ==
  /\ deleting # None /\ ~deleting.done /\ deleting' = [deleting EXCEPT !.done = TRUE]
  /\ Gone(deleting.row) /\ UNCHANGED <<screen, user, hook, others>>

Aged(slice) == [slice EXCEPT !.old = TRUE]

OtherChange ==
  /\ others < MaxOther /\ others' = others + 1
  /\ cache' = [a \in DOMAIN cache |-> Aged(cache[a])]
  /\ shown' = IF shown = None THEN None ELSE [shown EXCEPT !.slice = Aged(shown.slice)]
  /\ pending' = {IF p.answer = None THEN p ELSE [p EXCEPT !.answer = Aged(p.answer)]
                   : p \in pending}
  /\ UNCHANGED <<screen, user, failed, invalidated, deleting>>

OtherAdds(r) == r \notin rows /\ OtherChange /\ rows' = rows \cup {r} /\ UNCHANGED strayed
OtherRemoves(r) == r \in rows /\ OtherChange /\ Gone(r)

-----------------------------------------------------------------------------
Init ==
  /\ screen \in {"records", "errors"}
  /\ page = 0 /\ rowsPerPage \in Size /\ rows = Row /\ presses = 0
  /\ search \in {t \in Text : Matches[t] = Row} /\ searchInput = search
  /\ timer = IF Debounced THEN searchInput ELSE None
  /\ shown = None /\ cache = <<>> /\ pending = {} /\ failed = {}
  /\ deleting = None /\ invalidated = FALSE /\ others = 0 /\ strayed = FALSE

Press ==
  /\ presses < MaxPresses /\ presses' = presses + 1
  /\ \/ \E t \in Text : TypeSearch(t)
     \/ PressSearch \/ NextPage \/ PreviousPage \/ Refresh
     \/ \E n \in Size : ChangeRowsPerPage(n)
     \/ \E r \in Row : DeleteRow(r)

Answer == \E p \in pending : Serve(p) \/ FetchAnswered(p) \/ FetchFailed(p)

Quiet ==
  \/ DebounceFires \/ StartFetch \/ Answer \/ Invalidate
  \/ \E a \in DOMAIN cache : Expire(a)
  \/ ServeDelete \/ DeleteAnswered
  \/ \E r \in Row : OtherAdds(r) \/ OtherRemoves(r)

Next == Press \/ (UNCHANGED presses /\ Quiet)

\* Timers fire, effects run, requests are answered or fail.
Fairness ==
  /\ WF_vars(UNCHANGED presses /\ DebounceFires)
  /\ WF_vars(UNCHANGED presses /\ StartFetch)
  /\ WF_vars(UNCHANGED presses /\ Answer)
  /\ WF_vars(UNCHANGED presses /\ DeleteAnswered)
  /\ WF_vars(UNCHANGED presses /\ Invalidate)

Spec == Init /\ [][Next]_vars /\ Fairness

-----------------------------------------------------------------------------
(* Properties *)

\* The variables keep their types.
TypeOK ==
  /\ screen \in {"records", "errors"} /\ page \in Nat /\ rowsPerPage \in Size
  /\ searchInput \in Text /\ search \in Text /\ timer \in Text \cup {None}
  /\ shown \in Views \cup {None}
  /\ DOMAIN cache \subseteq Arguments /\ \A a \in DOMAIN cache : cache[a] \in Slices
  /\ pending \subseteq [args : Arguments, answer : Slices \cup {None}]
  /\ failed \subseteq Arguments
  /\ deleting \in Deletions \cup {None}
  /\ rows \subseteq Row /\ others \in 0..MaxOther /\ presses \in 0..MaxPresses
  /\ invalidated \in BOOLEAN /\ strayed \in BOOLEAN

\* Something is still to come: a timer, a request, an answer.
Restless ==
  \/ timer # None \/ pending # {} \/ invalidated \/ deleting # None
  \/ Current \notin DOMAIN cache \cup failed

\* Once nothing is to come and nothing failed, the list shows the slice its controls ask
\* for: the text in the field is the text searched for, no answer to a former page or text
\* has taken its place, and, unless another client changed rows since, it is what the server
\* may answer; in particular no row deleted here is left on screen, whatever answer was
\* under way when it was deleted.
RestShowsWhatIsAsked ==
  (~Restless /\ Current \notin failed) =>
    /\ shown # None /\ shown.args = Current
    /\ Debounced => search = searchInput
    /\ ~shown.slice.old => shown.slice \in Answers(Current)

\* The list comes to rest on an empty page of a search that has rows only if the page was
\* turned to with the total of a list that was shown but no longer asked for, or rows were
\* deleted from under it; a new search or a new page size never leads there.
EmptyPageHasACause ==
  (~Restless /\ Current \notin failed /\ ~shown.slice.old) =>
    (shown.slice.items # {} \/ shown.slice.total = 0 \/ strayed)

\* Every search, page and deletion comes to rest: applied, answered and shown, or failed.
ListSettles == Restless ~> ~Restless
=============================================================================
