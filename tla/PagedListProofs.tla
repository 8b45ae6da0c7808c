-------------------------- MODULE PagedListProofs --------------------------
(* RestShowsWhatIsAsked and EmptyPageHasACause of PagedList, for any rows, texts and sizes.

   At rest nothing vouches for the slice shown but the past, so the invariant says of every
   slice kept and of every answer under way why it may still be behind the server: another
   client, a deletion under way, an invalidation not yet served, a request for the same
   slice, or its failure. That the page asked for exists is kept apart from it (PageExists):
   then the ranks of the rows found, which are the numbers below their total, fill it. *)
EXTENDS PagedList, FiniteSetTheorems, TLAPS

\* A slice that is behind the rows of the server, or whose tag was invalidated, is known to be.
Excused(slice) == slice.old \/ invalidated \/ deleting # None
AnswersFit == \A p \in pending : p.answer # None => p.answer \in Answers(p.args) \/ Excused(p.answer)
CacheFits ==
  \A a \in DOMAIN cache :
    \/ cache[a] \in Answers(a) \/ Excused(cache[a])
    \/ a \in failed \/ \E p \in pending : p.args = a

\* The hook shows the slice of the arguments as soon as there is one.
ShownIsCurrent ==
  Current \in DOMAIN cache => shown = [args |-> Current, slice |-> cache[Current]]

\* The timer holds the text of the field, and without it that text is searched for.
TimerIsTyped ==
  Debounced => IF timer = None THEN search = searchInput ELSE timer = searchInput

\* The page asked for begins before the end of what the server finds, unless it strayed.
PageExists == strayed \/ page = 0 \/ page * rowsPerPage < Cardinality(Found(search))

IInv == TypeOK /\ AnswersFit /\ CacheFits /\ ShownIsCurrent /\ TimerIsTyped

-----------------------------------------------------------------------------
(* Slices *)

\* The server's answer is a slice.
LEMMA SliceTyped ==
  ASSUME NEW a, rows \subseteq Row
  PROVE  \A s \in Answers(a) : s \in Slices /\ s.old = FALSE
<1>1. IsFiniteSet(Found(a.search)) /\ Found(a.search) \subseteq Row
  BY ListConstants, FS_Subset DEF Found
<1>2. Cardinality(Found(a.search)) \in Nat
  BY <1>1, FS_CardinalityType
<1>3. SUFFICES ASSUME NEW S \in SUBSET Found(a.search)
               PROVE  LET s == [items |-> S, total |-> Cardinality(Found(a.search)), old |-> FALSE]
                      IN  s \in Slices /\ s.old = FALSE
  BY Zenon DEF Answers
<1>4. QED  BY <1>1, <1>2 DEF Slices

\* The answers depend on the screen and the rows only.
LEMMA AnswersStay == UNCHANGED <<screen, rows>> => \A a : Answers(a)' = Answers(a)
BY DEF Answers, Found, Debounced

\* Marking a slice as old keeps what it holds.
LEMMA AgedTyped ==
  ASSUME NEW s \in Slices
  PROVE  Aged(s) \in Slices /\ Aged(s).old
BY DEF Aged, Slices

\* The arguments of a page.
LEMMA CurrentTyped ==
  ASSUME NEW p \in Nat, NEW n \in Size, NEW t \in Text
  PROVE  [skip |-> p * n, limit |-> n, search |-> t] \in Arguments
<1>1. p * n \in Nat
  BY ListConstants
<1>2. QED  BY <1>1 DEF Arguments

\* What is shown with its arguments is not nothing.
LEMMA ViewIsSome ==
  ASSUME IInv, Current \in DOMAIN cache
  PROVE  [args |-> Current, slice |-> cache[Current]] # None
<1>1. Current \in Arguments
  BY CurrentTyped DEF IInv, TypeOK, Current
<1>2. [args |-> Current, slice |-> cache[Current]] \in Views
  BY <1>1 DEF IInv, TypeOK, Views
<1>3. QED  BY <1>2, ListConstants

\* A component rendered anew shows a slice or nothing.
LEMMA ShownTyped ==
  ASSUME TypeOK, Show, Current' \in Arguments,
         \A a \in DOMAIN cache' : cache'[a] \in Slices
  PROVE  shown' \in Views \cup {None}
<1>1. CASE Current' \in DOMAIN cache'
  BY <1>1 DEF Show, Views
<1>2. CASE Current' \notin DOMAIN cache'
  BY <1>2 DEF Show, TypeOK
<1>3. QED  BY <1>1, <1>2

\* A component rendered anew shows its slice when there is one.
LEMMA ShowIsCurrent == Show => ShownIsCurrent'
BY DEF Show, ShownIsCurrent

\* Ranks among finitely many numbers are the numbers below their cardinality.
LEMMA RankIsBelow ==
  ASSUME NEW S \in SUBSET Nat, IsFiniteSet(S), NEW r \in S
  PROVE  Rank(r, S) \in 0..(Cardinality(S) - 1)
<1> DEFINE B == {x \in S : x < r}
<1>1. B \in SUBSET S /\ r \notin B
  OBVIOUS
<1> HIDE DEF B
<1>2. /\ IsFiniteSet(B) /\ Cardinality(B) \in Nat /\ Cardinality(S) \in Nat
      /\ Cardinality(B) <= Cardinality(S) /\ Cardinality(B) # Cardinality(S)
  BY <1>1, FS_Subset, FS_CardinalityType
<1>3. Cardinality(B) \in 0..(Cardinality(S) - 1)
  BY <1>2
<1>4. QED  BY <1>3 DEF Rank, B

\* A greater number has a greater rank.
LEMMA RankGrows ==
  ASSUME NEW S \in SUBSET Nat, IsFiniteSet(S), NEW x \in S, NEW y \in S, x < y
  PROVE  Rank(x, S) # Rank(y, S)
<1> DEFINE B(r) == {z \in S : z < r}
<1>1. B(x) \in SUBSET B(y) /\ B(x) # B(y) /\ B(y) \in SUBSET S
  <2>1. B(y) \in SUBSET S /\ x \in B(y) /\ x \notin B(x)
    OBVIOUS
  <2>2. \A z \in S : z < x => z < y
    OBVIOUS
  <2>3. QED  BY <2>1, <2>2
<1> HIDE DEF B
<1>2. IsFiniteSet(B(y))
  BY <1>1, FS_Subset
<1>3. Cardinality(B(x)) # Cardinality(B(y))
  BY <1>1, <1>2, FS_Subset
<1>4. QED  BY <1>3 DEF Rank, B

\* Each of those numbers is the rank of an element.
LEMMA RanksAreDense ==
  ASSUME NEW S \in SUBSET Nat, IsFiniteSet(S), NEW k \in Nat, k < Cardinality(S)
  PROVE  \E r \in S : Rank(r, S) = k
<1> DEFINE n == Cardinality(S)
           f == [r \in S |-> Rank(r, S)]
<1>1. n \in Nat /\ k \in 0..(n - 1)
  BY FS_CardinalityType
<1>2. f \in [S -> 0..(n - 1)]
  BY RankIsBelow
<1>3. \A x, y \in S : f[x] = f[y] => x = y
  <2> SUFFICES ASSUME NEW x \in S, NEW y \in S, x # y PROVE Rank(x, S) # Rank(y, S)
    OBVIOUS
  <2>1. x < y \/ y < x
    OBVIOUS
  <2>2. QED  BY <2>1, RankGrows
<1>4. IsFiniteSet(0..(n - 1)) /\ Cardinality(0..(n - 1)) = n
  <2>1. 0 \in Int /\ n - 1 \in Int /\ (IF 0 > n - 1 THEN 0 ELSE (n - 1) - 0 + 1) = n
    BY <1>1
  <2>2. QED  BY <2>1, FS_Interval
<1> HIDE DEF f
<1>5. f \in Injection(S, 0..(n - 1))
  BY <1>2, <1>3 DEF Injection, IsInjective
<1>6. f \in Surjection(S, 0..(n - 1))
  BY <1>4, <1>5, FS_Injection
<1>7. PICK r \in S : f[r] = k
  BY <1>1, <1>6 DEF Surjection
<1>8. QED  BY <1>7 DEF f

\* A page that begins before the end of what is found is not answered by an empty slice.
LEMMA PageHasRows ==
  ASSUME rows \subseteq Row, NEW a \in Arguments,
         a.skip < Cardinality(Found(a.search)), NEW s \in Answers(a)
  PROVE  s.items # {}
<1> DEFINE found == Found(a.search)
           inOrder == {r \in found : Rank(r, found) \in a.skip..(a.skip + a.limit - 1)}
<1>1. found \in SUBSET Nat /\ IsFiniteSet(found)
  BY ListConstants, FS_Subset DEF Found
<1>2. a.skip \in Nat /\ a.skip \in a.skip..(a.skip + a.limit - 1)
  <2>1. a.skip \in Nat /\ a.limit \in Nat /\ a.limit # 0
    BY ListConstants DEF Arguments
  <2>2. QED  BY <2>1
<1>3. PICK r \in found : Rank(r, found) = a.skip
  BY <1>1, <1>2, RanksAreDense
<1>4. inOrder # {} /\ inOrder \in SUBSET found
  BY <1>2, <1>3
<1>5. PICK S \in SUBSET found :
        /\ s.items = S
        /\ S = inOrder \/ Cardinality(S) = Cardinality(inOrder)
  <2>1. PICK S \in {S \in SUBSET found :
                     S = inOrder \/ (Debounced /\ Cardinality(S) = Cardinality(inOrder))} :
          s = [items |-> S, total |-> Cardinality(found), old |-> FALSE]
    BY Zenon DEF Answers
  <2>2. s.items = S
    BY <2>1
  <2>3. QED  BY <2>1, <2>2
<1> HIDE DEF inOrder
<1>6. IsFiniteSet(inOrder) /\ Cardinality(inOrder) # 0
  BY <1>1, <1>4, FS_Subset, FS_EmptySet
<1>7. CASE s.items = {}
  BY <1>4, <1>5, <1>6, <1>7, FS_EmptySet
<1>8. QED  BY <1>7

-----------------------------------------------------------------------------
(* Steps by what they do *)

\* New arguments: the slices and the requests stay.
LEMMA TurnKeeps ==
  ASSUME IInv, NEW p \in Nat, NEW n \in Size, NEW t \in Text, Turn(p, n, t),
         strayed' \in BOOLEAN, presses' \in 0..MaxPresses
  PROVE  /\ searchInput' \in Text /\ timer' \in Text \cup {None} => TypeOK'
         /\ AnswersFit' /\ CacheFits' /\ ShownIsCurrent'
<1>1. UNCHANGED <<screen, cache, pending, invalidated, deleting, rows, others>> /\ Show
  BY DEF Turn, server
<1>2. Current' \in Arguments
  BY CurrentTyped DEF Turn, Current
<1>3. failed' \subseteq Arguments
  BY DEF Turn, IInv, TypeOK
<1>4. searchInput' \in Text /\ timer' \in Text \cup {None} => TypeOK'
  BY <1>1, <1>2, <1>3, ShownTyped DEF IInv, TypeOK, Turn
<1>5. AnswersFit'
  BY <1>1, AnswersStay DEF IInv, AnswersFit, Excused
<1>6. \A a \in DOMAIN cache : a \in failed => a \in failed'
  BY DEF Turn
<1>7. CacheFits'
  BY <1>1, <1>6, AnswersStay DEF IInv, CacheFits, Excused
<1>8. QED  BY <1>1, <1>4, <1>5, <1>7, ShowIsCurrent

\* A request for the present arguments is added, and nothing else of the past is lost.
LEMMA AskKeeps ==
  ASSUME IInv, pending' = pending \cup {[args |-> Current, answer |-> None]},
         failed' \in {failed, failed \ {Current}},
         UNCHANGED <<screen, user, shown, cache, invalidated, server, strayed>>,
         presses' \in 0..MaxPresses
  PROVE  IInv'
<1> USE DEF user, server
<1>1. Current \in Arguments
  BY CurrentTyped DEF IInv, TypeOK, Current
<1>2. TypeOK'
  BY <1>1 DEF IInv, TypeOK
<1>3. AnswersFit'
  BY AnswersStay DEF IInv, AnswersFit, Excused
<1>4. CacheFits'
  <2> SUFFICES ASSUME NEW a \in DOMAIN cache, cache[a] \notin Answers(a), ~Excused(cache[a])
               PROVE  a \in failed' \/ \E p \in pending' : p.args = a
    BY AnswersStay DEF CacheFits, Excused
  <2>1. CASE a = Current
    <3>1. [args |-> Current, answer |-> None] \in pending'
      OBVIOUS
    <3>2. QED  BY <2>1, <3>1
  <2>2. CASE a # Current
    BY <2>2 DEF IInv, CacheFits
  <2>3. QED  BY <2>1, <2>2
<1>5. ShownIsCurrent' /\ TimerIsTyped'
  BY DEF IInv, ShownIsCurrent, TimerIsTyped, Current, Debounced
<1>6. QED  BY <1>2, <1>3, <1>4, <1>5 DEF IInv

\* What the user does.
LEMMA PressKeeps == ASSUME IInv, Press PROVE IInv'
<1>0. presses' \in 0..MaxPresses /\ page \in Nat /\ rowsPerPage \in Size /\ search \in Text
  BY ListConstants DEF Press, IInv, TypeOK
<1>1. ASSUME NEW t \in Text, TypeSearch(t) PROVE IInv'
  <2>1. UNCHANGED <<screen, page, rowsPerPage, search, hook, server, strayed>> /\ searchInput' = t
    BY <1>1 DEF TypeSearch
  <2>2. timer' \in Text \cup {None}
    BY <1>1 DEF TypeSearch
  <2>3. TypeOK'
    BY <1>0, <2>1, <2>2 DEF hook, server, IInv, TypeOK
  <2>4. AnswersFit' /\ CacheFits'
    BY <2>1, AnswersStay DEF hook, server, IInv, AnswersFit, CacheFits, Excused
  <2>5. ShownIsCurrent'
    BY <2>1 DEF hook, server, IInv, ShownIsCurrent, Current
  <2>6. TimerIsTyped'
    BY <1>1, ListConstants DEF TypeSearch, TimerIsTyped, Debounced
  <2>7. QED  BY <2>3, <2>4, <2>5, <2>6 DEF IInv
<1>2. CASE PressSearch
  <2>1. Turn(0, rowsPerPage, searchInput) /\ UNCHANGED <<searchInput, timer>> /\ ~Debounced
        /\ strayed' \in BOOLEAN
    BY <1>2 DEF PressSearch, TurnToFirst
  <2>2. TimerIsTyped'
    BY <2>1 DEF Turn, TimerIsTyped, Debounced
  <2>3. QED  BY <1>0, <2>1, <2>2, TurnKeeps DEF IInv, TypeOK
<1>3. CASE NextPage \/ PreviousPage
  <2>1. PICK p \in Nat : TurnTo(p)
    BY <1>0, <1>3 DEF NextPage, PreviousPage
  <2>2. Turn(p, rowsPerPage, search) /\ UNCHANGED <<searchInput, timer>> /\ strayed' \in BOOLEAN
    BY <2>1 DEF TurnTo
  <2>3. TimerIsTyped'
    BY <2>2 DEF Turn, IInv, TimerIsTyped, Debounced
  <2>4. QED  BY <1>0, <2>2, <2>3, TurnKeeps DEF IInv, TypeOK
<1>4. ASSUME NEW n \in Size, ChangeRowsPerPage(n) PROVE IInv'
  <2>1. Turn(0, n, search) /\ UNCHANGED <<searchInput, timer>> /\ strayed' \in BOOLEAN
    BY <1>4 DEF ChangeRowsPerPage, TurnToFirst
  <2>2. TimerIsTyped'
    BY <2>1 DEF Turn, IInv, TimerIsTyped, Debounced
  <2>3. QED  BY <1>0, <2>1, <2>2, TurnKeeps DEF IInv, TypeOK
<1>5. CASE Refresh
  BY <1>0, <1>5, AskKeeps DEF Refresh
<1>6. ASSUME NEW r \in Row, DeleteRow(r) PROVE IInv'
  <2>1. /\ UNCHANGED <<screen, user, hook, rows, others, strayed>>
        /\ deleting' = [row |-> r, done |-> FALSE] /\ deleting' # None
    <3>1. deleting' = [row |-> r, done |-> FALSE] /\ deleting' \in Deletions
      BY <1>6 DEF DeleteRow, Deletions
    <3>2. QED  BY <1>6, <3>1, ListConstants DEF DeleteRow
  <2>2. TypeOK'
    BY <1>0, <2>1 DEF user, hook, IInv, TypeOK, Deletions
  <2>3. AnswersFit' /\ CacheFits'
    BY <2>1 DEF hook, AnswersFit, CacheFits, Excused
  <2>4. ShownIsCurrent' /\ TimerIsTyped'
    BY <2>1 DEF user, hook, IInv, ShownIsCurrent, TimerIsTyped, Current, Debounced
  <2>5. QED  BY <2>2, <2>3, <2>4 DEF IInv
<1>7. QED  BY <1>1, <1>2, <1>3, <1>4, <1>5, <1>6 DEF Press

\* What the requests for slices do.
LEMMA AnswerKeeps == ASSUME IInv, UNCHANGED presses, NEW p \in pending,
                            Serve(p) \/ FetchAnswered(p) \/ FetchFailed(p)
                     PROVE  IInv'
<1> USE DEF user, server
<1>0. p.args \in Arguments /\ p.answer \in Slices \cup {None} /\ Current \in Arguments
  BY CurrentTyped DEF IInv, TypeOK, Current
<1>1. CASE Serve(p)
  <2>1. PICK answer \in Answers(p.args) :
          pending' = (pending \ {p}) \cup {[p EXCEPT !.answer = answer]}
    BY <1>1 DEF Serve
  <2> DEFINE q == [p EXCEPT !.answer = answer]
  <2>2. /\ q \in [args : Arguments, answer : Slices \cup {None}]
        /\ q.args = p.args /\ q.answer \in Answers(p.args) /\ pending' = (pending \ {p}) \cup {q}
    BY <1>0, <2>1, SliceTyped DEF IInv, TypeOK
  <2> HIDE DEF q
  <2>3. TypeOK'
    BY <1>1, <2>1, <2>2 DEF Serve, IInv, TypeOK
  <2>4. AnswersFit'
    BY <1>1, <2>1, <2>2, AnswersStay DEF Serve, IInv, AnswersFit, Excused
  <2>5. CacheFits'
    BY <1>1, <2>1, <2>2, AnswersStay DEF Serve, IInv, CacheFits, Excused
  <2>6. ShownIsCurrent' /\ TimerIsTyped'
    BY <1>1 DEF Serve, IInv, ShownIsCurrent, TimerIsTyped, Current, Debounced
  <2>7. QED  BY <2>3, <2>4, <2>5, <2>6 DEF IInv
<1>2. CASE FetchAnswered(p)
  <2>1. /\ UNCHANGED <<screen, user, failed, invalidated, server, strayed>>
        /\ p.answer # None /\ pending' = pending \ {p} /\ Show /\ Current' = Current
        /\ cache' = [a \in DOMAIN cache \cup {p.args} |->
                        IF a = p.args THEN p.answer ELSE cache[a]]
    BY <1>2 DEF FetchAnswered, Current
  <2>2. \A a \in DOMAIN cache' : a \in Arguments /\ cache'[a] \in Slices
    BY <1>0, <2>1 DEF IInv, TypeOK
  <2>3. TypeOK'
    BY <1>0, <2>1, <2>2, ShownTyped DEF IInv, TypeOK
  <2>4. AnswersFit'
    BY <2>1, AnswersStay DEF IInv, AnswersFit, Excused
  <2>5. CacheFits'
    <3>1. \A a : Answers(a)' = Answers(a)
      BY <2>1 DEF Answers, Found, Debounced
    <3>2. ASSUME NEW a \in DOMAIN cache', cache'[a] \notin Answers(a), ~Excused(cache'[a]),
                 a \notin failed
          PROVE  \E q \in pending' : q.args = a
      <4>1. CASE a = p.args
        BY <2>1, <3>2, <4>1 DEF IInv, AnswersFit
      <4>2. CASE a # p.args
        BY <2>1, <3>2, <4>2 DEF IInv, CacheFits
      <4>3. QED  BY <4>1, <4>2
    <3>3. QED  BY <2>1, <3>1, <3>2 DEF CacheFits, Excused
  <2>6. TimerIsTyped'
    BY <2>1 DEF IInv, TimerIsTyped, Debounced
  <2>7. QED  BY <2>1, <2>3, <2>4, <2>5, <2>6, ShowIsCurrent DEF IInv
<1>3. CASE FetchFailed(p)
  <2>1. TypeOK'
    BY <1>0, <1>3 DEF FetchFailed, IInv, TypeOK
  <2>2. AnswersFit'
    BY <1>3, AnswersStay DEF FetchFailed, IInv, AnswersFit, Excused
  <2>3. CacheFits'
    BY <1>3, AnswersStay DEF FetchFailed, IInv, CacheFits, Excused
  <2>4. ShownIsCurrent' /\ TimerIsTyped'
    BY <1>3 DEF FetchFailed, IInv, ShownIsCurrent, TimerIsTyped, Current, Debounced
  <2>5. QED  BY <2>1, <2>2, <2>3, <2>4 DEF IInv
<1>4. QED  BY <1>1, <1>2, <1>3

\* Another client changes the rows: every slice is old from then on.
LEMMA OtherKeeps ==
  ASSUME IInv, UNCHANGED presses, OtherChange, rows' \subseteq Row, strayed' \in BOOLEAN
  PROVE  IInv'
<1> USE DEF user, server
<1>1. /\ UNCHANGED <<screen, user, failed, invalidated, deleting>> /\ Current' = Current
      /\ cache' = [a \in DOMAIN cache |-> Aged(cache[a])]
      /\ shown' = IF shown = None THEN None ELSE [shown EXCEPT !.slice = Aged(shown.slice)]
      /\ pending' = {IF p.answer = None THEN p ELSE [p EXCEPT !.answer = Aged(p.answer)]
                       : p \in pending}
  BY DEF OtherChange, Current
<1>2. \A a \in DOMAIN cache' : cache'[a] \in Slices /\ cache'[a].old
  BY <1>1, AgedTyped DEF IInv, TypeOK
<1>3. shown' \in Views \cup {None}
  BY <1>1, AgedTyped DEF IInv, TypeOK, Views
<1>4. \A q \in pending' : /\ q.args \in Arguments /\ q.answer \in Slices \cup {None}
                          /\ q.answer # None => q.answer.old
  <2> SUFFICES ASSUME NEW p \in pending, NEW q,
                      q = IF p.answer = None THEN p ELSE [p EXCEPT !.answer = Aged(p.answer)]
               PROVE  /\ q.args \in Arguments /\ q.answer \in Slices \cup {None}
                      /\ q.answer # None => q.answer.old
    BY <1>1
  <2>1. p.args \in Arguments /\ p.answer \in Slices \cup {None}
    BY DEF IInv, TypeOK
  <2>2. QED  BY <2>1, AgedTyped DEF IInv, TypeOK
<1>5. others' \in 0..MaxOther
  BY ListConstants DEF OtherChange, IInv, TypeOK
<1>6. TypeOK'
  BY <1>1, <1>2, <1>3, <1>4, <1>5 DEF IInv, TypeOK
<1>7. AnswersFit' /\ CacheFits'
  BY <1>2, <1>4 DEF AnswersFit, CacheFits, Excused
<1>8. ShownIsCurrent'
  <2> SUFFICES ASSUME Current \in DOMAIN cache
               PROVE  shown' = [args |-> Current, slice |-> cache'[Current]]
    BY <1>1 DEF ShownIsCurrent
  <2>1. shown = [args |-> Current, slice |-> cache[Current]] /\ shown # None
    BY <1>1, ViewIsSome DEF IInv, ShownIsCurrent
  <2>2. QED  BY <1>1, <2>1
<1>9. TimerIsTyped'
  BY <1>1 DEF IInv, TimerIsTyped, Debounced
<1>10. QED  BY <1>6, <1>7, <1>8, <1>9 DEF IInv

\* What happens without the user.
LEMMA QuietKeeps == ASSUME IInv, UNCHANGED presses, Quiet PROVE IInv'
<1> USE DEF user, hook, server
<1>0. /\ presses' \in 0..MaxPresses /\ page \in Nat /\ rowsPerPage \in Size
      /\ Current \in Arguments
  BY CurrentTyped DEF IInv, TypeOK, Current
<1>1. CASE DebounceFires
  <2>1. /\ Turn(0, rowsPerPage, timer) /\ timer \in Text /\ timer' = None
        /\ UNCHANGED searchInput /\ strayed' \in BOOLEAN
    BY <1>1 DEF DebounceFires, TurnToFirst, IInv, TypeOK
  <2>2. TimerIsTyped'
    BY <1>1, <2>1 DEF Turn, IInv, TimerIsTyped, Debounced, DebounceFires
  <2>3. QED  BY <1>0, <2>1, <2>2, TurnKeeps DEF IInv, TypeOK
<1>2. CASE StartFetch
  BY <1>0, <1>2, AskKeeps DEF StartFetch
<1>3. CASE Answer
  BY <1>3, AnswerKeeps DEF Answer
<1>4. CASE Invalidate
  <2>1. /\ UNCHANGED <<screen, user, shown, server, strayed>> /\ Current' = Current
        /\ failed' = {} /\ pending' = {[args |-> Current, answer |-> None]}
        /\ invalidated' = FALSE
        /\ cache' = [a \in DOMAIN cache \cap {Current} |-> cache[a]]
    BY <1>4 DEF Invalidate, Current
  <2>2. TypeOK'
    <3>1. DOMAIN cache' \subseteq Arguments /\ \A a \in DOMAIN cache' : cache'[a] \in Slices
      BY <2>1 DEF IInv, TypeOK
    <3>2. pending' \subseteq [args : Arguments, answer : Slices \cup {None}]
      BY <1>0, <2>1
    <3>3. QED  BY <1>0, <2>1, <3>1, <3>2 DEF IInv, TypeOK
  <2>3. AnswersFit' /\ CacheFits'
    BY <2>1 DEF AnswersFit, CacheFits
  <2>4. ShownIsCurrent' /\ TimerIsTyped'
    BY <2>1 DEF IInv, ShownIsCurrent, TimerIsTyped, Debounced
  <2>5. QED  BY <2>2, <2>3, <2>4 DEF IInv
<1>5. ASSUME NEW a \in DOMAIN cache, Expire(a) PROVE IInv'
  <2>1. /\ UNCHANGED <<screen, user, shown, pending, invalidated, server, strayed>>
        /\ Current' = Current /\ a # Current /\ failed' = failed \ {a}
        /\ cache' = [b \in DOMAIN cache \ {a} |-> cache[b]]
    BY <1>5 DEF Expire, Current
  <2>2. TypeOK'
    <3>1. DOMAIN cache' \subseteq Arguments /\ \A b \in DOMAIN cache' : cache'[b] \in Slices
      BY <2>1 DEF IInv, TypeOK
    <3>2. QED  BY <1>0, <2>1, <3>1 DEF IInv, TypeOK
  <2>3. AnswersFit'
    BY <2>1, AnswersStay DEF IInv, AnswersFit, Excused
  <2>4. CacheFits'
    BY <2>1, AnswersStay DEF IInv, CacheFits, Excused
  <2>5. ShownIsCurrent' /\ TimerIsTyped'
    BY <2>1 DEF IInv, ShownIsCurrent, TimerIsTyped, Debounced
  <2>6. QED  BY <2>2, <2>3, <2>4, <2>5 DEF IInv
<1>6. CASE ServeDelete
  <2>1. UNCHANGED <<screen, user, hook, others>> /\ rows' \subseteq rows
    BY <1>6 DEF ServeDelete, Gone
  <2>2. /\ deleting' \in Deletions /\ deleting' # None
        /\ strayed' \in BOOLEAN
    <3>1. deleting \in Deletions /\ deleting' = [deleting EXCEPT !.done = TRUE]
      BY <1>6 DEF ServeDelete, IInv, TypeOK
    <3>2. deleting' \in Deletions
      BY <3>1 DEF Deletions
    <3>3. strayed' \in BOOLEAN
      BY <1>6 DEF ServeDelete, Gone
    <3>4. QED  BY <3>2, <3>3, ListConstants
  <2>3. TypeOK'
    BY <1>0, <2>1, <2>2 DEF IInv, TypeOK
  <2>4. AnswersFit' /\ CacheFits'
    BY <2>1, <2>2 DEF AnswersFit, CacheFits, Excused
  <2>5. ShownIsCurrent' /\ TimerIsTyped'
    BY <2>1 DEF IInv, ShownIsCurrent, TimerIsTyped, Current, Debounced
  <2>6. QED  BY <2>3, <2>4, <2>5 DEF IInv
<1>7. CASE DeleteAnswered
  <2>1. TypeOK'
    BY <1>0, <1>7 DEF DeleteAnswered, IInv, TypeOK
  <2>2. AnswersFit' /\ CacheFits'
    BY <1>7 DEF DeleteAnswered, AnswersFit, CacheFits, Excused
  <2>3. ShownIsCurrent' /\ TimerIsTyped'
    BY <1>7 DEF DeleteAnswered, IInv, ShownIsCurrent, TimerIsTyped, Current, Debounced
  <2>4. QED  BY <2>1, <2>2, <2>3 DEF IInv
<1>8. ASSUME NEW r \in Row, OtherAdds(r) \/ OtherRemoves(r) PROVE IInv'
  <2>1. OtherChange /\ rows' \subseteq Row /\ strayed' \in BOOLEAN
    BY <1>8 DEF OtherAdds, OtherRemoves, Gone, IInv, TypeOK
  <2>2. QED  BY <2>1, OtherKeeps
<1>9. QED  BY <1>1, <1>2, <1>3, <1>4, <1>5, <1>6, <1>7, <1>8 DEF Quiet

-----------------------------------------------------------------------------
(* The page asked for *)

\* Rows that go take the page along only if it strays.
LEMMA GoneKeepsPage == ASSUME IInv, NEW r, Gone(r), UNCHANGED user PROVE PageExists'
<1>1. Found(search)' = Found(search) \ {r}
  BY DEF Gone, Found, user
<1>2. page * rowsPerPage \in Nat /\ Cardinality(Found(search) \ {r}) \in Nat
  <2>1. page * rowsPerPage \in Nat
    BY ListConstants DEF IInv, TypeOK
  <2>2. Found(search) \ {r} \in SUBSET Row
    BY DEF IInv, TypeOK, Found
  <2>3. QED  BY <2>1, <2>2, ListConstants, FS_Subset, FS_CardinalityType
<1>3. CASE page = 0
  BY <1>3 DEF PageExists, user
<1>4. CASE page # 0 /\ ~strayed'
  <2>1. ~(page * rowsPerPage >= Cardinality(Found(search) \ {r}))
    BY <1>4 DEF Gone
  <2>2. page * rowsPerPage < Cardinality(Found(search) \ {r})
    BY <1>2, <2>1
  <2>3. QED  BY <1>1, <2>2 DEF PageExists, user
<1>5. QED  BY <1>3, <1>4 DEF PageExists

\* New rows only make the search find more.
LEMMA NewRowKeepsPage ==
  ASSUME IInv, PageExists, NEW r \in Row, OtherAdds(r) PROVE PageExists'
<1>1. UNCHANGED <<page, rowsPerPage, search, strayed>> /\ rows' = rows \cup {r}
  BY DEF OtherAdds, OtherChange, user
<1>2. Found(search) \in SUBSET Found(search)' /\ Found(search)' \in SUBSET Row
  BY <1>1 DEF Found, IInv, TypeOK
<1>3. IsFiniteSet(Found(search)')
  BY <1>2, ListConstants, FS_Subset
<1>4. /\ IsFiniteSet(Found(search)) /\ Cardinality(Found(search)) <= Cardinality(Found(search)')
      /\ Cardinality(Found(search)) \in Nat /\ Cardinality(Found(search)') \in Nat
  BY <1>2, <1>3, FS_Subset, FS_CardinalityType
<1>5. page * rowsPerPage \in Nat
  BY ListConstants DEF IInv, TypeOK
<1>6. CASE page * rowsPerPage < Cardinality(Found(search))
  <2>1. page * rowsPerPage < Cardinality(Found(search)')
    BY <1>4, <1>5, <1>6
  <2>2. QED  BY <1>1, <2>1 DEF PageExists
<1>7. QED  BY <1>1, <1>6 DEF PageExists

\* The user and the timer turn to pages that exist, or stray.
LEMMA TurnsKeepPage ==
  ASSUME IInv, NextPage \/ PreviousPage PROVE PageExists'
<1>1. page \in Nat /\ rowsPerPage \in Nat
  BY ListConstants DEF IInv, TypeOK
<1>2. PICK p \in Nat : TurnTo(p)
  BY <1>1 DEF NextPage, PreviousPage
<1>3. /\ page' = p /\ UNCHANGED <<rowsPerPage, search, rows>>
      /\ strayed' = (p # 0 /\ p * rowsPerPage >= Cardinality(Found(search)))
  BY <1>2 DEF TurnTo, Turn, server
<1>4. Found(search)' = Found(search) /\ Found(search) \in SUBSET Row
  BY <1>3 DEF Found, IInv, TypeOK
<1>5. Cardinality(Found(search)) \in Nat /\ p * rowsPerPage \in Nat
  BY <1>1, <1>4, ListConstants, FS_Subset, FS_CardinalityType
<1>6. CASE strayed' \/ p = 0
  BY <1>3, <1>6 DEF PageExists
<1>7. CASE ~strayed' /\ p # 0
  <2>1. ~(p * rowsPerPage >= Cardinality(Found(search)))
    BY <1>3, <1>7
  <2>2. p * rowsPerPage < Cardinality(Found(search))
    BY <1>5, <2>1
  <2>3. QED  BY <1>3, <1>4, <2>2 DEF PageExists
<1>8. QED  BY <1>6, <1>7

\* Every step leaves the page in being, or it strayed.
LEMMA PageContinues == IInv /\ PageExists /\ [Next]_vars => PageExists'
<1> SUFFICES ASSUME IInv, PageExists, [Next]_vars PROVE PageExists'
  OBVIOUS
<1>1. ASSUME UNCHANGED <<page, rowsPerPage, search, rows, strayed>> PROVE PageExists'
  BY <1>1 DEF PageExists, Found
<1>2. ASSUME page' = 0 PROVE PageExists'
  BY <1>2 DEF PageExists
<1>3. CASE Press
  <2>1. ASSUME NEW t \in Text, TypeSearch(t) PROVE PageExists'
    BY <1>1, <2>1 DEF TypeSearch, server
  <2>2. CASE PressSearch
    BY <1>2, <2>2 DEF PressSearch, TurnToFirst, Turn
  <2>3. CASE NextPage \/ PreviousPage
    BY <2>3, TurnsKeepPage
  <2>4. CASE Refresh
    BY <1>1, <2>4 DEF Refresh, user, server
  <2>5. ASSUME NEW n \in Size, ChangeRowsPerPage(n) PROVE PageExists'
    BY <1>2, <2>5 DEF ChangeRowsPerPage, TurnToFirst, Turn
  <2>6. ASSUME NEW r \in Row, DeleteRow(r) PROVE PageExists'
    BY <1>1, <2>6 DEF DeleteRow, user
  <2>7. QED  BY <1>3, <2>1, <2>2, <2>3, <2>4, <2>5, <2>6 DEF Press
<1>4. CASE Quiet
  <2> USE DEF user, server
  <2>1. CASE DebounceFires
    BY <1>2, <2>1 DEF DebounceFires, TurnToFirst, Turn
  <2>2. CASE StartFetch
    BY <1>1, <2>2 DEF StartFetch
  <2>3. CASE Answer
    BY <1>1, <2>3 DEF Answer, Serve, FetchAnswered, FetchFailed
  <2>4. CASE Invalidate
    BY <1>1, <2>4 DEF Invalidate
  <2>5. ASSUME NEW a \in DOMAIN cache, Expire(a) PROVE PageExists'
    BY <1>1, <2>5 DEF Expire
  <2>6. CASE ServeDelete
    BY <2>6, GoneKeepsPage DEF ServeDelete
  <2>7. CASE DeleteAnswered
    BY <1>1, <2>7 DEF DeleteAnswered
  <2>8. ASSUME NEW r \in Row, OtherAdds(r) PROVE PageExists'
    BY <2>8, NewRowKeepsPage
  <2>9. ASSUME NEW r \in Row, OtherRemoves(r) PROVE PageExists'
    BY <2>9, GoneKeepsPage DEF OtherRemoves, OtherChange
  <2>10. QED
    BY <1>4, <2>1, <2>2, <2>3, <2>4, <2>5, <2>6, <2>7, <2>8, <2>9 DEF Quiet
<1>5. CASE UNCHANGED vars
  BY <1>1, <1>5 DEF vars, user, server
<1>6. QED  BY <1>3, <1>4, <1>5 DEF Next

-----------------------------------------------------------------------------
(* The theorems *)

\* The page opens on the first page of everything.
THEOREM ListStarts == Init => IInv
<1> SUFFICES ASSUME Init PROVE IInv
  OBVIOUS
<1> USE ListConstants DEF Init
<1>1. TypeOK
  <2>1. DOMAIN cache = {}
    OBVIOUS
  <2>2. timer \in Text \cup {None} /\ shown \in Views \cup {None}
    OBVIOUS
  <2>3. others \in 0..MaxOther /\ presses \in 0..MaxPresses
    OBVIOUS
  <2>4. QED  BY <2>1, <2>2, <2>3 DEF TypeOK
<1>2. AnswersFit /\ CacheFits
  BY DEF AnswersFit, CacheFits
<1>3. ShownIsCurrent /\ TimerIsTyped
  BY DEF ShownIsCurrent, TimerIsTyped, Debounced
<1>4. QED  BY <1>1, <1>2, <1>3 DEF IInv

\* Every step keeps the reasons why a slice may be behind.
THEOREM ListContinues == IInv /\ [Next]_vars => IInv'
<1> SUFFICES ASSUME IInv, [Next]_vars PROVE IInv'
  OBVIOUS
<1>1. CASE Press
  BY <1>1, PressKeeps
<1>2. CASE UNCHANGED presses /\ Quiet
  BY <1>2, QuietKeeps
<1>3. CASE UNCHANGED vars
  <2> USE DEF vars, user, hook, server
  <2>1. TypeOK'
    BY <1>3 DEF IInv, TypeOK
  <2>2. AnswersFit' /\ CacheFits'
    BY <1>3, AnswersStay DEF IInv, AnswersFit, CacheFits, Excused
  <2>3. ShownIsCurrent' /\ TimerIsTyped'
    BY <1>3 DEF IInv, ShownIsCurrent, TimerIsTyped, Current, Debounced
  <2>4. QED  BY <2>1, <2>2, <2>3 DEF IInv
<1>4. QED  BY <1>1, <1>2, <1>3 DEF Next

\* The inductive invariant holds in every behaviour.
THEOREM ListInvariant == Spec => []IInv
BY ListStarts, ListContinues, PTL DEF Spec

\* The variables keep their types.
THEOREM ListTyped == Spec => []TypeOK
<1>1. IInv => TypeOK
  BY DEF IInv
<1>2. QED  BY <1>1, ListInvariant, PTL

\* What an inductive state at rest shows.
LEMMA AtRest == IInv => RestShowsWhatIsAsked
<1> SUFFICES ASSUME IInv, ~Restless, Current \notin failed
             PROVE  /\ shown # None /\ shown.args = Current
                    /\ Debounced => search = searchInput
                    /\ ~shown.slice.old => shown.slice \in Answers(Current)
  BY DEF RestShowsWhatIsAsked
<1>1. /\ Current \in DOMAIN cache /\ timer = None /\ pending = {} /\ ~invalidated
      /\ deleting = None
  BY DEF Restless
<1>2. shown = [args |-> Current, slice |-> cache[Current]] /\ shown # None
  BY <1>1, ViewIsSome DEF IInv, ShownIsCurrent
<1>3. Debounced => search = searchInput
  BY <1>1 DEF IInv, TimerIsTyped
<1>4. cache[Current] \in Answers(Current) \/ cache[Current].old
  BY <1>1 DEF IInv, CacheFits, Excused
<1>5. QED  BY <1>2, <1>3, <1>4

\* Once nothing is to come, the list shows what its controls ask for.
THEOREM RestIsCurrent == Spec => []RestShowsWhatIsAsked
BY AtRest, ListInvariant, PTL

\* An empty page at rest has one of two causes: rows were deleted from under it, or it was
\* turned to with the total of a list that was no longer asked for. Both set strayed.
THEOREM EmptyIsStrayed == Spec => []EmptyPageHasACause
<1>1. Init => PageExists
  BY DEF Init, PageExists
<1>2. Spec => []PageExists
  BY <1>1, ListInvariant, PageContinues, PTL DEF Spec
<1>3. IInv /\ PageExists => EmptyPageHasACause
  <2> SUFFICES ASSUME IInv, PageExists, ~Restless, Current \notin failed, ~shown.slice.old,
                      shown.slice.total # 0, ~strayed
               PROVE  shown.slice.items # {}
    BY DEF EmptyPageHasACause
  <2>1. shown.slice \in Answers(Current)
    BY AtRest DEF RestShowsWhatIsAsked
  <2>2. page \in Nat /\ rowsPerPage \in Nat /\ Current \in Arguments /\ rows \subseteq Row
    BY CurrentTyped, ListConstants DEF IInv, TypeOK, Current
  <2>3. shown.slice.total = Cardinality(Found(search)) /\ Current.search = search
    <3>1. Current.search = search
      BY DEF Current
    <3>2. \E S : shown.slice = [items |-> S, total |-> Cardinality(Found(Current.search)),
                                old |-> FALSE]
      BY <2>1, Zenon DEF Answers
    <3>3. QED  BY <3>1, <3>2
  <2>4. Cardinality(Found(search)) \in Nat
    <3>1. Found(search) \in SUBSET Row
      BY <2>2 DEF Found
    <3>2. QED  BY <3>1, ListConstants, FS_Subset, FS_CardinalityType
  <2>5. page * rowsPerPage < Cardinality(Found(search))
    BY <2>2, <2>3, <2>4 DEF PageExists
  <2>6. Current.skip = page * rowsPerPage
    BY DEF Current
  <2>7. QED  BY <2>1, <2>2, <2>3, <2>5, <2>6, PageHasRows
<1>4. QED  BY <1>2, <1>3, ListInvariant, PTL
=============================================================================
